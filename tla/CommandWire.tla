----------------------------- MODULE CommandWire -----------------------------
(***************************************************************************)
(* Bytes read off a connection, in two state machines.                     *)
(*                                                                         *)
(* The command readers: lineio.rs under the readers of IMAP                *)
(* (imap/parser.rs) and ManageSieve (managesieve.rs).  A client sends      *)
(* commands whose arguments are atoms, quoted strings, lists and literals; *)
(* the bytes arrive in pieces of any size, several commands may be under   *)
(* way at once, and a client waits for the server's word before it sends   *)
(* the bytes of a synchronising literal.  A symbol is a character, except  *)
(* that a literal marker such as {2+} is one symbol.                       *)
(*                                                                         *)
(* The DATA phase's byte machine, DataSink of crates/smtpd/src/data.rs:    *)
(* it finds the end of the message, takes off the dots the client stuffed, *)
(* refuses bare line feeds and gives up buffering an oversized message     *)
(* without losing sight of its end.  It sees one byte at a time, so how    *)
(* the stream is cut into chunks does not matter to it.                    *)
(***************************************************************************)
EXTENDS Integers, Sequences, FiniteSets, SequencesExt

CONSTANTS
    WireModes,      \* subset of {"imap", "sieve"}
    Arguments,      \* [WireModes -> sets of [t, v, sync]]: what clients send
    MaxWireCommands, MaxWireArguments,
    WireMaxLine, WireMaxLiteral, WireMaxTokens,
    WireMaxCommand, \* max_command: the lines of one command together
    MaxLiterals,    \* literals in one command
    MaxSize,        \* max_message_size
    MaxBytes        \* bound: bytes a client sends in the DATA phase

VARIABLES
    mode,      \* the protocol of this connection
    plan,      \* the commands the client sends, each a sequence of arguments
    sent,      \* symbols the client has written
    received,  \* symbols in or through the server's buffer
    consumed,  \* symbols the server took from its buffer
    reader,    \* [at, want, chunks, text, bytes]: waiting for a "line" or a
               \* "literal" of want bytes, or "closed"; text and bytes: the
               \* symbols of the command's lines and of its literals so far
    ready,     \* continuation requests the server has sent
    got        \* the commands the server has read

VARIABLES
    normalize,   \* the listener's BareNewlinePolicy is Normalize, not Reject
    fed,         \* history: the bytes fed so far
    sawCr,       \* State::SawCr
    line,        \* DataSink::line
    out,         \* DataSink::out
    overflowed,  \* DataSink::overflowed
    lineLen,     \* DataSink::line_len: 0, 1 (a single dot) or 2 (anything else)
    told,        \* collect_data's told_too_large
    result       \* what collect_data has come to

wireVars == <<mode, plan, sent, received, consumed, reader, ready, got>>
streamVars == <<normalize, fed, sawCr, line, out, overflowed, lineLen, told, result>>

-----------------------------------------------------------------------------
(* The client (external): how a command is written                         *)

Marks == {"{0}", "{1}", "{2}", "{9}", "{0+}", "{1+}", "{2+}"}
MarkSize(m) == CASE m \in {"{0}", "{0+}"} -> 0 [] m \in {"{1}", "{1+}"} -> 1 [] m \in {"{2}", "{2+}"} -> 2 [] OTHER -> 9
Synchronising(m) == m \in {"{0}", "{1}", "{2}", "{9}"}
Mark(size, sync) == CHOOSE m \in Marks : MarkSize(m) = size /\ Synchronising(m) = sync
CrLf == <<"CR", "LF">>

Escaped(v) == FoldLeft(LAMBDA text, c : text \o (IF c \in {"\"", "\\"} THEN <<"\\", c>> ELSE <<c>>), <<>>, v)
WrittenOut(arg) ==
    CASE arg.t = "atom" -> arg.v
      [] arg.t = "quoted" -> <<"\"">> \o Escaped(arg.v) \o <<"\"">>
      [] arg.t = "list" -> <<"(">> \o arg.v \o <<")">>
      [] OTHER -> <<Mark(Len(arg.v), arg.sync)>> \o CrLf \o arg.v
Opening(m) == IF m = "imap" THEN <<"t", " ", "n">> ELSE <<"n">>
Line(m, command) == FoldLeft(LAMBDA text, arg : text \o <<" ">> \o WrittenOut(arg), Opening(m), command) \o CrLf
Stream == FoldLeft(LAMBDA text, command : text \o Line(mode, command), <<>>, plan)

(* A client stops after a marker that asks for the server's word *)
Pauses == {i \in 3..Len(Stream) : Stream[i] = "LF" /\ Stream[i - 2] \in Marks /\ Synchronising(Stream[i - 2])}
Passed == {i \in Pauses : i <= sent}
ClientSends ==
    LET left == {i \in Pauses : i > sent}
        stop == IF left = {} THEN Len(Stream) ELSE CHOOSE i \in left : \A j \in left : i <= j
    IN
    /\ sent < Len(Stream)
    /\ sent \in Pauses => ready >= Cardinality(Passed)
    /\ sent' = stop
    /\ UNCHANGED <<mode, plan, received, consumed, reader, ready, got>>

-----------------------------------------------------------------------------
(* LineIo                                                                  *)

Buffer == SubSeq(Stream, consumed + 1, received)

(* pump: some of what was sent arrives *)
Pump ==
    /\ reader.at # "closed"
    /\ received' \in (received + 1)..sent
    /\ UNCHANGED <<mode, plan, sent, consumed, reader, ready, got>>

FreshReader == [at |-> "line", want |-> 0, chunks |-> <<>>, text |-> 0, bytes |-> 0]
Close == reader' = [reader EXCEPT !.at = "closed"]
LineEnd == IF "LF" \in Range(Buffer) THEN CHOOSE p \in DOMAIN Buffer : Buffer[p] = "LF" /\ \A q \in 1..(p - 1) : Buffer[q] # "LF" ELSE 0
(* read_line: the text before the first LF, without one CR *)
TextWithCr(p) == SubSeq(Buffer, 1, p - 1)
TextBefore(p) == LET text == SubSeq(Buffer, 1, p - 1) IN IF text # <<>> /\ Last(text) = "CR" THEN Front(text) ELSE text

(* A line that is too long clears the buffer and ends the connection *)
LineTooLong ==
    /\ reader.at = "line"
    /\ IF LineEnd = 0 THEN Len(Buffer) > WireMaxLine ELSE Len(TextBefore(LineEnd)) > WireMaxLine
    /\ consumed' = received
    /\ Close
    /\ UNCHANGED <<mode, plan, sent, received, ready, got>>

-----------------------------------------------------------------------------
(* imap/parser.rs                                                          *)

EmptyTokens == [frames |-> << <<>> >>, cur |-> <<>>, in |-> "none", count |-> 0, bad |-> FALSE]
Top(st) == Last(st.frames)
(* push_token *)
PushToken(st, token) ==
    [st EXCEPT !.frames = Append(Front(@), Append(Top(st), token)), !.cur = <<>>, !.in = "none",
               !.count = @ + 1, !.bad = @ \/ st.count >= WireMaxTokens]
EndAtom(st) == IF st.in = "atom" THEN PushToken(st, [t |-> "atom", v |-> st.cur]) ELSE st
(* A list's value is kept as its words with one space between them *)
Joined(tokens) == FoldLeft(LAMBDA text, token : text \o (IF text = <<>> THEN <<>> ELSE <<" ">>) \o token.v, <<>>, tokens)
CloseList(st) ==
    IF Len(st.frames) = 1 THEN [st EXCEPT !.bad = TRUE]
    ELSE PushToken([st EXCEPT !.frames = Front(@)], [t |-> "list", v |-> Joined(Top(st))])
(* tokenize_text and parse_quoted, a character at a time *)
UnescapedStep(st, c) ==
    CASE c = "\"" -> PushToken(st, [t |-> "quoted", v |-> st.cur]) [] OTHER -> [st EXCEPT !.cur = Append(@, c)]
QuotedStep(st, c) ==
    CASE st.in = "escaped" -> [st EXCEPT !.cur = Append(@, c), !.in = "quoted"]
      [] c = "\\" -> [st EXCEPT !.in = "escaped"]
      [] c = "\"" -> PushToken(st, [t |-> "quoted", v |-> st.cur])
      [] OTHER -> [st EXCEPT !.cur = Append(@, c)]
ImapStep(st, c) ==
    CASE st.bad -> st
      [] ~st.bad /\ st.in \in {"quoted", "escaped"} -> QuotedStep(st, c)
      [] OTHER ->
           CASE c = " " -> EndAtom(st)
             [] c = "(" -> [EndAtom(st) EXCEPT !.frames = Append(@, <<>>)]
             [] c = ")" -> CloseList(EndAtom(st))
             [] c = "\"" -> [EndAtom(st) EXCEPT !.in = "quoted"]
             [] c \in Marks \cup {"CR"} -> [st EXCEPT !.bad = TRUE]
             [] OTHER -> [st EXCEPT !.cur = Append(@, c), !.in = "atom"]
(* tokenize: texts and literals in turn; a string may not span two texts *)
ChunkStep(st, chunk) ==
    IF chunk.t = "literal" THEN PushToken(st, [t |-> "literal", v |-> chunk.v])
    ELSE LET after == EndAtom(FoldLeft(ImapStep, st, chunk.v))
         IN [after EXCEPT !.bad = @ \/ after.in \in {"quoted", "escaped"}]
Tokenized(chunks) == FoldLeft(ChunkStep, EmptyTokens, chunks)

(* finish: a tag and a name, both atoms *)
Finished(st) ==
    /\ ~st.bad /\ Len(st.frames) = 1
    /\ Len(Top(st)) >= 2 /\ Top(st)[1].t = "atom" /\ Top(st)[2].t = "atom"

(* split_literal_marker: at the end of the line, after a space or a list's *)
(* opening                                                                 *)
HasMarker(text) ==
    /\ text # <<>> /\ Last(text) \in Marks
    /\ Len(text) > 1 => text[Len(text) - 1] \in {" ", "("}

Take(n) == consumed' = consumed + n
Literals(chunks) == Len(SelectSeq(chunks, LAMBDA chunk : chunk.t = "literal"))
Refuse == Close /\ UNCHANGED <<ready, got>>
(* The line ends with a marker: its literal is read next *)
AwaitLiteral(chunks, mark, used) ==
    LET bytes == reader.bytes + MarkSize(mark)
    IN IF bytes <= WireMaxLiteral /\ Literals(chunks) < MaxLiterals
       THEN /\ reader' = [at |-> "literal", want |-> MarkSize(mark), chunks |-> chunks, text |-> used, bytes |-> bytes]
            /\ ready' = IF Synchronising(mark) THEN ready + 1 ELSE ready
            /\ got' = got
       ELSE Refuse
(* The line ends the command *)
FinishCommand(st) ==
    IF Finished(st) THEN reader' = FreshReader /\ got' = Append(got, SubSeq(Top(st), 3, Len(Top(st)))) /\ ready' = ready
    ELSE Refuse
WithText(text) == Append(reader.chunks, [t |-> "text", v |-> text])
ImapLine(text) ==
    /\ Len(text) <= WireMaxLine
    /\ IF reader.text + Len(text) > WireMaxCommand THEN Refuse
       ELSE IF HasMarker(text) THEN AwaitLiteral(WithText(Front(text)), Last(text), reader.text + Len(text))
       ELSE FinishCommand(Tokenized(WithText(text)))
ReadImapLine ==
    /\ mode = "imap" /\ reader.at = "line" /\ LineEnd # 0
    /\ ImapLine(TextBefore(LineEnd))
    /\ Take(LineEnd)
    /\ UNCHANGED <<mode, plan, sent, received>>

(* read_exact; the rest of the command follows the literal *)
LiteralOf(n) == SubSeq(Buffer, 1, n)
ReadImapLiteral ==
    /\ mode = "imap" /\ reader.at = "literal" /\ Len(Buffer) >= reader.want
    /\ Take(reader.want)
    /\ reader' = [reader EXCEPT !.at = "line", !.chunks = Append(@, [t |-> "literal", v |-> LiteralOf(reader.want)])]
    /\ UNCHANGED <<mode, plan, sent, received, ready, got>>

-----------------------------------------------------------------------------
(* managesieve.rs                                                          *)

(* tokenize: words and quoted strings, told apart no longer *)
PushWord(st) == [st EXCEPT !.words = Append(@, st.cur), !.cur = <<>>, !.in = "none"]
SieveStep(st, c) ==
    CASE st.in = "escaped" -> [st EXCEPT !.cur = @ \o (IF c \in {"\"", "\\"} THEN <<c>> ELSE <<"\\", c>>), !.in = "quoted"]
      [] st.in = "quoted" /\ c = "\\" -> [st EXCEPT !.in = "escaped"]
      [] st.in = "quoted" /\ c = "\"" -> PushWord(st)
      [] st.in = "none" /\ c = "\"" -> [st EXCEPT !.in = "quoted"]
      [] st.in # "quoted" /\ c = " " -> IF st.in = "atom" THEN PushWord(st) ELSE st
      [] OTHER -> [st EXCEPT !.cur = Append(@, c), !.in = IF st.in = "none" THEN "atom" ELSE @]
WordsRead(text) == FoldLeft(SieveStep, [words |-> <<>>, cur |-> <<>>, in |-> "none"], text)
Words(text) == IF WordsRead(text).in = "atom" THEN PushWord(WordsRead(text)).words ELSE WordsRead(text).words

(* read_command: a line without words ends the session like a closed       *)
(* connection; a last word that looks like a marker is one                 *)
ReadSieveLine ==
    LET text == TextBefore(LineEnd)
        words == Words(text)
        literal == words # <<>> /\ Len(Last(words)) = 1 /\ Last(words)[1] \in Marks
    IN
    /\ mode = "sieve" /\ reader.at = "line" /\ LineEnd # 0 /\ Len(text) <= WireMaxLine
    /\ Take(LineEnd)
    /\ CASE WordsRead(text).in \in {"quoted", "escaped"} \/ words = <<>> -> Close /\ got' = got
         [] literal /\ MarkSize(Last(words)[1]) > WireMaxLiteral -> Close /\ got' = got
         [] literal -> reader' = [reader EXCEPT !.at = "literal", !.want = MarkSize(Last(words)[1]), !.chunks = Front(words)] /\ got' = got
         [] OTHER -> got' = Append(got, Tail(words)) /\ reader' = reader
    /\ UNCHANGED <<mode, plan, sent, received, ready>>

ReadSieveLiteral ==
    /\ mode = "sieve" /\ reader.at = "literal" /\ Len(Buffer) >= reader.want
    /\ Take(reader.want)
    /\ IF reader.chunks = <<>> THEN Close /\ got' = got
       ELSE got' = Append(got, Append(Tail(reader.chunks), LiteralOf(reader.want))) /\ reader' = FreshReader
    /\ UNCHANGED <<mode, plan, sent, received, ready>>

(* The client has said everything and closes *)
Eof ==
    /\ reader.at = "line" /\ received = Len(Stream) /\ Buffer = <<>>
    /\ Close
    /\ UNCHANGED <<mode, plan, sent, received, consumed, ready, got>>

WireInit ==
    /\ mode \in WireModes
    /\ plan \in UNION {[1..n -> UNION {[1..k -> Arguments[mode]] : k \in 0..MaxWireArguments}] : n \in 1..MaxWireCommands}
    /\ FoldLeft(LAMBDA n, command : n + Len(command), 0, plan) <= MaxWireArguments
    \* a ManageSieve client sends the script, and nothing else, as a literal
    /\ mode = "sieve" => \A i \in DOMAIN plan : \A j \in 1..(Len(plan[i]) - 1) : plan[i][j].t # "literal"
    /\ sent = 0 /\ received = 0 /\ consumed = 0
    /\ reader = FreshReader
    /\ ready = 0
    /\ got = <<>>

WireNext ==
    \/ ClientSends \/ Pump \/ LineTooLong
    \/ ReadImapLine \/ ReadImapLiteral
    \/ ReadSieveLine \/ ReadSieveLiteral
    \/ Eof

-----------------------------------------------------------------------------
Meant(arg) == IF mode = "imap" THEN [t |-> arg.t, v |-> arg.v] ELSE arg.v
Sent(i) == [j \in DOMAIN plan[i] |-> Meant(plan[i][j])]
(* Commands within the reader's limits *)
LiteralBytes(command) == FoldLeft(LAMBDA n, arg : IF arg.t = "literal" THEN n + Len(arg.v) ELSE n, 0, command)
LiteralCount(command) == Len(SelectSeq(command, LAMBDA arg : arg.t = "literal"))
Proper ==
    \A i \in DOMAIN plan :
        /\ LiteralBytes(plan[i]) <= WireMaxLiteral /\ LiteralCount(plan[i]) <= MaxLiterals
        /\ Len(Line(mode, plan[i])) <= WireMaxLine
(* However the bytes were cut, the server reads the commands the client    *)
(* sent, in order and with the arguments it meant, and nothing else        *)
CommandsExact == Len(got) <= Len(plan) /\ \A i \in DOMAIN got : got[i] = Sent(i)
(* A connection whose commands are all proper is not closed before the     *)
(* last of them was read: IMAP                                             *)
ImapNotCutOff == mode = "imap" /\ Proper /\ reader.at = "closed" => Len(got) = Len(plan)
(* The same for ManageSieve                                                *)
SieveNotCutOff == mode = "sieve" /\ Proper /\ reader.at = "closed" => Len(got) = Len(plan)
WireExact == CommandsExact /\ ImapNotCutOff
-----------------------------------------------------------------------------
(* The DATA phase                                                          *)

Bytes == {"CR", "LF", ".", "x"}
Pending  == [kind |-> "pending", data |-> <<>>]
Rejected == [kind |-> "rejected", data |-> <<>>]
Discarded == [kind |-> "discarded", data |-> <<>>]
Received(data) == [kind |-> "received", data |-> data]

StreamInit ==
    /\ normalize \in BOOLEAN
    /\ fed = <<>> /\ sawCr = FALSE
    /\ line = <<>> /\ out = <<>>
    /\ overflowed = FALSE /\ lineLen = 0
    /\ told = 0 /\ result = Pending

-----------------------------------------------------------------------------
(* push and check_size *)

LineLenAfter(bytes) == IF lineLen = 0 /\ bytes = <<".">> THEN 1 ELSE 2

OverLimitSent(o, l) == Len(o) > MaxSize

OverLimitAtOnce(o, l) == Len(o) + Len(l) >= MaxSize

OverLimit(o, l) == Len(o) + Len(l) > MaxSize

\* The buffers after a push or a line's end: given up once they exceed the
\* limit, and from then on nothing is kept.
Kept(o, l) ==
    IF overflowed \/ OverLimit(o, l)
    THEN out' = <<>> /\ line' = <<>> /\ overflowed' = TRUE
    ELSE out' = o /\ line' = l /\ UNCHANGED overflowed

\* The peer is told of the overflow once.
Told == told' = IF overflowed' /\ told = 0 THEN 1 ELSE told

Push(bytes) ==
    /\ lineLen' = LineLenAfter(bytes)
    /\ Kept(out, line \o bytes)
    /\ Told
    /\ UNCHANGED result

-----------------------------------------------------------------------------
(* complete_line *)

UnstuffedAll(l) == SelectSeq(l, LAMBDA b : b # ".")

StripPrefix(l) == IF l # <<>> /\ Head(l) = "." THEN Tail(l) ELSE l

IsSingleDotByBuffer == line = <<".">>

IsSingleDot == lineLen = 1

CompleteLine(bare) ==
    /\ lineLen' = 0
    /\ sawCr' = FALSE
    /\ \/ /\ bare /\ (~normalize \/ IsSingleDot)
          /\ result' = Rejected
          /\ line' = <<>>
          /\ UNCHANGED <<out, overflowed, told>>
       \/ /\ ~bare /\ IsSingleDot
          /\ result' = IF overflowed THEN Discarded ELSE Received(out)
          /\ line' = <<>> /\ out' = <<>>
          /\ UNCHANGED <<overflowed, told>>
       \/ /\ bare => normalize
          /\ ~IsSingleDot
          /\ Kept(out \o StripPrefix(line) \o CrLf, <<>>)
          /\ Told
          /\ UNCHANGED result

-----------------------------------------------------------------------------
(* feed_byte *)

InLine(b) ==
    /\ ~sawCr
    /\ \/ /\ b = "CR"
          /\ sawCr' = TRUE
          /\ UNCHANGED <<line, out, overflowed, lineLen, told, result>>
       \/ b = "LF" /\ CompleteLine(TRUE)
       \/ b \in {".", "x"} /\ Push(<<b>>) /\ UNCHANGED sawCr

SawCr(b) ==
    /\ sawCr
    /\ \/ b = "LF" /\ CompleteLine(FALSE)
       \/ b = "CR" /\ Push(<<"CR">>) /\ UNCHANGED sawCr
       \/ b \in {".", "x"} /\ Push(<<"CR", b>>) /\ sawCr' = FALSE

Feed(b) ==
    /\ result = Pending
    /\ Len(fed) < MaxBytes
    /\ fed' = Append(fed, b)
    /\ InLine(b) \/ SawCr(b)
    /\ UNCHANGED normalize

StreamNext == \E b \in Bytes : Feed(b)

-----------------------------------------------------------------------------
(* The reference: what the bytes fed so far mean, read off the whole of    *)
(* them.  A line ends with a LF; the message ends with the first line that *)
(* is one dot, if it ends in CRLF.                                         *)

LfAt    == {i \in DOMAIN fed : fed[i] = "LF"}
BareAt  == {i \in LfAt : i = 1 \/ fed[i - 1] # "CR"}
StartOf(i) == 1 + Max({0} \cup {j \in LfAt : j < i})
TextOf(i)  == SubSeq(fed, StartOf(i), IF i \in BareAt THEN i - 1 ELSE i - 2)
Dots    == {i \in LfAt : TextOf(i) = <<".">>}

IsEnd(i)   == i \in Dots \ BareAt
IsFault(i) == i \in BareAt /\ (~normalize \/ i \in Dots)
Verdicts   == {i \in LfAt : IsEnd(i) \/ IsFault(i)}

Unstuffed(l) == SubSeq(l, IF IsPrefix(<<".">>, l) THEN 2 ELSE 1, Len(l))

MessageOf(ends) ==
    FlattenSeq([k \in 1..Len(ends) |-> Unstuffed(TextOf(ends[k])) \o CrLf])

BodyLines == SetToSortSeq(LfAt \ Verdicts, <)

-----------------------------------------------------------------------------
(* Properties *)

\* No smuggling: the machine stops exactly at the first CRLF.CRLF, or at the
\* first bare line feed the policy refuses, and at nothing else, overflowed
\* or not (feed_byte, complete_line).
StopsWhereItMust ==
    /\ (result = Pending) = (Verdicts = {})
    /\ result # Pending =>
          /\ Verdicts = {Len(fed)}
          /\ (result = Rejected) = IsFault(Len(fed))

\* The message handed over is the lines of the stream with their stuffed
\* dots removed once, bare line feeds made CRLF, and never exceeds the limit.
MessageExact ==
    result.kind = "received" =>
        /\ result.data = MessageOf(BodyLines)
        /\ Len(result.data) <= MaxSize

\* A message is discarded as too large only if it has at least the size that
\* EHLO advertises.  One of exactly that size is discarded too: check_size
\* counts the dot of the terminating line.
SizeHonoured ==
    result = Discarded => Len(MessageOf(BodyLines)) >= MaxSize

\* All three, and a peer told of the overflow once, when it happens
\* (told_too_large): the machine is exact about the end, the bytes and the
\* size of a message.
StreamExact ==
    /\ StopsWhereItMust /\ MessageExact /\ SizeHonoured
    /\ told = (IF overflowed THEN 1 ELSE 0)
=============================================================================
