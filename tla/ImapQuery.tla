------------------------------ MODULE ImapQuery -----------------------------
(***************************************************************************)
(* The queries a mail client asks about a folder, as the algorithms that   *)
(* answer them (crates/imappop3): SEARCH in two passes with its saved      *)
(* result (imap/search.rs, seqset.rs, session.rs), THREAD=REFERENCES       *)
(* (imap/thread.rs), LIST patterns and Sieve globs (session.rs, sieve.rs), *)
(* the parts of a message (imap/fetch.rs, mime.rs) and the dates that      *)
(* SEARCH, SORT, FETCH and APPEND read and write (date.rs).                *)
(*                                                                         *)
(* A job is one query; its loops run as steps.  Another session may remove *)
(* messages while a SEARCH reads them.  A message is what a query can tell *)
(* apart: a flag, whether a word occurs in it, its date, its references,   *)
(* or its tree of parts.  Characters of names are the members of a small   *)
(* alphabet.                                                               *)
(***************************************************************************)
EXTENDS Integers, Sequences, FiniteSets, SequencesExt

CONSTANTS
    Jobs,               \* the jobs asked: a subset of {"search", "thread", "glob", "parts", "date"}
    MaxMessages,        \* messages of a folder
    MaxExpunged,        \* messages others expunge during a query
    BatchMessages,      \* CONTENT_BATCH_MESSAGES
    MaxReferenceDepth,  \* MAX_REFERENCE_DEPTH
    MaxParts,           \* MAX_PARTS
    MaxName,            \* bound on the length of patterns and names
    MaxYears,           \* bound: years from 1970, either way
    TextSymbols         \* the characters of texts: a subset of {"a", "/", "*"}

VARIABLES
    job,                \* the kind of query
    at,                 \* where its handler is
    ask,                \* what is asked
    work,               \* the handler's local variables
    gone,               \* messages another session has removed
    answer

queryVars == <<job, at, ask, work, gone, answer>>

None == [kind |-> "none"]

-----------------------------------------------------------------------------
(* SEARCH.  A message is a record [uid, seen, word, date].                 *)

Leaves == {[op |-> "all"], [op |-> "seen"], [op |-> "body"], [op |-> "uid", to |-> 3]}
Simple == Leaves \cup {[op |-> "not", k |-> l] : l \in Leaves}
Pairs == {[op |-> o, l |-> a, r |-> b] : o \in {"and", "or"}, a \in Simple, b \in Simple}
SearchKeys == Simple \cup Pairs \cup {[op |-> "not", k |-> p] : p \in Pairs}

\* is_content_key: answered only by reading the message.
IsContentKey(k) == k.op = "body"

\* matches
RECURSIVE Matches(_, _)
Matches(k, m) ==
    CASE k.op = "all"  -> TRUE
      [] k.op = "seen" -> m.seen
      [] k.op = "uid"  -> m.uid <= k.to
      [] k.op = "body" -> m.word
      [] k.op = "not"  -> ~Matches(k.k, m)
      [] k.op = "and"  -> Matches(k.l, m) /\ Matches(k.r, m)
      [] k.op = "or"   -> Matches(k.l, m) \/ Matches(k.r, m)

Decided(b) == IF b THEN "yes" ELSE "no"

\* An AND whose undecided part is forgotten.
MetaAndDecided(a, b) == IF "no" \in {a, b} THEN "no" ELSE "yes"

\* And over answers that may be undecided.
MetaAnd(a, b) == IF "no" \in {a, b} THEN "no" ELSE IF "open" \in {a, b} THEN "open" ELSE "yes"
MetaOr(a, b) == IF "yes" \in {a, b} THEN "yes" ELSE IF {a, b} = {"no"} THEN "no" ELSE "open"
MetaNot(a) == IF a = "yes" THEN "no" ELSE IF a = "no" THEN "yes" ELSE "open"

\* matches_meta: what the listing alone decides.
RECURSIVE MatchesMeta(_, _)
MatchesMeta(k, m) ==
    CASE IsContentKey(k) -> "open"
      [] k.op = "not"    -> MetaNot(MatchesMeta(k.k, m))
      [] k.op = "and"    -> MetaAnd(MatchesMeta(k.l, m), MatchesMeta(k.r, m))
      [] k.op = "or"     -> MetaOr(MatchesMeta(k.l, m), MatchesMeta(k.r, m))
      [] OTHER           -> Decided(Matches(k, m))

Contents == [seen : BOOLEAN, word : BOOLEAN]
Folder(c) == [i \in 1..MaxMessages |-> [uid |-> 2 * i - 1, seen |-> c[i].seen, word |-> c[i].word,
                                        date |-> IF c[i].word THEN 1 ELSE 2]]

\* content_batch_ranges: at most so many messages are read at a time.
FirstBatch(pending) == SubSeq(pending, 1, IF Len(pending) < BatchMessages THEN Len(pending) ELSE BatchMessages)
AfterBatch(pending) == SubSeq(pending, Len(FirstBatch(pending)) + 1, Len(pending))

\* SequenceSet::from_values: runs of consecutive numbers.
RunsOf(S) == {<<a, b>> \in S \X S : /\ a <= b /\ a..b \subseteq S
                                    /\ a - 1 \notin S /\ b + 1 \notin S}
\* SequenceSet::contains
Expand(runs) == UNION {r[1]..r[2] : r \in runs}

\* needs_headers: every criterion but ARRIVAL and SIZE is read from the message.
NeedsHeaders == ask.sort = "date"

\* handle_search, handle_sort: the first pass over the listing.
SearchMeta ==
    /\ job = "search" /\ at = "meta"
    /\ LET verdict(i) == MatchesMeta(ask.key, ask.view[i])
           settled(i) == verdict(i) = "yes" /\ ~NeedsHeaders
       IN work' = [hits |-> {i \in DOMAIN ask.view : settled(i)},
                   pending |-> SelectSeq([i \in DOMAIN ask.view |-> i], LAMBDA i : verdict(i) # "no" /\ ~settled(i))]
    /\ at' = "read"
    /\ UNCHANGED <<job, ask, gone, answer>>

\* The second pass, a batch at a time; a message that is gone fails the command.
SearchRead ==
    /\ job = "search" /\ at = "read" /\ work.pending # <<>>
    /\ LET batch == FirstBatch(work.pending)
       IN IF \E i \in Range(batch) : ask.view[i].uid \in gone
          THEN at' = "done" /\ answer' = [kind |-> "failed"] /\ UNCHANGED work
          ELSE /\ work' = [hits |-> work.hits \cup {i \in Range(batch) : Matches(ask.key, ask.view[i])},
                           pending |-> AfterBatch(work.pending)]
               /\ UNCHANGED <<at, answer>>
    /\ UNCHANGED <<job, ask, gone>>

\* The answer: numbers for the client, unique identifiers for the saved result.
SearchAnswer ==
    /\ job = "search" /\ at = "read" /\ work.pending = <<>> /\ ask.sort = "none"
    /\ at' = "saved"
    /\ answer' = [kind |-> "search", runs |-> RunsOf(work.hits), saved |-> {ask.view[i].uid : i \in work.hits}]
    /\ UNCHANGED <<job, ask, work, gone>>

\* values, compare_key: "date" stands for the keys of the header, "size" for the others,
\* which are asked in reverse.
Before(view, i, j) ==
    LET a == IF ask.sort = "date" THEN view[i].date ELSE view[j].uid % 3
        b == IF ask.sort = "date" THEN view[j].date ELSE view[i].uid % 3
    IN a < b \/ (a = b /\ i < j)

\* sort: messages that compare equal stay in the order of the folder.
SortAnswer ==
    /\ job = "search" /\ at = "read" /\ work.pending = <<>> /\ ask.sort # "none"
    /\ at' = "done"
    /\ answer' = [kind |-> "sort", order |-> SetToSortSeq(work.hits, LAMBDA i, j : Before(ask.view, i, j))]
    /\ UNCHANGED <<job, ask, work, gone>>

\* Another session expunges a message.
OtherExpunges(uid) ==
    /\ job = "search" /\ at \in {"meta", "read", "saved"} /\ uid \notin gone /\ Cardinality(gone) < MaxExpunged
    /\ gone' = gone \cup {uid}
    /\ UNCHANGED <<job, at, ask, work, answer>>

\* The position the message had when it was found.
SavedPositionsThen(view, saved) == {i \in DOMAIN view : ask.view[i].uid \in saved}

\* saved_result_numbers: the positions, in the present view, of the saved messages.
SavedPositions(view, saved) == {i \in DOMAIN view : view[i].uid \in saved}

\* After a refresh has dropped what is gone, "$" stands for the saved messages.
UseSaved ==
    /\ job = "search" /\ at = "saved"
    /\ LET view == SelectSeq(ask.view, LAMBDA m : m.uid \notin gone)
           numbers == SavedPositions(view, answer.saved)
       IN answer' = [answer EXCEPT !.kind = "used"] @@ [named |-> {view[i].uid : i \in Expand(RunsOf(numbers))}]
    /\ at' = "done"
    /\ UNCHANGED <<job, ask, work, gone>>

-----------------------------------------------------------------------------
(* THREAD.  Message i has an identifier, a date and references, or a       *)
(* subject (as id) and a date.                                             *)

\* The last reference that names a message, not itself; ids may occur twice, and then
\* mean the first.
ById(msgs, id) == {i \in DOMAIN msgs : msgs[i].id = id /\ \A j \in DOMAIN msgs : msgs[j].id = id => i <= j}
ParentOf(msgs, i) ==
    LET known == SelectSeq(msgs[i].refs, LAMBDA id : ById(msgs, id) # {})
    IN IF known = <<>> THEN 0
       ELSE LET p == CHOOSE p \in ById(msgs, Last(known)) : TRUE IN IF p = i THEN 0 ELSE p

\* render_references: the parents.
ThreadParents ==
    /\ job = "thread" /\ at = "parents" /\ ask.by = "references"
    /\ work' = [parents |-> [i \in DOMAIN ask.msgs |-> ParentOf(ask.msgs, i)], start |-> 1]
    /\ at' = "cycles"
    /\ UNCHANGED <<job, ask, gone, answer>>

\* Following the parents from a message comes back to one already seen.
RECURSIVE Loops(_, _, _)
Loops(parents, i, seen) == IF i = 0 THEN FALSE ELSE IF i \in seen THEN TRUE ELSE Loops(parents, parents[i], seen \cup {i})

\* A loop that only looks one parent ahead.
LoopsOnce(parents, start) == parents[start] # 0 /\ parents[parents[start]] = start

LoopsFrom(parents, start) == Loops(parents, start, {})

\* Cycles are cut where they are found, one message after the other.
ThreadCut ==
    /\ job = "thread" /\ at = "cycles" /\ work.start <= Len(ask.msgs)
    /\ work' = [parents |-> IF LoopsFrom(work.parents, work.start)
                            THEN [work.parents EXCEPT ![work.start] = 0] ELSE work.parents,
                start |-> work.start + 1]
    /\ UNCHANGED <<job, at, ask, gone, answer>>

ByDate(msgs, S) == SetToSortSeq(S, LAMBDA i, j : msgs[i].date < msgs[j].date \/ (msgs[i].date = msgs[j].date /\ i < j))
ChildrenOf(parents, i) == {c \in DOMAIN parents : parents[c] = i}

\* render_reference_node: the numbers in the order they are written; below the depth
\* limit nothing is.
RECURSIVE Rendered(_, _, _, _)
Rendered(msgs, parents, i, depth) ==
    IF depth > MaxReferenceDepth THEN <<i>>
    ELSE <<i>> \o FlattenSeq([n \in 1..Cardinality(ChildrenOf(parents, i)) |->
                     LET c == ByDate(msgs, ChildrenOf(parents, i))[n]
                     IN IF ChildrenOf(parents, c) = {} THEN <<c>> ELSE Rendered(msgs, parents, c, depth + 1)])

\* render_ordered_subject: groups of one subject, each by date, the groups by their first.
SubjectGroups(msgs) ==
    LET subjects == {msgs[i].id : i \in DOMAIN msgs}
        group(x) == ByDate(msgs, {i \in DOMAIN msgs : msgs[i].id = x})
        firsts == ByDate(msgs, {Head(group(x)) : x \in subjects})
    IN FlattenSeq([n \in DOMAIN firsts |-> group(msgs[firsts[n]].id)])

ThreadBySubject ==
    /\ job = "thread" /\ at = "parents" /\ ask.by = "subject"
    /\ work' = [parents |-> [i \in DOMAIN ask.msgs |-> 0], start |-> 1]
    /\ answer' = [kind |-> "thread", order |-> SubjectGroups(ask.msgs)]
    /\ at' = "done"
    /\ UNCHANGED <<job, ask, gone>>

ThreadRender ==
    /\ job = "thread" /\ at = "cycles" /\ work.start > Len(ask.msgs)
    /\ LET roots == ByDate(ask.msgs, ChildrenOf(work.parents, 0))
       IN answer' = [kind |-> "thread", order |-> FlattenSeq([n \in DOMAIN roots |-> Rendered(ask.msgs, work.parents, roots[n], 0)])]
    /\ at' = "done"
    /\ UNCHANGED <<job, ask, work, gone>>

-----------------------------------------------------------------------------
(* Patterns.  list: "*" any text, "%" any text without "/".                *)
(* sieve: "*" any text, "?" any character.                                 *)

CharAt(s, i) == IF i <= Len(s) THEN s[i] ELSE "end"

\* One turn of matches_pattern's loop.
ListTurn(p, n, w) ==
    LET c == CharAt(p, w.i)
    IN IF c = "*" THEN [w EXCEPT !.star = <<w.i, w.j>>, !.percent = <<0, 0>>, !.i = @ + 1]
       ELSE IF c = "%" THEN [w EXCEPT !.percent = <<w.i, w.j>>, !.i = @ + 1]
       ELSE IF c = n[w.j] THEN [w EXCEPT !.i = @ + 1, !.j = @ + 1]
       ELSE IF w.percent # <<0, 0>>
       THEN IF n[w.percent[2]] # "/"
            THEN [w EXCEPT !.percent[2] = @ + 1, !.i = w.percent[1] + 1, !.j = w.percent[2] + 1]
            ELSE [w EXCEPT !.percent = <<0, 0>>]
       ELSE IF w.star # <<0, 0>>
       THEN [w EXCEPT !.star[2] = @ + 1, !.i = w.star[1] + 1, !.j = w.star[2] + 1]
       ELSE [w EXCEPT !.failed = TRUE]

\* One turn of glob_match's loop.
SieveTurn(p, n, w) ==
    LET c == CharAt(p, w.i)
    IN IF c = "?" \/ c = n[w.j] THEN [w EXCEPT !.i = @ + 1, !.j = @ + 1]
       ELSE IF c = "*" THEN [w EXCEPT !.star = <<w.i, w.j>>, !.i = @ + 1]
       ELSE IF w.star # <<0, 0>>
       THEN [w EXCEPT !.star[2] = @ + 1, !.i = w.star[1] + 1, !.j = w.star[2] + 1]
       ELSE [w EXCEPT !.failed = TRUE]

\* A LIST pattern whose "%" is never taken back for the sake of an earlier "*".
GlobTurnForgetful ==
    /\ job = "glob" /\ at = "loop" /\ work.j <= Len(ask.name) /\ ~work.failed
    /\ work' = IF ask.kind = "list" /\ CharAt(ask.pattern, work.i) = "%"
               THEN [work EXCEPT !.percent = <<work.i, work.j>>, !.star = <<0, 0>>, !.i = @ + 1]
               ELSE IF ask.kind = "list" THEN ListTurn(ask.pattern, ask.name, work) ELSE SieveTurn(ask.pattern, ask.name, work)
    /\ UNCHANGED <<job, at, ask, gone, answer>>

GlobTurn ==
    /\ job = "glob" /\ at = "loop" /\ work.j <= Len(ask.name) /\ ~work.failed
    /\ work' = IF ask.kind = "list" THEN ListTurn(ask.pattern, ask.name, work) ELSE SieveTurn(ask.pattern, ask.name, work)
    /\ UNCHANGED <<job, at, ask, gone, answer>>

\* The text is used up: only wildcards may be left of the pattern.
Wildcards == IF ask.kind = "list" THEN {"*", "%"} ELSE {"*"}
GlobEnd ==
    /\ job = "glob" /\ at = "loop" /\ (work.j > Len(ask.name) \/ work.failed)
    /\ at' = "done"
    /\ answer' = [kind |-> "glob",
                  match |-> ~work.failed /\ \A i \in work.i..Len(ask.pattern) : ask.pattern[i] \in Wildcards]
    /\ UNCHANGED <<job, ask, work, gone>>

\* What a pattern means: every wildcard may stand for each text it allows.
RECURSIVE Means(_, _, _)
Means(kind, p, n) ==
    IF p = <<>> THEN n = <<>>
    ELSE LET rest == Tail(p)
         IN CASE Head(p) = "*" -> \E k \in 0..Len(n) : Means(kind, rest, SubSeq(n, k + 1, Len(n)))
              [] Head(p) = "%" -> \E k \in 0..Len(n) : "/" \notin Range(SubSeq(n, 1, k)) /\ Means(kind, rest, SubSeq(n, k + 1, Len(n)))
              [] Head(p) = "?" -> n # <<>> /\ Means(kind, rest, Tail(n))
              [] OTHER -> n # <<>> /\ Head(n) = Head(p) /\ Means(kind, rest, Tail(n))

-----------------------------------------------------------------------------
(* Parts.  The lines of a multipart body: a delimiter, the closing         *)
(* delimiter, or text.                                                     *)

\* multipart_parts, line by line; parts are pairs of first and last line.
PartsLine ==
    /\ job = "parts" /\ at = "loop" /\ work.n <= Len(ask.lines)
    /\ LET line == ask.lines[work.n]
           open == work.from # 0
           closed == IF open THEN Append(work.parts, <<work.from, work.n - 1>>) ELSE work.parts
       IN CASE line = "text" -> work' = [work EXCEPT !.n = @ + 1] /\ UNCHANGED <<at, answer>>
            [] line = "marker" ->
                 /\ work' = [work EXCEPT !.n = @ + 1, !.parts = closed, !.from = work.n + 1]
                 /\ at' = IF Len(closed) >= MaxParts THEN "end" ELSE "loop"
                 /\ UNCHANGED answer
            [] line = "closing" ->
                 /\ work' = [work EXCEPT !.n = @ + 1, !.parts = closed, !.from = 0]
                 /\ at' = "end" /\ UNCHANGED answer
    /\ UNCHANGED <<job, ask, gone>>

\* A body that is not closed ends with its last part.
PartsEndDropping ==
    /\ job = "parts" /\ (at = "end" \/ (at = "loop" /\ work.n > Len(ask.lines)))
    /\ answer' = [kind |-> "parts", parts |-> work.parts]
    /\ at' = "done" /\ UNCHANGED <<job, ask, work, gone>>

PartsEnd ==
    /\ job = "parts" /\ (at = "end" \/ (at = "loop" /\ work.n > Len(ask.lines)))
    /\ answer' = [kind |-> "parts",
                  parts |-> IF work.from # 0 THEN Append(work.parts, <<work.from, Len(ask.lines)>>) ELSE work.parts]
    /\ at' = "done"
    /\ UNCHANGED <<job, ask, work, gone>>

-----------------------------------------------------------------------------
(* Dates (date.rs, smtpd/sink.rs).  An instant is <<days, seconds>> since   *)
(* 1970; a text is its fields.                                             *)

\* Division as the machine does it, towards zero.
Quotient(a, b) == IF a >= 0 THEN a \div b ELSE -((-a) \div b)

DaysFromCivil(year, month, day) ==
    LET y == IF month <= 2 THEN year - 1 ELSE year
        era == Quotient(IF y >= 0 THEN y ELSE y - 399, 400)
        yoe == y - era * 400
        mp == IF month > 2 THEN month - 3 ELSE month + 9
        doy == (153 * mp + 2) \div 5 + day - 1
    IN era * 146097 + yoe * 365 + yoe \div 4 - yoe \div 100 + doy - 719468

CivilFromDays(days) ==
    LET z == days + 719468
        era == Quotient(IF z >= 0 THEN z ELSE z - 146096, 146097)
        doe == z - era * 146097
        yoe == (doe - doe \div 1460 + doe \div 36524 - doe \div 146096) \div 365
        doy == doe - (365 * yoe + yoe \div 4 - yoe \div 100)
        mp == (5 * doy + 2) \div 153
        month == IF mp < 10 THEN mp + 3 ELSE mp - 9
    IN <<yoe + era * 400 + (IF month <= 2 THEN 1 ELSE 0), month, doy - (153 * mp + 2) \div 5 + 1>>

Weekday(days) == (days + 4) % 7

IsLeapInCentury(year) == year % 4 = 0 /\ year % 100 # 0
IsLeap(year) == (year % 4 = 0 /\ year % 100 # 0) \/ year % 400 = 0
DaysInMonth(year, month) ==
    CASE month \in {1, 3, 5, 7, 8, 10, 12} -> 31
      [] month \in {4, 6, 9, 11} -> 30
      [] month = 2 -> IF IsLeap(year) THEN 29 ELSE 28
      [] OTHER -> 0

ValidateDate(year, month, day) == year \in 1..9999 /\ day # 0 /\ day <= DaysInMonth(year, month)

\* Seconds east of UTC; "none" is a text without a zone.
ParseZone(zone) == zone.sign * (zone.hours * 3600 + zone.minutes * 60)
ZoneRead(zone) == zone.sign \in {1, -1} /\ zone.hours \in 0..23 /\ zone.minutes \in 0..59

Instant(days, seconds) == <<days + (seconds \div 86400), seconds % 86400>>
Unread == <<"unread">>

\* parse_date_time: a zone that cannot be read refuses the text.
ParseDateTime(t) ==
    IF /\ ValidateDate(t.year, t.month, t.day)
       /\ t.hour \in 0..23 /\ t.minute \in 0..59 /\ t.second \in 0..60
       /\ ZoneRead(t.zone)
    THEN Instant(DaysFromCivil(t.year, t.month, t.day),
                 t.hour * 3600 + t.minute * 60 + t.second - ParseZone(t.zone))
    ELSE Unread

\* parse_header_date: a zone that cannot be read counts as UTC.
ParseHeaderDate(t) ==
    ParseDateTime([t EXCEPT !.zone = IF ZoneRead(t.zone) THEN t.zone ELSE [sign |-> 1, hours |-> 0, minutes |-> 0]])

\* format_date_time, format_rfc5322_date: always in UTC.
FormatDateTime(instant) ==
    LET c == CivilFromDays(instant[1])
    IN [year |-> c[1], month |-> c[2], day |-> c[3], hour |-> instant[2] \div 3600,
        minute |-> (instant[2] % 3600) \div 60, second |-> instant[2] % 60,
        zone |-> [sign |-> 1, hours |-> 0, minutes |-> 0]]

\* The calendar on the wall, a page for each month; work is the page in view:
\* the number and the weekday of its first day.
PageAfter(pg) ==
    LET next == IF pg.month = 12 THEN <<pg.year + 1, 1>> ELSE <<pg.year, pg.month + 1>>
        length == DaysInMonth(pg.year, pg.month)
    IN [year |-> next[1], month |-> next[2], first |-> pg.first + length,
        weekday |-> (pg.weekday + length) % 7]
PageBefore(pg) ==
    LET last == IF pg.month = 1 THEN <<pg.year - 1, 12>> ELSE <<pg.year, pg.month - 1>>
        length == DaysInMonth(last[1], last[2])
    IN [year |-> last[1], month |-> last[2], first |-> pg.first - length,
        weekday |-> (pg.weekday - length) % 7]

TurnPage ==
    /\ job = "date" /\ work.year \in (1970 - MaxYears)..(1970 + MaxYears)
    /\ work' = IF ask.way = 1 THEN PageAfter(work) ELSE PageBefore(work)
    /\ UNCHANGED <<job, at, ask, gone, answer>>

-----------------------------------------------------------------------------
Words(S) == UNION {[1..n -> S] : n \in 0..MaxName}
ThreadMessages == [id : 1..MaxMessages, date : 1..2, refs : {<<>>} \cup {<<a>> : a \in 1..MaxMessages} \cup {<<1, 2>>, <<3, 1>>}]

QueryInit ==
    /\ job \in Jobs /\ gone = {} /\ answer = None
    /\ CASE job = "search" ->
              /\ at = "meta" /\ work = None
              /\ \E c \in [1..MaxMessages -> Contents], k \in SearchKeys, order \in {"none", "size", "date"} :
                    /\ k \notin Simple => order = "none" \/ (order = "date" /\ k.op = "and")
                    /\ ask = [view |-> Folder(c), key |-> k, sort |-> order]
         [] job = "thread" ->
              /\ at = "parents" /\ work = None
              /\ \/ \E msgs \in [1..MaxMessages -> ThreadMessages] : ask = [by |-> "references", msgs |-> msgs]
                 \/ \E msgs \in [1..MaxMessages -> [id : 1..2, date : 1..2]] : ask = [by |-> "subject", msgs |-> msgs]
         [] job = "glob" ->
              /\ at = "loop" /\ work = [i |-> 1, j |-> 1, star |-> <<0, 0>>, percent |-> <<0, 0>>, failed |-> FALSE]
              /\ \E kind \in {"list", "sieve"} :
                    \E p \in Words(IF kind = "list" THEN {"a", "/", "*", "%"} ELSE {"a", "*", "?"}),
                       n \in Words(TextSymbols) : ask = [kind |-> kind, pattern |-> p, name |-> n]
         [] job = "parts" ->
              /\ at = "loop" /\ work = [n |-> 1, from |-> 0, parts |-> <<>>]
              /\ \E n \in 0..5 : \E lines \in [1..n -> {"text", "marker", "closing"}] : ask = [lines |-> lines]
         [] job = "date" ->
              /\ at = "walk" /\ work = [year |-> 1970, month |-> 1, first |-> 0, weekday |-> 4]
              /\ \E way \in {1, -1} : ask = [way |-> way]

QueryNext ==
    \/ SearchMeta \/ SearchRead \/ SearchAnswer \/ SortAnswer \/ UseSaved
    \/ \E i \in 1..MaxMessages : OtherExpunges(2 * i - 1)
    \/ ThreadParents \/ ThreadCut \/ ThreadRender \/ ThreadBySubject
    \/ GlobTurn \/ GlobEnd
    \/ PartsLine \/ PartsEnd
    \/ TurnPage

Spec == QueryInit /\ [][QueryNext]_queryVars

-----------------------------------------------------------------------------
\* A SEARCH that succeeds names exactly the messages that match, though most are
\* decided from the listing, and its number ranges say the same; whatever is expunged
\* afterwards, "$" still stands for messages that matched and for all that are left.
SearchExact ==
    LET matching == {i \in DOMAIN ask.view : Matches(ask.key, ask.view[i])}
        uids == {ask.view[i].uid : i \in matching}
    IN job = "search" =>
        /\ answer.kind \in {"search", "used"} => Expand(answer.runs) = matching /\ answer.saved = uids
        /\ answer.kind = "used" => answer.named = uids \ gone
        /\ answer.kind = "sort" =>
             /\ Range(answer.order) = matching /\ Len(answer.order) = Cardinality(matching)
             /\ \A i, j \in DOMAIN answer.order : i < j => ~Before(ask.view, answer.order[j], answer.order[i])

\* THREAD shows every message once, whatever circles the references draw, except those
\* below the depth at which rendering stops.
RECURSIVE DepthWithin(_, _, _)
DepthWithin(parents, i, n) == IF n = 0 \/ parents[i] = 0 THEN 0 ELSE 1 + DepthWithin(parents, parents[i], n - 1)
ThreadedOnce ==
    answer.kind = "thread" =>
        \A i \in DOMAIN ask.msgs :
            Cardinality({n \in DOMAIN answer.order : answer.order[n] = i})
              = IF DepthWithin(work.parents, i, MaxMessages) \in (MaxReferenceDepth + 2)..(MaxMessages - 1) THEN 0 ELSE 1

\* The loops of matches_pattern and glob_match, which remember one or two places to
\* come back to, decide what trying every possibility would.
PatternExact == answer.kind = "glob" => answer.match = Means(ask.kind, ask.pattern, ask.name)

\* Every text line between the first delimiter and the closing one is in one part, so
\* BODYSTRUCTURE and BODY[n] speak about all of the message.
PartsComplete ==
    answer.kind = "parts" =>
        LET first == SelectInSeq(ask.lines, LAMBDA l : l = "marker")
            last == SelectInSeq(ask.lines, LAMBDA l : l = "closing")
            inside == {n \in DOMAIN ask.lines : /\ first # 0 /\ n > first /\ ask.lines[n] = "text"
                                                /\ (last # 0 /\ last > first) => n < last}
        IN first # 0 /\ (last = 0 \/ last > first) =>
               \A n \in inside : Cardinality({k \in DOMAIN answer.parts : n \in answer.parts[k][1]..answer.parts[k][2]}) = 1

\* The arithmetic of date.rs is the calendar: it numbers the days as they follow one
\* another, accepts exactly the dates there are, and reads back the instant that was
\* written, in whatever zone it was written.
Zones == {[sign |-> 1, hours |-> 0, minutes |-> 0], [sign |-> 1, hours |-> 8, minutes |-> 0],
          [sign |-> -1, hours |-> 9, minutes |-> 30], [sign |-> 1, hours |-> 14, minutes |-> 0]}
DatesExact ==
    job = "date" =>
        LET y == work.year
            m == work.month
            there(n, s, z) == [FormatDateTime(Instant(n, s + ParseZone(z))) EXCEPT !.zone = z]
        IN  \A d \in 0..32 :
              LET n == work.first + d - 1
                  within == d \in 1..(PageAfter(work).first - work.first)
              IN  /\ within <=> ValidateDate(y, m, d)
                  /\ within => CivilFromDays(n) = <<y, m, d>> /\ DaysFromCivil(y, m, d) = n
                               /\ Weekday(n) = (work.weekday + d - 1) % 7
                  /\ d \in {1, 28} => \A s \in {0, 43210, 86399}, z \in Zones :
                        /\ ParseDateTime(there(n, s, z)) = <<n, s>>
                        /\ ParseHeaderDate(there(n, s, z)) = <<n, s>>
=============================================================================
