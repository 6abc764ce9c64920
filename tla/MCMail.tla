------------------------------- MODULE MCMail -------------------------------
(***************************************************************************)
(* Small instances of the modules about mailboxes, the messages in them    *)
(* and the languages they are asked for in.  A behaviour belongs to one component, its part; the   *)
(* components share the variables v1, v2, ..., and the substitutions of    *)
(* the instances say what each of them holds.  A configuration chooses the *)
(* parts its run explores.                                                 *)
(***************************************************************************)
EXTENDS Integers, Sequences, TLC

CONSTANTS
    InPlay,     \* the components a run is about
    Actors      \* the sessions, clients, tabs or workers of a component, where
                \* they are interchangeable

VARIABLES
    part,   \* the component in play
    v1, v2, v3, v4, v5, v6, v7, v8, v9, v10, v11, v12, v13, v14, v15, v16, v17, v18, v19,
    v20

\* The variables a component does not use are zero and stay so.
From20 == <<v20>>
Blank20 == v20 = 0
From19 == <<v19, From20>>
Blank19 == v19 = 0 /\ Blank20
From18 == <<v18, From19>>
Blank18 == v18 = 0 /\ Blank19
From17 == <<v17, From18>>
Blank17 == v17 = 0 /\ Blank18
From16 == <<v16, From17>>
Blank16 == v16 = 0 /\ Blank17
From15 == <<v15, From16>>
Blank15 == v15 = 0 /\ Blank16
From14 == <<v14, From15>>
Blank14 == v14 = 0 /\ Blank15
From13 == <<v13, From14>>
Blank13 == v13 = 0 /\ Blank14
From12 == <<v12, From13>>
Blank12 == v12 = 0 /\ Blank13
From11 == <<v11, From12>>
Blank11 == v11 = 0 /\ Blank12
From10 == <<v10, From11>>
Blank10 == v10 = 0 /\ Blank11
From9 == <<v9, From10>>
Blank9 == v9 = 0 /\ Blank10
From8 == <<v8, From9>>
Blank8 == v8 = 0 /\ Blank9
From7 == <<v7, From8>>
Blank7 == v7 = 0 /\ Blank8
From6 == <<v6, From7>>
Blank6 == v6 = 0 /\ Blank7
From5 == <<v5, From6>>
Blank5 == v5 = 0 /\ Blank6

vars == <<part, v1, v2, v3, v4, v5, v6, v7, v8, v9, v10, v11, v12, v13, v14, v15, v16, v17,
             v18, v19, v20>>

Symmetry == Permutations(Actors)

-----------------------------------------------------------------------------
(* Constants of the instances *)

\* Mailboxes, FolderAccess: a folder with a child, and one that gets one.
BoxNames == {<<"INBOX">>, <<"A">>, <<"A", "x">>, <<"B">>}
TreeNames == {<<"INBOX">>, <<"A">>, <<"A", "x">>}
OwnerOf == ("s1" :> "ann") @@ ("s2" :> "bob")
FirstTree == ("ann" :> {<<"INBOX">>, <<"A", "x">>}) @@ ("bob" :> {<<"INBOX">>})
TrashUse == [f \in TreeNames |-> IF f = <<"A">> THEN {"T"} ELSE {}]
QuotaLists == {<< <<"STORAGE", 1>>, <<"MESSAGE", 2>>, <<"STORAGE", 0>> >>}

\* MaildirImport: keyword files and UID lists as Dovecot may have left them.
WordFile(f) == [l \in 1 .. 3 |-> IF l \in DOMAIN f THEN f[l] ELSE ""]
WordFiles == {WordFile(f) : f \in {<<>>, <<"", "work">>, <<"todo", "work">>, <<"work", "work">>}}
UidList(v, n, recs) == [version |-> v, valid |-> IF v = 0 THEN 0 ELSE 7, next |-> n, recs |-> recs]
UidLists == {UidList(3, 4, << <<4, "m1">> >>), UidList(9, 6, << <<4, "m1">> >>), UidList(0, 0, <<>>),
             UidList(2, 6, << <<5, "gone">>, <<4, "m1">>, <<4, "m2">> >>),
             UidList(3, 6, << <<2, "m2">>, <<3, "m2">>, <<0, "m1">> >>)}

\* CommandWire: words that need quoting, that look like markers, literals of
\* both kinds and empty ones, lists.
Atom(v) == [t |-> "atom", v |-> v, sync |-> FALSE]
Quoted(v) == [t |-> "quoted", v |-> v, sync |-> FALSE]
Literal(v, s) == [t |-> "literal", v |-> v, sync |-> s]
List(v) == [t |-> "list", v |-> v, sync |-> FALSE]
EitherSays == {Atom(<<"a">>), Quoted(<<"\"">>), Quoted(<<"\\", " ">>), Literal(<<"a">>, FALSE)}
WireArguments ==
    ("imap" :> EitherSays \cup {Quoted(<<"{1}">>), Literal(<<"CR", "LF">>, TRUE), Literal(<<>>, TRUE),
                                List(<<>>), List(<<"a", " ", "b">>)})
    @@ ("sieve" :> EitherSays \cup {Literal(<<"CR", "LF">>, FALSE)})

\* Sieve: nested tests, a folder to be created, a vacation, a syntax error.
If(t, e) == [op |-> "if", test |-> "t1", then |-> t, else |-> e]
Do(o) == [op |-> o, test |-> ""]
File(f, c) == [op |-> "fileinto", test |-> "", folder |-> f, create |-> c]
Vacation(d) == [op |-> "vacation", test |-> "", days |-> d]
SyntaxError == <<[op |-> "syntax error"]>>
Scripts == {<<If(<<Do("discard")>>, <<File("Work", FALSE)>>)>>, <<Vacation(2), Do("keep")>>, SyntaxError,
            <<If(<<If(<<Do("discard"), Do("stop")>>, <<>>)>>, <<File("New", TRUE)>>), Do("reject")>>}

\* And their text: every kind of test and command, tests nested twice, blocks
\* nested twice; token lists with every way to break a script; lexemes.
Node(op, words, parts) == [op |-> op, words |-> words, parts |-> parts]
Leaf(op, words) == Node(op, words, <<>>)
Block(parts) == Node("block", <<>>, parts)
Tests0 == {Leaf("true", <<>>), Leaf("exists", <<"'a'", "'b'">>),
           Leaf("header", <<":contains", "'a'", "'b'">>), Leaf("size", <<":over", "1">>),
           Leaf("address", <<":is", ":domain", "'a'", "'b'">>), Leaf("body", <<":matches", ":raw", "'a'">>)}
Tests1 == {Node("not", <<>>, <<t>>) : t \in Tests0} \cup {Node("anyof", <<>>, <<t>>) : t \in Tests0}
          \cup {Node("allof", <<>>, <<t, u>>) : t \in Tests0, u \in Tests0}
Tests2 == {Node("not", <<>>, <<t>>) : t \in Tests1}
Plain == {Leaf("keep", <<>>), Leaf("stop", <<>>), Leaf("fileinto", <<"", "'a'">>),
          Leaf("fileinto", <<":create", "'a'">>), Leaf("redirect", <<"'a'">>),
          Leaf("vacation", <<"1", "'a'", "'b'">>), Leaf("vacation", <<"7", "", "'b'">>),
          Leaf("require", <<"'a'">>), Leaf("require", <<"'b'">>)}
Ifs == {Node("if", <<>>, <<t, Block(<<c>>)>>) : t \in Tests0 \cup Tests1 \cup Tests2, c \in Plain}
       \cup {Node("if", <<>>, <<t, Block(<<c, d>>), Block(<<>>)>>) : t \in Tests0, c \in Plain, d \in Plain}
       \cup {Node("if", <<>>, <<t, Block(<<>>), u, Block(<<c>>), Block(<<c>>)>>) :
                t \in Tests0, u \in Tests0, c \in Plain}
Nested == {Node("if", <<>>, <<Leaf("true", <<>>), Block(<<c>>)>>) : c \in Ifs}
ScriptTrees == {Node("script", <<>>, <<c, d>>) : c \in Plain \cup Ifs, d \in Plain}
               \cup {Node("script", <<>>, <<c>>) : c \in Nested}
Tokens == {"if", "true", "not", "{", "}", "keep", ";", "fileinto", ":create", "'a'", "else", "[", "]",
           ",", "exists"}
InBlock == {"keep", ";", "}", "else", "{", "elsif", "fileinto", "'a'"}
TokenLists == UNION {[1..n -> Tokens] : n \in 0..3} \cup {<<"if">> \o s : s \in [1..3 -> Tokens]}
              \cup {<<"if", "true", "{">> \o s : s \in [1..4 -> InBlock]}
Lexeme(kind, chars) == [kind |-> kind, chars |-> chars]
OneLexeme == {Lexeme("string", s) : s \in UNION {[1..n -> {"q", "b", "h", "a"}] : n \in 0..2}}
             \cup {Lexeme("mark", <<";">>), Lexeme("ident", <<"a", "7">>), Lexeme("tag", <<"a">>),
                   Lexeme("number", <<"7", "7">>)}
LexemeLists == UNION {[1..n -> OneLexeme] : n \in 0..2}

-----------------------------------------------------------------------------
Boxes == INSTANCE Mailboxes WITH
    files <- v1, dirs <- v2, subs <- v3, quota <- v4, usage <- v5, work <- v6, mbOps <- v7,
    drift <- v8, Workers <- Actors, Names <- BoxNames, Limits <- {0, 3}, MaxOps <- 3
BoxesInit == part = "mailboxes" /\ Boxes!Init /\ Blank9
BoxesStep == part = "mailboxes" /\ Boxes!Next /\ UNCHANGED <<part, From9>>

Tree == INSTANCE FolderAccess WITH
    dirs <- v1, subs <- v2, uses <- v3, acl <- v4, meta <- v5, limit <- v6, sess <- v7,
    answer <- v8, changed <- v9, told <- v10, FolderSessions <- {"s1", "s2"},
    UserOf <- OwnerOf, FolderNames <- TreeNames, FirstFolders <- FirstTree,
    Attributes <- {"T"}, DefaultUse <- TrashUse,
    Identifiers <- {"ann", "bob", "authenticated", "anyone"},
    RightSets <- {{}, {"l", "r", "a"}}, Texts <- {"v"}, Quotas <- QuotaLists,
    AllowSetQuota <- TRUE, BusyStores <- {"ann"}, Askers <- {"s2"}, MaxFolderChanges <- 2,
    MaxLists <- 1
TreeInit == part = "folders" /\ Tree!FoldersInit /\ Blank11
TreeStep == part = "folders" /\ Tree!FoldersNext /\ UNCHANGED <<part, From11>>

Import == INSTANCE MaildirImport WITH
    dove <- v1, names <- v2, table <- v3, uidlist <- v4, stage <- v5, crashes <- v6,
    jobs <- v7, flaggings <- v8, meant <- v9, stale <- v10, Importers <- Actors,
    Letters <- 1 .. 3, KeyWords <- {"todo", "work"}, OldBases <- {"m1", "m2"},
    NewBases <- {"n1"}, DoveWords <- WordFiles, DoveLists <- UidLists, MaxCrashes <- 1,
    MaxFlagging <- 1
ImportInit == part = "import" /\ Import!ImportInit /\ Blank11
ImportStep == part = "import" /\ Import!ImportNext /\ UNCHANGED <<part, From11>>

Query == INSTANCE ImapQuery WITH
    job <- v1, at <- v2, ask <- v3, work <- v4, gone <- v5, answer <- v6,
    Jobs <- {"search", "thread", "glob", "parts", "date"}, MaxMessages <- 3,
    MaxExpunged <- 1, BatchMessages <- 2, MaxReferenceDepth <- 0, MaxParts <- 2,
    MaxName <- 3, MaxYears <- 135, TextSymbols <- {"a", "/"}
QueryInit == part = "query" /\ Query!QueryInit /\ Blank7
QueryStep == part = "query" /\ Query!QueryNext /\ UNCHANGED <<part, From7>>

Mime == INSTANCE MessageParts WITH
    job <- v1, msg <- v2, described <- v3, fetched <- v4, view <- v5, got <- v6,
    heads <- v7, MaxDepth <- 2, MaxParts <- 2, MaxLeaves <- 3, MaxDetail <- 14,
    MaxHeaderBytes <- 3, MaxBytes <- 7, MaxContent <- 3
MimeInit == part = "parts" /\ Mime!PartsInit /\ Blank8
MimeStep == part = "parts" /\ Mime!PartsNext /\ UNCHANGED <<part, From8>>

Letter == INSTANCE WebmailLetters WITH
    request <- v1, purpose <- v2, built <- v3, page <- v4, input <- 0, remote <- 0,
    index <- 0, out <- 0, open <- 0, skip <- 0, blocked <- 0, done <- 0, MaxDepth <- 3,
    MaxParts <- 4, MaxLeaves <- 6, ChunkBytes <- 3, LineUnits <- 2, MaxRecipients <- 3,
    MaxFiles <- 2, MaxTotal <- 5, SubjectChars <- {"a", "w"}, MaxSubject <- 4,
    MaxInput <- 0, MaxOutput <- 0, Margin <- 0
LetterInit == part = "compose" /\ Letter!ComposeInit /\ Blank5
LetterStep == part = "compose" /\ Letter!ComposeNext /\ UNCHANGED <<part, From5>>

Html == INSTANCE WebmailLetters WITH
    input <- v1, remote <- v2, index <- v3, out <- v4, open <- v5, skip <- v6,
    blocked <- v7, done <- v8, request <- 0, purpose <- 0, built <- 0, page <- 0,
    MaxDepth <- 0, MaxParts <- 0, MaxLeaves <- 0, ChunkBytes <- 0, LineUnits <- 0,
    MaxRecipients <- 0, MaxFiles <- 0, MaxTotal <- 0, SubjectChars <- {}, MaxSubject <- 0,
    MaxInput <- 4, MaxOutput <- 8, Margin <- 2
HtmlInit == part = "html" /\ Html!SanitizeInit /\ Blank9
HtmlStep == part = "html" /\ Html!SanitizeNext /\ UNCHANGED <<part, From9>>

Wire == INSTANCE CommandWire WITH
    mode <- v1, plan <- v2, sent <- v3, received <- v4, consumed <- v5, reader <- v6,
    ready <- v7, got <- v8, normalize <- 0, fed <- 0, sawCr <- 0, line <- 0, out <- 0,
    overflowed <- 0, lineLen <- 0, told <- 0, result <- 0, WireModes <- {"imap", "sieve"},
    Arguments <- WireArguments, MaxWireCommands <- 2, MaxWireArguments <- 2,
    WireMaxLine <- 14, WireMaxLiteral <- 2, WireMaxTokens <- 6, WireMaxCommand <- 24,
    MaxLiterals <- 1, MaxSize <- 0, MaxBytes <- 0
WireInit == part = "wire" /\ Wire!WireInit /\ Blank9
WireStep == part = "wire" /\ Wire!WireNext /\ UNCHANGED <<part, From9>>

Filter == INSTANCE Sieve WITH
    job <- v1, scripts <- v2, active <- v3, legacy <- v4, folders <- v5, editor <- v6,
    answered <- v7, day <- v8, edits <- v9, outcome <- v10, replies <- v11, script <- v12,
    tokens <- v13, result <- v14, lexemes <- v15, text <- v16, pos <- v17, mode <- v18,
    word <- v19, lexed <- v20, Editors <- Actors, ScriptNames <- {"a", "b"},
    Sources <- Scripts, Senders <- {"", "ann"}, Tests <- {"t1"}, MaxScripts <- 1,
    MaxSteps <- 4, MaxDepth <- 1, MaxParseDepth <- 2, MaxActions <- 2, VacationCutoff <- 3,
    MaxAnswered <- 1, MaxDays <- 2, MaxEdits <- 2, Scripts <- ScriptTrees,
    Lexemes <- LexemeLists, Blanks <- {<<>>, <<"s">>, <<"h", "q", "n">>},
    Strs <- {"'a'", "'b'"}, Extensions <- {"'a'"}, MaxNesting <- 3
FilterInit == part = "sieve" /\ Filter!Init
FilterStep == part = "sieve" /\ Filter!Next /\ UNCHANGED part

Stream == INSTANCE CommandWire WITH
    normalize <- v1, fed <- v2, sawCr <- v3, line <- v4, out <- v5, overflowed <- v6,
    lineLen <- v7, told <- v8, result <- v9, mode <- 0, plan <- 0, sent <- 0,
    received <- 0, consumed <- 0, reader <- 0, ready <- 0, got <- 0, WireModes <- {},
    Arguments <- <<>>, MaxWireCommands <- 0, MaxWireArguments <- 0, WireMaxLine <- 0,
    WireMaxLiteral <- 0, WireMaxTokens <- 0, WireMaxCommand <- 0, MaxLiterals <- 0,
    MaxSize <- 5, MaxBytes <- 8
StreamInit == part = "stream" /\ Stream!StreamInit /\ Blank10
StreamStep == part = "stream" /\ Stream!StreamNext /\ UNCHANGED <<part, From10>>

-----------------------------------------------------------------------------
Init ==
    /\ part \in InPlay
    /\ \/ BoxesInit
       \/ TreeInit
       \/ ImportInit
       \/ QueryInit
       \/ MimeInit
       \/ LetterInit
       \/ HtmlInit
       \/ WireInit
       \/ FilterInit
       \/ StreamInit

Next ==
    \/ BoxesStep \/ TreeStep \/ ImportStep \/ QueryStep \/ MimeStep
    \/ LetterStep \/ HtmlStep \/ WireStep \/ FilterStep \/ StreamStep

Spec == Init /\ [][Next]_vars

-----------------------------------------------------------------------------
(* Properties, each for the parts it is about *)

\* The folder tree and its files are what they are said to be: LIST, ACL,
\* METADATA and special uses answer what the tree and its files hold; the
\* quota's cached usage is what the folders hold whenever no session is
\* between its reservation and its write (reserve, release, recount); and the
\* migration from Dovecot takes over every message under its UID and with
\* its keywords.
TreeTrue ==
    /\ part = "folders" => Tree!FoldersTrue
    /\ part = "mailboxes" => Boxes!UsageExact
    /\ part = "import" => Import!TakenOver

\* IMAP queries answer what the messages say: SEARCH decides each key without
\* opening more than it needs, THREAD places every message once, patterns and
\* part lists are exact, and dates are the days of the calendar; and of one
\* message, the numbers BODYSTRUCTURE gives resolve to the parts they name,
\* webmail hides none, the header prefix is enough, and a FETCH item returns
\* the bytes asked for.
QueryExact ==
    /\ part = "query" => /\ Query!SearchExact /\ Query!ThreadedOnce /\ Query!PatternExact
                         /\ Query!PartsComplete /\ Query!DatesExact
    /\ part = "parts" => /\ Mime!NumbersAgree /\ Mime!NothingHidden /\ Mime!HeadEnough
                         /\ Mime!AskedIsAnswered

\* What a peer writes is what the server reads: the DATA stream ends where it
\* must and nowhere else, a command is one command however its bytes arrive,
\* and a script's tree is the one its text spells.
ReadAsWritten ==
    /\ part = "stream" => Stream!StreamExact
    /\ part = "wire" => Wire!WireExact
    /\ part = "sieve" => Filter!SieveRead

\* What a webmail user writes is what its reader is shown, blind copies stay
\* blind, and of foreign HTML exactly the harmless part is shown.
ShownAsSent ==
    /\ part = "compose" => Letter!WrittenIsShown /\ Letter!BlindCopies
    /\ part = "html" => Html!ShownExactly

\* Whatever a script says and editors change meanwhile, a message is kept,
\* filed, redirected or rejected, and nobody is answered twice too soon.
FilterSafe == part = "sieve" => Filter!NeverLost /\ Filter!NotAnsweredTwice
=============================================================================
