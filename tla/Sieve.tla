------------------------------- MODULE Sieve -------------------------------
(***************************************************************************)
(* Sieve scripts of one mailbox (crates/imappop3/src/sieve.rs): how        *)
(* ManageSieve sessions change them (managesieve.rs), how a delivery picks *)
(* one, evaluates it and acts on it, and the record of vacation answers.   *)
(* A script is its syntax tree; a message is the set of the header tests   *)
(* it satisfies.  The steps of two file operations interleave.             *)
(*                                                                         *)
(* The other jobs are about the text of a script: the lexer, byte by byte, *)
(* and the recursive descent over its tokens.  Words are tokens by         *)
(* themselves and their case is left out.                                  *)
(***************************************************************************)
EXTENDS Integers, Sequences, FiniteSets, SequencesExt, FiniteSetsExt

CONSTANTS
    Editors,        \* ManageSieve sessions
    ScriptNames,    \* names of scripts
    Sources,        \* script texts, as trees
    Senders,        \* envelope senders
    Tests,          \* header tests a message may satisfy
    MaxScripts, MaxSteps, MaxDepth, MaxParseDepth, MaxActions,
    VacationCutoff, \* days the record of answers is kept
    MaxAnswered,    \* entries the record of answers is cut to
    MaxDays,        \* bound: days that pass
    MaxEdits,       \* bound: commands of the editors
    Scripts,        \* syntax trees to print and read back: sequences of nodes
    TokenLists,     \* token sequences to read, sense or not
    Lexemes,        \* sequences of lexical tokens to write and lex again
    Blanks,         \* what may stand between two tokens
    Strs, Extensions,   \* string tokens; among them the extensions there are
    MaxNesting      \* MAX_PARSE_DEPTH, where the parser itself is asked

VARIABLES
    job,        \* "mailbox", or the text is read: "parse", "read" or "lex"
    scripts,    \* the files under sieve/
    active,     \* the name in sieve/.active, or Nothing
    legacy,     \* .sieve in the mailbox root, or Nothing
    folders,    \* the folders that exist
    editor,     \* per session, [secured, user, busy]: what it is in the middle of
    answered,   \* .mailstack-vacation: the day each sender was last answered
    day, edits,
    outcome,    \* the last delivery: [actions, folders, rejected]
    replies,    \* history: [to, day, days, early] of the vacation answers on record
    script,     \* the tree a "parse" job printed
    tokens,     \* the tokens to parse
    result,     \* [ok, at, node] of the parser
    lexemes,    \* the lexical tokens a "lex" job wrote
    text,       \* and the characters it wrote them with
    pos, mode, word, lexed   \* the lexer

boxVars == <<scripts, active, legacy, folders, editor, answered, day, edits, outcome, replies>>
textVars == <<script, tokens, result, lexemes, text, pos, mode, word, lexed>>
vars == <<job, boxVars, textVars>>

Nothing == "nothing"
Broken == <<[op |-> "syntax error"]>>
Idle == [op |-> "idle"]
NoOutcome == [actions |-> <<>>, folders |-> {"INBOX"}, rejected |-> FALSE]

-----------------------------------------------------------------------------
(* Compiling and evaluating *)

RECURSIVE Depth(_)
Depth(commands) ==
    LET of(c) == IF c.op = "if" THEN 1 + Max({Depth(c.then), Depth(c.else)}) ELSE 0
    IN Max({0} \cup {of(commands[i]) : i \in DOMAIN commands})

\* Every block counts towards the nesting the parser allows; an extension
\* that is not supported is an error.
Compiles(source) == source # Broken /\ Depth(source) <= MaxParseDepth

\* push: an action beyond the limit is dropped.
Push(st, action) ==
    IF Len(st.actions) < MaxActions THEN [st EXCEPT !.actions = Append(@, action)] ELSE st

\* Eval::matches for one header test.
Matches(st, test, depth, message) ==
    LET counted == [st EXCEPT !.steps = @ + 1]
    IN  IF counted.steps > MaxSteps \/ depth > MaxDepth
        THEN [st |-> [counted EXCEPT !.stopped = TRUE], holds |-> FALSE]
        ELSE [st |-> counted, holds |-> test \in message]

RECURSIVE Run(_, _, _, _)
\* Eval::run: each command is a step; too many steps or too deep a nesting
\* stop the script where it is, keeping the actions so far.
Run(st, commands, depth, message) ==
    IF depth > MaxDepth THEN [st EXCEPT !.stopped = TRUE]
    ELSE IF commands = <<>> \/ st.stopped THEN st
    ELSE LET c == Head(commands)
             counted == [st EXCEPT !.steps = @ + 1]
             test == Matches(counted, c.test, depth, message)
             after == CASE counted.steps > MaxSteps \/ c.op = "stop" -> [counted EXCEPT !.stopped = TRUE]
                        [] c.op = "if" -> Run(test.st, IF test.holds THEN c.then ELSE c.else, depth + 1, message)
                        [] OTHER -> Push(counted, c)
         IN Run(after, Tail(commands), depth, message)

Evaluate(source, message) ==
    Run([steps |-> 0, actions |-> <<>>, stopped |-> FALSE], source, 0, message).actions

BoxInit ==
    /\ \E n \in ScriptNames, source \in {s \in Sources : Compiles(s)} :
          scripts = [m \in {n} |-> source] /\ active \in {n, Nothing}
    /\ legacy \in {Nothing, Broken}
    /\ folders = {"INBOX"}
    /\ editor = [e \in Editors |-> [secured |-> FALSE, user |-> FALSE, busy |-> Idle]]
    /\ answered = [s \in {} |-> 0]
    /\ day = 0 /\ edits = 0
    /\ outcome = NoOutcome /\ replies = {}

-----------------------------------------------------------------------------
(* ManageSieve *)

Busy(e, what) == editor' = [editor EXCEPT ![e].busy = what]
Commanded(e) ==
    /\ editor[e].user /\ editor[e].busy = Idle /\ edits < MaxEdits
    /\ edits' = edits + 1
    /\ UNCHANGED <<legacy, folders, answered, day, outcome, replies>>
Step(e) ==
    UNCHANGED <<legacy, folders, answered, day, edits, outcome, replies>>

StartTls(e) ==
    /\ ~editor[e].secured /\ ~editor[e].user
    /\ editor' = [editor EXCEPT ![e].secured = TRUE]
    /\ UNCHANGED <<scripts, active, legacy, folders, answered, day, edits, outcome, replies>>

Authenticate(e) ==
    /\ editor[e].secured /\ ~editor[e].user
    /\ editor' = [editor EXCEPT ![e].user = TRUE]
    /\ UNCHANGED <<scripts, active, legacy, folders, answered, day, edits, outcome, replies>>

\* PUTSCRIPT: checked, counted, and written in a later step; CHECKSCRIPT
\* stops after the check.
PutScript(e, n, source) ==
    /\ Commanded(e) /\ Compiles(source)
    /\ Cardinality(DOMAIN scripts) < MaxScripts \/ n \in DOMAIN scripts
    /\ Busy(e, [op |-> "put", name |-> n, source |-> source])
    /\ UNCHANGED <<scripts, active>>

WriteScript(e) ==
    /\ editor[e].busy.op = "put" /\ Step(e)
    /\ scripts' = [n \in DOMAIN scripts \cup {editor[e].busy.name} |->
                    IF n = editor[e].busy.name THEN editor[e].busy.source ELSE scripts[n]]
    /\ Busy(e, Idle) /\ UNCHANGED active

\* set_active: the file is looked for, then its name is written.
SetActive(e, n) ==
    /\ Commanded(e) /\ n \in DOMAIN scripts
    /\ Busy(e, [op |-> "activate", name |-> n])
    /\ UNCHANGED <<scripts, active>>

WriteActive(e) ==
    /\ editor[e].busy.op = "activate" /\ Step(e)
    /\ active' = editor[e].busy.name
    /\ Busy(e, Idle) /\ UNCHANGED scripts

Deactivate(e) ==
    /\ Commanded(e) /\ active' = Nothing
    /\ UNCHANGED <<scripts, editor>>

\* delete_script and rename_script touch the file first and look at the
\* active name afterwards.
DeleteScript(e, n) ==
    /\ Commanded(e) /\ n \in DOMAIN scripts
    /\ scripts' = [m \in DOMAIN scripts \ {n} |-> scripts[m]]
    /\ Busy(e, [op |-> "follow", from |-> n, to |-> Nothing])
    /\ UNCHANGED active

RenameScript(e, n, m) ==
    /\ Commanded(e) /\ n \in DOMAIN scripts /\ m \notin DOMAIN scripts
    /\ scripts' = [k \in (DOMAIN scripts \ {n}) \cup {m} |-> IF k = m THEN scripts[n] ELSE scripts[k]]
    /\ Busy(e, [op |-> "follow", from |-> n, to |-> m])
    /\ UNCHANGED active

FollowActive(e) ==
    /\ editor[e].busy.op = "follow" /\ Step(e)
    /\ active' = IF active = editor[e].busy.from THEN editor[e].busy.to ELSE active
    /\ Busy(e, Idle) /\ UNCHANGED scripts

-----------------------------------------------------------------------------
(* Delivery *)

\* load_script: a missing active script falls back to .sieve.
LoadScript == IF active \in DOMAIN scripts THEN scripts[active] ELSE legacy

\* A file that does not compile, or none, leaves the implicit keep.
ActionsFor(message) ==
    IF LoadScript = Nothing \/ ~Compiles(LoadScript) THEN <<>> ELSE Evaluate(LoadScript, message)

Has(actions, op) == \E i \in DOMAIN actions : actions[i].op = op

\* ensure: what fileinto finds or may create.
Usable(a) == a.folder \in folders \/ a.create

\* An unusable folder dropped instead of replaced.
DropUnusable(actions, usable) ==
    LET files == {actions[i].folder : i \in {j \in DOMAIN actions : actions[j].op = "fileinto" /\ j \in usable}}
        keeps == IF Has(actions, "keep") THEN {"INBOX"} ELSE {}
    IN  IF Has(actions, "reject") THEN {}
        ELSE IF files \cup keeps = {} /\ ~Has(actions, "discard") /\ ~Has(actions, "fileinto")
        THEN {"INBOX"} ELSE files \cup keeps

\* delivery_plan: a folder that cannot be used becomes INBOX; a reject
\* empties the plan; no folder and no discard means INBOX.
PlannedFolders(actions, usable) ==
    LET target(i) == IF actions[i].op = "fileinto" /\ i \in usable THEN actions[i].folder ELSE "INBOX"
        filed == {target(i) : i \in {j \in DOMAIN actions : actions[j].op \in {"keep", "fileinto"}}}
    IN  IF Has(actions, "reject") THEN {}
        ELSE IF filed = {} /\ ~Has(actions, "discard") THEN {"INBOX"} ELSE filed

VacationDueEarly(sender, days) ==
    sender # "" /\ ~(sender \in DOMAIN answered /\ day - answered[sender] < Max({days, 1}) - 1)

\* submit_vacation, under its lock: not to the empty sender, nor to one that
\* was answered within the days the script says.
VacationDue(sender, days) ==
    sender # "" /\ ~(sender \in DOMAIN answered /\ day - answered[sender] < Max({days, 1}))

AnsweredLater(s, map) == Cardinality({t \in DOMAIN map : map[t] > map[s]})

\* write_vacation_state: old entries go, the newest are kept.
Pruned(map) ==
    LET recent == {s \in DOMAIN map : map[s] >= day - VacationCutoff}
        kept == {s \in recent : AnsweredLater(s, map) < MaxAnswered}
    IN [s \in kept |-> map[s]]

\* Submitting the answer may fail; so may writing the record.
Vacation(sender, days) ==
    \/ /\ VacationDue(sender, days)
       /\ \E recorded \in BOOLEAN :
            LET map == [s \in DOMAIN answered \cup {sender} |-> IF s = sender THEN day ELSE answered[s]]
                next == IF recorded THEN Pruned(map) ELSE answered
            IN  /\ answered' = next
                /\ replies' = {r \in replies \cup {[to |-> sender, day |-> day, days |-> days, early |->
                                                  \E r \in replies : r.to = sender /\ day - r.day < days]} :
                                 r.early \/ (r.to \in DOMAIN next /\ next[r.to] = r.day)}
    \/ UNCHANGED <<answered, replies>>

Deliver(sender, message) ==
    LET actions == ActionsFor(message)
        vacations == {actions[i].days : i \in {j \in DOMAIN actions : actions[j].op = "vacation"}}
        filing == {i \in DOMAIN actions : actions[i].op = "fileinto"}
    IN  /\ IF vacations = {} THEN UNCHANGED <<answered, replies>>
           ELSE Vacation(sender, CHOOSE d \in vacations : TRUE)
        /\ \E usable \in SUBSET {i \in filing : Usable(actions[i])} :
            /\ {i \in filing : actions[i].folder \in folders} \subseteq usable
            /\ folders' = folders \cup {actions[i].folder : i \in usable}
            /\ outcome' = [actions |-> actions, rejected |-> Has(actions, "reject"),
                           folders |-> PlannedFolders(actions, usable)]
        /\ UNCHANGED <<scripts, active, legacy, editor, day, edits>>

NextDay ==
    /\ day < MaxDays /\ day' = day + 1
    /\ UNCHANGED <<scripts, active, legacy, folders, editor, answered, edits, outcome, replies>>

BoxNext ==
    \/ \E e \in Editors :
        \/ StartTls(e) \/ Authenticate(e) \/ Deactivate(e)
        \/ \E n \in ScriptNames :
            \/ \E source \in Sources : PutScript(e, n, source)
            \/ SetActive(e, n) \/ DeleteScript(e, n) \/ \E m \in ScriptNames : RenameScript(e, n, m)
        \/ WriteScript(e) \/ WriteActive(e) \/ FollowActive(e)
    \/ \E s \in Senders, message \in SUBSET Tests : Deliver(s, message)
    \/ NextDay

-----------------------------------------------------------------------------
(* Command and Test: a node is an operator, its words and its parts         *)
Node(op, words, parts) == [op |-> op, words |-> words, parts |-> parts]
Nil == Node("none", <<>>, <<>>)

-----------------------------------------------------------------------------
(* The parser.  Every step answers where it stopped and what it built       *)

Fail == [ok |-> FALSE, at |-> 0, node |-> Nil]
Done(i, node) == [ok |-> TRUE, at |-> i, node |-> node]
Tok(i) == IF i <= Len(tokens) THEN tokens[i] ELSE "end"
Expect(i, token, node) == IF Tok(i) = token THEN Done(i + 1, node) ELSE Fail
Then(r, next(_)) == IF r.ok THEN next(r) ELSE Fail

Kinds == {":is", ":contains", ":matches"}
Parts == {":all", ":localpart", ":domain"}
Texts == {":text", ":raw"}
Numbers == {"1", "7"}
IsTag(t) == t \in Kinds \cup Parts \cup Texts \cup {":create", ":days", ":subject", ":over", ":under"}
AfterTags(i) == Min({j \in i..(Len(tokens) + 1) : ~IsTag(Tok(j))})
(* match_tags, address_tags: only tags of the test, the last of a kind wins *)
OnlyTags(i, allowed) == \A j \in i..(AfterTags(i) - 1) : Tok(j) \in allowed
LastTag(i, among, default) ==
    LET at == {j \in i..(AfterTags(i) - 1) : Tok(j) \in among}
    IN  IF at = {} THEN default ELSE Tok(Max(at))
AddressTags(i) == <<LastTag(i, Kinds, ":is"), LastTag(i, Parts, ":all")>>
MatchTags(i) == <<LastTag(i, Kinds, ":is")>>

(* Tags of a set, then as many strings *)
TaggedStrings(op, i, allowed, tags, n) ==
    LET s == AfterTags(i)
    IN  IF OnlyTags(i, allowed) /\ \A k \in 0..(n - 1) : Tok(s + k) \in Strs
        THEN Done(s + n, Node(op, tags \o [k \in 1..n |-> Tok(s + k - 1)], <<>>)) ELSE Fail

(* string_list: one string, or strings in brackets, a comma after the last  *)
(* allowed                                                                 *)
StringList(op, i) ==
    LET ends == {j \in (i + 1)..Len(tokens) : Tok(j) = "]"}
        e == Min(ends)
        even == \A j \in (i + 1)..(e - 1) : IF (j - i) % 2 = 1 THEN Tok(j) \in Strs ELSE Tok(j) = ","
        items == [k \in 1..((e - i) \div 2) |-> Tok(i + 2 * k - 1)]
    IN  IF Tok(i) \in Strs THEN Done(i + 1, Node(op, <<Tok(i)>>, <<>>))
        ELSE IF Tok(i) = "[" /\ ends # {} /\ even THEN Done(e + 1, Node(op, items, <<>>)) ELSE Fail

RECURSIVE Test(_, _), TestList(_, _, _)
(* test, test_inner *)
Test(i, depth) ==
    LET op == Tok(i) IN
    IF depth >= MaxNesting THEN Fail
    ELSE CASE op \in {"true", "false"} -> Done(i + 1, Node(op, <<>>, <<>>))
         [] op = "not" -> Then(Test(i + 1, depth + 1), LAMBDA t : Done(t.at, Node(op, <<>>, <<t.node>>)))
         [] op \in {"allof", "anyof"} ->
               Then(Expect(i + 1, "(", Node(op, <<>>, <<>>)), LAMBDA r : TestList(r.at, depth + 1, r.node))
         [] op = "exists" -> StringList(op, i + 1)
         [] op = "header" -> TaggedStrings(op, i + 1, Kinds, MatchTags(i + 1), 2)
         [] op = "address" -> TaggedStrings(op, i + 1, Kinds \cup Parts, AddressTags(i + 1), 2)
         [] op = "size" -> IF Tok(i + 1) \in {":over", ":under"} /\ Tok(i + 2) \in Numbers
                           THEN Done(i + 3, Node(op, <<Tok(i + 1), Tok(i + 2)>>, <<>>)) ELSE Fail
         [] op = "body" -> TaggedStrings(op, i + 1, Kinds \cup Texts,
                                         <<LastTag(i + 1, Kinds, ":is"), LastTag(i + 1, Texts, ":text")>>, 1)
         [] OTHER -> Fail
(* test_list: at least one test *)
TestList(i, depth, node) ==
    Then(Test(i, depth), LAMBDA t :
        LET longer == [node EXCEPT !.parts = Append(@, t.node)]
        IN  IF Tok(t.at) = "," THEN TestList(t.at + 1, depth, longer) ELSE Expect(t.at, ")", longer))

RECURSIVE Command(_, _), Commands(_, _, _), Branches(_, _, _), VacationTags(_, _, _)
(* block: commands between braces, one level down *)
Block(i, depth) ==
    IF depth >= MaxNesting THEN Fail
    ELSE Then(Expect(i, "{", Node("block", <<>>, <<>>)), LAMBDA r : Commands(r.at, depth + 1, r.node))
Commands(i, depth, node) ==
    IF Tok(i) = "}" THEN Done(i + 1, node)
    ELSE Then(Command(i, depth), LAMBDA c : Commands(c.at, depth, [node EXCEPT !.parts = Append(@, c.node)]))
(* if, elsif, else: the else closes it *)
Guarded(i, depth, node) ==
    Then(Test(i, depth), LAMBDA t :
        Then(Block(t.at, depth), LAMBDA b : Branches(b.at, depth, [node EXCEPT !.parts = @ \o <<t.node, b.node>>])))
Branches(i, depth, node) ==
    CASE Tok(i) = "elsif" -> Guarded(i + 1, depth, node)
      [] Tok(i) = "else" -> Then(Block(i + 1, depth), LAMBDA b : Done(b.at, [node EXCEPT !.parts = Append(@, b.node)]))
      [] OTHER -> Done(i, node)
VacationTags(i, days, subject) ==
    CASE Tok(i) = ":days" /\ Tok(i + 1) \in Numbers -> VacationTags(i + 2, Tok(i + 1), subject)
      [] Tok(i) = ":subject" /\ Tok(i + 1) \in Strs -> VacationTags(i + 2, days, Tok(i + 1))
      [] Tok(i) \in Strs -> Done(i + 1, Node("vacation", <<days, subject, Tok(i)>>, <<>>))
      [] OTHER -> Fail
Closed(r) == Then(r, LAMBDA c : Expect(c.at, ";", c.node))
(* command *)
Command(i, depth) ==
    LET op == Tok(i) IN
    CASE op = "require" -> Closed(StringList(op, i + 1))
      [] op = "if" -> Guarded(i + 1, depth, Node(op, <<>>, <<>>))
      [] op \in {"keep", "discard", "stop"} -> Closed(Done(i + 1, Node(op, <<>>, <<>>)))
      [] op = "fileinto" -> Closed(TaggedStrings(op, i + 1, {":create"}, <<LastTag(i + 1, {":create"}, "")>>, 1))
      [] op \in {"reject", "redirect"} -> Closed(TaggedStrings(op, i + 1, {}, <<>>, 1))
      [] op = "vacation" -> Closed(VacationTags(i + 1, "7", ""))
      [] OTHER -> Fail

(* validate_requires: every extension asked for anywhere is one there is    *)
RECURSIVE Supported(_)
Supported(node) ==
    /\ node.op = "require" => Range(node.words) \subseteq Extensions
    /\ \A i \in DOMAIN node.parts : Supported(node.parts[i])

RECURSIVE Program(_, _)
(* parse, and compile *)
Program(i, node) ==
    IF i > Len(tokens) THEN Done(i, node)
    ELSE Then(Command(i, 0), LAMBDA c : Program(c.at, [node EXCEPT !.parts = Append(@, c.node)]))
Compiled == Then(Program(1, Node("script", <<>>, <<>>)), LAMBDA r : IF Supported(r.node) THEN r ELSE Fail)

Parse ==
    /\ job \in {"parse", "read"} /\ mode = "start"
    /\ result' = Compiled
    /\ mode' = "done"
    /\ UNCHANGED <<script, tokens, lexemes, text, pos, word, lexed>>

-----------------------------------------------------------------------------
(* What a tree looks like as tokens: the grammar the parser is held to      *)

Commas(seqs) == FlattenSeq([k \in 1..(2 * Len(seqs) - 1) |-> IF k % 2 = 1 THEN seqs[(k + 1) \div 2] ELSE <<",">>])
RECURSIVE Printed(_)
PrintedAll(nodes) == [i \in DOMAIN nodes |-> Printed(nodes[i])]
NotEmpty(w) == w # ""
PrintedIf(parts) ==
    FlattenSeq([i \in DOMAIN parts |->
        (CASE i % 2 = 0 -> <<>> [] i = 1 -> <<"if">> [] i = Len(parts) -> <<"else">> [] OTHER -> <<"elsif">>) \o Printed(parts[i])])
Printed(n) ==
    CASE n.op = "script" -> FlattenSeq(PrintedAll(n.parts))
      [] n.op = "block" -> <<"{">> \o FlattenSeq(PrintedAll(n.parts)) \o <<"}">>
      [] n.op = "if" -> PrintedIf(n.parts)
      [] n.op = "not" -> <<"not">> \o Printed(n.parts[1])
      [] n.op \in {"allof", "anyof"} -> <<n.op, "(">> \o Commas(PrintedAll(n.parts)) \o <<")">>
      [] n.op \in {"require", "exists"} ->
            <<n.op, "[">> \o Commas([i \in DOMAIN n.words |-> <<n.words[i]>>]) \o <<"]">> \o (IF n.op = "exists" THEN <<>> ELSE <<";">>)
      [] n.op = "vacation" -> <<n.op, ":days", n.words[1]>> \o (IF n.words[2] = "" THEN <<>> ELSE <<":subject", n.words[2]>>)
                                  \o <<n.words[3], ";">>
      [] n.op \in {"keep", "discard", "stop", "fileinto", "reject", "redirect"} -> <<n.op>> \o SelectSeq(n.words, NotEmpty) \o <<";">>
      [] OTHER -> <<n.op>> \o n.words
RECURSIVE Nesting(_)
Nesting(n) ==
    LET inner == {Nesting(n.parts[i]) : i \in DOMAIN n.parts}
        own == IF n.op \in {"if", "script"} \cup {"keep", "discard", "stop", "fileinto", "reject", "redirect", "vacation", "require"} THEN 0 ELSE 1
    IN  own + Max(inner \cup {0})

-----------------------------------------------------------------------------
(* The lexer.  Characters: "q" the quote, "b" the backslash, "h" the hash,   *)
(* "n" the newline, "s" a space, "a" a letter, "7" a digit                   *)

Marks == {"{", ";"}
Lexeme(kind, chars) == [kind |-> kind, chars |-> chars]
At(i) == IF i <= Len(text) THEN text[i] ELSE "end"
WordChar(c) == c \in {"a", "7"}
(* One turn of tokenize, string, identifier or number; an open word ends     *)
(* where a character does not belong to it, and that character is looked at  *)
(* again                                                                   *)
EscapeKept(w) == Append(w, "b") \o <<At(pos)>>
EscapeRead(w) == Append(w, At(pos))
LexTurn ==
    LET c == At(pos)
        goto(m, w) == mode' = m /\ word' = w /\ pos' = pos + 1 /\ UNCHANGED lexed
        emit(kind, chars, step) ==
            mode' = "start" /\ word' = <<>> /\ pos' = pos + step /\ lexed' = Append(lexed, Lexeme(kind, chars))
        refuse == mode' = "refused" /\ UNCHANGED <<word, pos, lexed>>
    IN  \/ mode = "start" /\ c = "end" /\ mode' = "done" /\ UNCHANGED <<word, pos, lexed>>
        \/ mode = "start" /\ c \in {"s", "n"} /\ goto("start", <<>>)
        \/ mode = "start" /\ c = "h" /\ goto("comment", <<>>)
        \/ mode = "start" /\ c = "q" /\ goto("string", <<>>)
        \/ mode = "start" /\ c \in Marks /\ emit("mark", <<c>>, 1)
        \/ mode = "start" /\ c = ":" /\ (IF WordChar(At(pos + 1)) THEN goto("tag", <<>>) ELSE refuse)
        \/ mode = "start" /\ c = "7" /\ goto("number", <<c>>)
        \/ mode = "start" /\ c = "a" /\ goto("ident", <<c>>)
        \/ mode = "start" /\ c = "b" /\ refuse
        \/ mode = "comment" /\ (IF c \in {"n", "end"} THEN mode' = "start" /\ UNCHANGED <<word, pos, lexed>> ELSE goto("comment", <<>>))
        \/ mode = "string" /\ c = "end" /\ refuse
        \/ mode = "string" /\ c = "q" /\ emit("string", word, 1)
        \/ mode = "string" /\ c = "b" /\ goto("escape", word)
        \/ mode = "string" /\ c \notin {"end", "q", "b"} /\ goto("string", Append(word, c))
        \/ mode = "escape" /\ (IF c \in {"q", "b"} THEN goto("string", EscapeRead(word)) ELSE refuse)
        \/ mode \in {"ident", "tag"} /\ (IF WordChar(c) THEN goto(mode, Append(word, c)) ELSE emit(mode, word, 0))
        \/ mode = "number" /\ (IF c = "7" THEN goto(mode, Append(word, c)) ELSE emit(mode, word, 0))
Lex ==
    /\ job = "lex" /\ mode \notin {"done", "refused"}
    /\ LexTurn
    /\ UNCHANGED <<script, tokens, result, lexemes, text>>

(* How a lexical token is written, and which need a blank between them      *)
Escaped(c) == IF c \in {"q", "b"} THEN <<"b", c>> ELSE <<c>>
Spelled(x) ==
    CASE x.kind = "string" -> <<"q">> \o FlattenSeq([i \in DOMAIN x.chars |-> Escaped(x.chars[i])]) \o <<"q">>
      [] x.kind = "tag" -> <<":">> \o x.chars
      [] OTHER -> x.chars
RunTogether(x, y) ==
    \/ x.kind \in {"ident", "tag"} /\ y.kind \in {"ident", "number"}
    \/ x.kind = "number" /\ y.kind = "number"
Writings(xs) ==
    {FlattenSeq([i \in DOMAIN xs |-> Spelled(xs[i]) \o gaps[i]]) :
        gaps \in {g \in [DOMAIN xs -> Blanks] : \A i \in 1..(Len(xs) - 1) : RunTogether(xs[i], xs[i + 1]) => g[i] # <<>>}}

TextInit ==
    /\ result = Fail /\ pos = 1 /\ mode = "start" /\ word = <<>> /\ lexed = <<>>
    /\ \/ /\ job = "parse" /\ script \in Scripts
          /\ tokens = Printed(script)
          /\ lexemes = <<>> /\ text = <<>>
       \/ /\ job = "read" /\ script = Nil /\ tokens \in TokenLists
          /\ lexemes = <<>> /\ text = <<>>
       \/ /\ job = "lex" /\ script = Nil /\ tokens = <<>>
          /\ lexemes \in Lexemes
          /\ text \in Writings(lexemes)

TextNext == Parse \/ Lex

-----------------------------------------------------------------------------
\* What a job does not use is empty and stays so.
NoBox ==
    /\ scripts = <<>> /\ active = Nothing /\ legacy = Nothing /\ folders = {} /\ editor = <<>>
    /\ answered = <<>> /\ day = 0 /\ edits = 0 /\ outcome = NoOutcome /\ replies = {}
NoText ==
    /\ script = Nil /\ tokens = <<>> /\ result = Fail /\ lexemes = <<>> /\ text = <<>>
    /\ pos = 1 /\ mode = "done" /\ word = <<>> /\ lexed = <<>>

Init ==
    \/ job = "mailbox" /\ BoxInit /\ NoText
    \/ TextInit /\ NoBox

Next ==
    \/ job = "mailbox" /\ BoxNext /\ UNCHANGED <<job, textVars>>
    \/ TextNext /\ UNCHANGED <<job, boxVars>>

Spec == Init /\ [][Next]_vars

-----------------------------------------------------------------------------
(* Properties *)

\* A message is stored nowhere only when the script rejected or discarded
\* it: a script that is missing, broken, stopped by a limit, half renamed,
\* or files into a folder that cannot be made never loses mail.
NeverLost == outcome.folders = {} => outcome.rejected \/ Has(outcome.actions, "discard")

\* A sender is not answered twice within the days the script says, as long
\* as the record of the earlier answer was written and not pruned away.
NotAnsweredTwice == \A r \in replies : ~r.early

(* A script that nests no deeper than allowed and asks for extensions there *)
(* are is accepted and read as it was meant, every test and command in its  *)
(* place; any other is refused                                             *)
ParsedBack ==
    job = "parse" /\ mode = "done" =>
        IF Nesting(script) <= MaxNesting /\ Supported(script)
        THEN result = Done(Len(tokens) + 1, script) ELSE ~result.ok
(* Tokens that are accepted are a script: written out and read again they   *)
(* give the same tree, and nothing but tags said twice, spelled-out         *)
(* defaults and brackets distinguishes the two texts                        *)
Loose == {":is", ":all", ":text", ":create", ":contains", ":matches", ":localpart", ":domain", ":raw", ":days", ":subject", "[", "]", ",", "7"}
Strict(ts) == SelectSeq(ts, LAMBDA t : t \notin Loose)
NothingElse == job = "read" /\ mode = "done" /\ result.ok => Strict(Printed(result.node)) = Strict(tokens)
(* Tokens are lexed as they were written, whatever strings contain and      *)
(* whatever blanks and comments lie between them                           *)
LexedBack == job = "lex" => mode # "refused" /\ (mode = "done" => lexed = lexemes)
SieveRead == ParsedBack /\ NothingElse /\ LexedBack
=============================================================================
