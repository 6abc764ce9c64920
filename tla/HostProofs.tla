------------------------------ MODULE HostProofs -----------------------------
(***************************************************************************)
(* Proofs about the host services of MCHost: mailbox accounts and the      *)
(* helper that makes them, backup, relay, certificates, lookup tables and  *)
(* services, the audit log.                                                *)
(*                                                                         *)
(* Each section is about one component: it states the inductive invariant, *)
(* proves it preserved with one lemma per action, and derives the          *)
(* component's properties from it. What a proof takes of the constants is  *)
(* defined in the component's module (AccountConstants, ...), assumed in   *)
(* MCHost and evaluated there by TLC.                                      *)
(*                                                                         *)
(* The last section carries the results over to the composition of MCHost, *)
(* whose properties they are.                                              *)
(***************************************************************************)
EXTENDS MCHost, FiniteSetTheorems, TLAPS

-----------------------------------------------------------------------------
(***************************************************************************)
(* Mailbox accounts (Accounts). The files agree with an operation that     *)
(* runs alone, stage by stage, so that they agree with its answer; the     *)
(* registry lock belongs to whoever is between its two files.              *)
(***************************************************************************)
\* The fields of an operation under way.
OpFields == {"do", "for", "user", "email", "password", "alone", "before"}
\* The stages of each of the four operations.
Stages(for) ==
    CASE for = "add" -> {"create", "chpasswd", "record", "maildir", "register", "box", "drop", "remove"}
      [] for = "delete" -> {"remove", "address", "unregister", "unbox", "drop"}
      [] for = "status" -> {"lock", "bump"}
      [] for = "password" -> {"identity", "replace", "chpasswd", "bump", "restore"}
      [] OTHER -> {}

OpOK(o) ==
    o # Staff!Idle =>
        /\ DOMAIN o = OpFields /\ o.user \in Users /\ DOMAIN o.before = {"account", "identity", "record"}
        /\ o.for \in {"add", "delete", "status", "password"} /\ o.do \in Stages(o.for)
        /\ o.for = "add" => o.email \in Emails
        /\ o.for = "password" => o.do = "identity" \/ o.before.identity \in Staff!Identities

\* What an operation that runs alone has done by each of its stages.
AddDone(o) ==
    /\ o.do \in {"record", "maildir", "register", "box"} => account[o.user] = o.password
    /\ o.do \in {"maildir", "register", "box"} => record[o.email] = o.password
    /\ o.do = "box" => o.user \in managed
DeleteDone(o) ==
    /\ o.do \in {"address", "unregister", "unbox", "drop"} => account[o.user] = Staff!NoAccount
    /\ o.do \in {"unbox", "drop"} => o.user \notin managed
    /\ o.do = "drop" => Staff!BoxesOf(o.user) = {}
PasswordDone(o) ==
    /\ o.do \in {"identity", "replace", "chpasswd", "restore"} => account[o.user] = o.before.account
    /\ o.do = "replace" => record[o.before.identity] = o.before.record
    /\ o.do \in {"chpasswd", "bump"} => record[o.before.identity] = o.password
    /\ o.do = "bump" => account[o.user] = o.password
DoneSoFar(o) ==
    /\ o.for = "add" => AddDone(o)
    /\ o.for = "delete" => DeleteDone(o)
    /\ o.for = "password" => PasswordDone(o)

\* What an answer claims.
ClaimTrue(a) ==
    /\ a.for = "add" /\ a.do = "ok" =>
         account[a.user] = a.password /\ record[a.email] = a.password /\ a.user \in managed /\ Staff!HasBox(a.email)
    /\ a.for = "delete" /\ a.do = "ok" =>
         account[a.user] = Staff!NoAccount /\ a.user \notin managed /\ Staff!BoxesOf(a.user) = {}
    /\ a.for = "password" /\ a.do = "ok" => account[a.user] = a.password /\ record[a.before.identity] = a.password
    /\ a.for = "password" /\ a.do = "failed" =>
         account[a.user] = a.before.account /\ record[a.before.identity] = a.before.record

\* Between the two files of the registry.
InRegistry(o) == o.do \in {"box", "unbox"}

FilesShaped ==
    /\ DOMAIN account = Users /\ account = [u \in Users |-> account[u]]
    /\ DOMAIN record = Staff!Identities /\ record = [i \in Staff!Identities |-> record[i]]
AccountsShaped ==
    /\ FilesShaped
    /\ DOMAIN op = Actors /\ op = [w \in Actors |-> op[w]]
    /\ DOMAIN answer = Actors /\ answer = [w \in Actors |-> answer[w]]
\* One mailbox per address, of the addresses there are.
BoxesOK == /\ \A i \in DOMAIN boxes : boxes[i].email \in Emails
           /\ Staff!OneMailboxPerAddress

\* An operation: whether it holds the registry lock, and what it has done if it is alone.
OperatorOK(w) ==
    /\ OpOK(op[w])
    /\ InRegistry(op[w]) <=> registry = w
    /\ op[w].do = "box" => ~Staff!HasBox(op[w].email)
    /\ op[w] # Staff!Idle /\ op[w].alone => DoneSoFar(op[w]) /\ \A v \in Actors : v # w => op[v] = Staff!Idle

\* An answer is true until the next operation begins.
AnswerOK(w) ==
    answer[w] # Staff!Idle /\ answer[w].alone => ClaimTrue(answer[w]) /\ \A v \in Actors : op[v] = Staff!Idle

\* The inductive invariant.
AccountsInv ==
    /\ AccountsShaped /\ BoxesOK
    /\ \A w \in Actors : OperatorOK(w) /\ AnswerOK(w)

\* A step of one operation: nobody else's standing depends on what it changes.
LEMMA OperationStep ==
    ASSUME AccountsInv, AccountsShaped', BoxesOK', NEW w \in Actors, op[w] # Staff!Idle, NEW m, op' = [op EXCEPT ![w] = m],
           OpOK(m), m # Staff!Idle => m.alone = op[w].alone, m # Staff!Idle /\ m.alone => DoneSoFar(m)',
           InRegistry(m) <=> registry' = w, m.do = "box" => ~Staff!HasBox(m.email)',
           \A v \in Actors : v # w => (registry' = v <=> registry = v),
           boxes' = boxes \/ registry = w,
           \/ answer' = answer
           \/ m = Staff!Idle /\ \E a : answer' = [answer EXCEPT ![w] = a] /\ a.alone = op[w].alone /\ (a.alone => ClaimTrue(a)')
    PROVE  AccountsInv'
<1>1. DOMAIN op = Actors /\ DOMAIN answer = Actors /\ op'[w] = m
  BY DEF AccountsInv, AccountsShaped
<1>2. ASSUME NEW v \in Actors, v # w PROVE OperatorOK(v)'
  <2>1. op'[v] = op[v] /\ OperatorOK(v)
    BY <1>1, <1>2 DEF AccountsInv
  <2>2. op[v] # Staff!Idle => ~op[v].alone
    BY <1>2, <2>1 DEF OperatorOK
  <2>3. op[v].do = "box" => registry = v /\ boxes' = boxes
    BY <1>2, <2>1 DEF OperatorOK, InRegistry
  <2>4. op'[v].do = "box" => ~Staff!HasBox(op[v].email)'
    BY <2>1, <2>3 DEF OperatorOK, Staff!HasBox
  <2>5. OpOK(op[v])' /\ (InRegistry(op[v])' <=> registry' = v)
    BY <1>2, <2>1 DEF OperatorOK, OpOK, InRegistry, Staff!Idle, Staff!Identities
  <2>6. op'[v] # Staff!Idle => ~op'[v].alone
    BY <2>1, <2>2
  <2>7. QED
    BY <2>4, <2>5, <2>6 DEF OperatorOK, Staff!Idle
<1>3. OperatorOK(w)'
  <2>1. OpOK(op[w])' /\ (InRegistry(op[w])' <=> registry' = w)
    BY <1>1 DEF OpOK, InRegistry, Staff!Idle, Staff!Identities
  <2>2. op'[w].do = "box" => ~Staff!HasBox(op[w].email)'
    BY <1>1 DEF Staff!HasBox
  <2>3. op'[w] # Staff!Idle /\ op'[w].alone => DoneSoFar(op[w])' /\ \A v \in Actors : v # w => op'[v] = Staff!Idle
    <3>1. SUFFICES ASSUME m # Staff!Idle, m.alone PROVE DoneSoFar(op[w])' /\ \A v \in Actors : v # w => op'[v] = Staff!Idle
      BY <1>1
    <3>2. \A v \in Actors : v # w => op[v] = Staff!Idle
      BY <3>1 DEF AccountsInv, OperatorOK
    <3>3. DoneSoFar(op[w])'
      BY <1>1, <3>1 DEF DoneSoFar, AddDone, DeleteDone, PasswordDone, Staff!BoxesOf
    <3>4. QED
      BY <1>1, <3>2, <3>3
  <2>4. QED
    BY <2>1, <2>2, <2>3 DEF OperatorOK, Staff!Idle
<1>4. \A v \in Actors : answer[v] # Staff!Idle => ~answer[v].alone
  BY DEF AccountsInv, AnswerOK
<1>5. ASSUME NEW v \in Actors PROVE AnswerOK(v)'
  <2>1. CASE answer'[v] = answer[v]
    BY <1>4, <2>1 DEF AnswerOK, Staff!Idle
  <2>2. CASE answer'[v] # answer[v]
    <3>1. v = w /\ m = Staff!Idle
      BY <1>1, <2>2
    <3>2. PICK a : answer' = [answer EXCEPT ![w] = a] /\ a.alone = op[w].alone /\ (a.alone => ClaimTrue(a)')
      BY <2>2
    <3>3. answer'[v] = a
      BY <1>1, <3>1, <3>2
    <3>4. CASE a.alone
      <4>1. ClaimTrue(answer[v])'
        BY <3>2, <3>3, <3>4 DEF ClaimTrue, Staff!HasBox, Staff!BoxesOf
      <4>2. \A u \in Actors : op'[u] = Staff!Idle
        BY <1>1, <3>1, <3>2, <3>4 DEF AccountsInv, OperatorOK
      <4>3. QED
        BY <4>1, <4>2 DEF AnswerOK, Staff!Idle
    <3>5. CASE ~a.alone
      BY <3>3, <3>5 DEF AnswerOK
    <3>6. QED
      BY <3>4, <3>5
  <2>3. QED
    BY <2>1, <2>2
<1>6. QED
  BY <1>2, <1>3, <1>5 DEF AccountsInv

\* An operation at its next stage, or as its answer tells it.
AtStage(o, next) == [o EXCEPT !.do = next]

LEMMA AtStageFields ==
    ASSUME NEW o, DOMAIN o = OpFields, NEW next
    PROVE  /\ DOMAIN AtStage(o, next) = OpFields /\ AtStage(o, next).do = next /\ AtStage(o, next).for = o.for /\ AtStage(o, next).user = o.user
           /\ AtStage(o, next).email = o.email /\ AtStage(o, next).password = o.password /\ AtStage(o, next).alone = o.alone
           /\ AtStage(o, next).before = o.before /\ AtStage(o, next) # Staff!Idle
<1>1. /\ DOMAIN AtStage(o, next) = OpFields /\ AtStage(o, next).do = next /\ AtStage(o, next).for = o.for /\ AtStage(o, next).user = o.user
      /\ AtStage(o, next).email = o.email /\ AtStage(o, next).password = o.password /\ AtStage(o, next).alone = o.alone
      /\ AtStage(o, next).before = o.before
  BY DEF AtStage, OpFields
<1>2. DOMAIN Staff!Idle = {"do"} /\ "for" \in OpFields /\ "for" # "do"
  BY DEF Staff!Idle, OpFields
<1>3. AtStage(o, next) # Staff!Idle
  BY <1>1, <1>2
<1>4. QED
  BY <1>1, <1>3

\* A step to the next stage.
LEMMA GotoStep ==
    ASSUME AccountsInv, FilesShaped', BoxesOK', NEW w \in Actors, NEW o, o = op[w], o # Staff!Idle, NEW next, Staff!Goto(w, next),
           next \in Stages(o.for), o.for = "password" => o.before.identity \in Staff!Identities,
           o.alone => DoneSoFar(AtStage(o, next))',
           next \in {"box", "unbox"} <=> registry' = w, next = "box" => ~Staff!HasBox(o.email)',
           \A v \in Actors : v # w => (registry' = v <=> registry = v),
           boxes' = boxes \/ registry = w
    PROVE  AccountsInv'
<1>1. OpOK(o) /\ DOMAIN op = Actors /\ DOMAIN o = OpFields
  BY DEF AccountsInv, AccountsShaped, OperatorOK, OpOK
<1>2. PICK m : m = AtStage(o, next)
  OBVIOUS
<1>3. /\ DOMAIN m = OpFields /\ m.do = next /\ m.for = o.for /\ m.user = o.user /\ m.email = o.email /\ m.password = o.password
      /\ m.alone = o.alone /\ m.before = o.before /\ m # Staff!Idle
  BY <1>1, <1>2, AtStageFields
<1>4. op' = [op EXCEPT ![w] = m] /\ answer' = answer
  BY <1>1, <1>2 DEF Staff!Goto, AtStage
<1>5. AccountsShaped'
  BY <1>4 DEF AccountsInv, AccountsShaped
<1>6. OpOK(m)
  BY <1>1, <1>3 DEF OpOK
<1>7. m.alone => DoneSoFar(m)'
  BY <1>2, <1>3
<1>8. m.do = "box" => ~Staff!HasBox(m.email)'
  BY <1>3
<1>9. QED
  BY <1>3, <1>4, <1>5, <1>6, <1>7, <1>8, OperationStep DEF InRegistry

\* A step that answers.
LEMMA AnswerStep ==
    ASSUME AccountsInv, FilesShaped', BoxesOK', NEW w \in Actors, NEW o, o = op[w], o # Staff!Idle, NEW told, Staff!Answer(w, told),
           o.alone => ClaimTrue(AtStage(o, told))', registry' # w,
           \A v \in Actors : v # w => (registry' = v <=> registry = v),
           boxes' = boxes \/ registry = w
    PROVE  AccountsInv'
<1>1. DOMAIN op = Actors /\ DOMAIN o = OpFields
  BY DEF AccountsInv, AccountsShaped, OperatorOK, OpOK
<1>2. PICK a : a = AtStage(o, told)
  OBVIOUS
<1>3. a.alone = o.alone
  BY <1>1, <1>2, AtStageFields
<1>4. op' = [op EXCEPT ![w] = Staff!Idle] /\ answer' = [answer EXCEPT ![w] = a]
  BY <1>2 DEF Staff!Answer, AtStage
<1>5. AccountsShaped'
  BY <1>4 DEF AccountsInv, AccountsShaped
<1>6. PICK m : m = Staff!Idle
  OBVIOUS
<1>7. OpOK(m) /\ ~InRegistry(m) /\ m.do # "box"
  BY <1>6 DEF OpOK, InRegistry, Staff!Idle
<1>8. op' = [op EXCEPT ![w] = m] /\ (a.alone => ClaimTrue(a)')
  BY <1>2, <1>3, <1>4, <1>6
<1>9. QED
  BY <1>3, <1>4, <1>5, <1>6, <1>7, <1>8, OperationStep

\* What is known of an operation under way.
LEMMA UnderWay ==
    ASSUME AccountsInv, NEW w \in Actors, NEW o, o = op[w], o.do # "idle"
    PROVE  /\ o # Staff!Idle /\ DOMAIN o = OpFields /\ OpOK(o) /\ o.user \in Users /\ o.do \in Stages(o.for)
           /\ o.for \in {"add", "delete", "status", "password"}
           /\ o.for = "add" => o.email \in Emails
           /\ o.for = "password" /\ o.do # "identity" => o.before.identity \in Staff!Identities
           /\ o.alone => DoneSoFar(o)
           /\ InRegistry(o) <=> registry = w
           /\ o.do = "box" => ~Staff!HasBox(o.email)
           /\ FilesShaped /\ BoxesOK
<1>1. o # Staff!Idle
  BY DEF Staff!Idle
<1>2. QED
  BY <1>1 DEF AccountsInv, OperatorOK, OpOK, AccountsShaped

\* A step outside the registry.
LEMMA RegistryAside ==
    ASSUME AccountsInv, NEW w \in Actors, ~InRegistry(op[w]), UNCHANGED <<boxes, registry>>
    PROVE  BoxesOK' /\ registry' # w /\ registry # w /\ boxes' = boxes
           /\ \A v \in Actors : v # w => (registry' = v <=> registry = v)
BY DEF AccountsInv, OperatorOK, BoxesOK, Staff!OneMailboxPerAddress

LEMMA CreatingAccount ==
    ASSUME AccountsInv, NEW w \in Actors, Staff!CreateAccount(w) PROVE AccountsInv'
<1>1. PICK o : o = op[w]
  OBVIOUS
<1>2. o.do = "create" /\ UNCHANGED <<record, managed, boxes, registry>>
  BY <1>1 DEF Staff!CreateAccount, Staff!At, Staff!fileVars
<1>3. /\ o # Staff!Idle /\ DOMAIN o = OpFields /\ o.user \in Users /\ o.for = "add" /\ FilesShaped
      /\ ~InRegistry(op[w])
  BY <1>1, <1>2, UnderWay DEF Stages, InRegistry
<1>4. FilesShaped'
  BY <1>1, <1>2, <1>3 DEF Staff!CreateAccount, FilesShaped
<1>5. CASE Staff!Goto(w, "chpasswd")
  <2>1. DoneSoFar(AtStage(o, "chpasswd"))'
    BY <1>3, AtStageFields DEF DoneSoFar, AddDone
  <2>2. "chpasswd" \in Stages(o.for)
    BY <1>3 DEF Stages
  <2>3. QED
    BY <1>1, <1>2, <1>3, <1>4, <1>5, <2>1, <2>2, RegistryAside, GotoStep
<1>6. CASE Staff!Answer(w, "failed")
  <2>1. ClaimTrue(AtStage(o, "failed"))'
    BY <1>3, AtStageFields DEF ClaimTrue
  <2>2. QED
    BY <1>1, <1>2, <1>3, <1>4, <1>6, <2>1, RegistryAside, AnswerStep
<1>7. QED
  BY <1>5, <1>6 DEF Staff!CreateAccount

LEMMA SettingPassword ==
    ASSUME AccountsInv, NEW w \in Actors, Staff!SetPassword(w) PROVE AccountsInv'
<1>1. PICK o : o = op[w]
  OBVIOUS
<1>2. o.do = "chpasswd" /\ UNCHANGED <<record, managed, boxes, registry>>
  BY <1>1 DEF Staff!SetPassword, Staff!At, Staff!fileVars
<1>3. /\ o # Staff!Idle /\ DOMAIN o = OpFields /\ o.user \in Users /\ o.for \in {"add", "password"} /\ FilesShaped
      /\ ~InRegistry(op[w]) /\ (o.alone => DoneSoFar(o)) /\ (o.for = "password" => o.before.identity \in Staff!Identities)
  BY <1>1, <1>2, UnderWay DEF Stages, InRegistry
<1>4. FilesShaped'
  BY <1>1, <1>2, <1>3 DEF Staff!SetPassword, FilesShaped
<1>5. CASE account' = [account EXCEPT ![op[w].user] = op[w].password] /\ Staff!Goto(w, Staff!AfterPassword(w))
  <2>1. account'[o.user] = o.password
    BY <1>1, <1>3, <1>5 DEF FilesShaped
  <2>2. CASE o.for = "add"
    <3>1. Staff!AfterPassword(w) = "record"
      BY <1>1, <2>2 DEF Staff!AfterPassword
    <3>2. DoneSoFar(AtStage(o, "record"))'
      BY <1>3, <2>1, <2>2, AtStageFields DEF DoneSoFar, AddDone
    <3>3. "record" \in Stages(o.for)
      BY <2>2 DEF Stages
    <3>4. Staff!Goto(w, "record")
      BY <1>5, <3>1
    <3>5. QED
      BY <1>1, <1>2, <1>3, <1>4, <2>2, <3>2, <3>3, <3>4, RegistryAside, GotoStep
  <2>3. CASE o.for = "password"
    <3>1. Staff!AfterPassword(w) = "bump"
      BY <1>1, <2>3 DEF Staff!AfterPassword
    <3>2. o.alone => DoneSoFar(AtStage(o, "bump"))'
      BY <1>2, <1>3, <2>1, <2>3, AtStageFields DEF DoneSoFar, PasswordDone
    <3>3. "bump" \in Stages(o.for)
      BY <2>3 DEF Stages
    <3>4. Staff!Goto(w, "bump")
      BY <1>5, <3>1
    <3>5. QED
      BY <1>1, <1>2, <1>3, <1>4, <3>2, <3>3, <3>4, RegistryAside, GotoStep
  <2>4. QED
    BY <1>3, <2>2, <2>3
<1>6. CASE UNCHANGED account /\ Staff!Goto(w, Staff!AfterRefusal(w))
  <2>1. CASE o.for = "add"
    <3>1. Staff!Goto(w, "drop")
      BY <1>1, <1>6, <2>1 DEF Staff!AfterRefusal
    <3>2. DoneSoFar(AtStage(o, "drop"))'
      BY <1>3, <2>1, AtStageFields DEF DoneSoFar, AddDone
    <3>3. "drop" \in Stages(o.for)
      BY <2>1 DEF Stages
    <3>4. QED
      BY <1>1, <1>2, <1>3, <1>4, <2>1, <3>1, <3>2, <3>3, RegistryAside, GotoStep
  <2>2. CASE o.for = "password"
    <3>1. Staff!Goto(w, "restore")
      BY <1>1, <1>6, <2>2 DEF Staff!AfterRefusal
    <3>2. o.alone => DoneSoFar(AtStage(o, "restore"))'
      BY <1>2, <1>3, <1>6, <2>2, AtStageFields DEF DoneSoFar, PasswordDone
    <3>3. "restore" \in Stages(o.for)
      BY <2>2 DEF Stages
    <3>4. QED
      BY <1>1, <1>2, <1>3, <1>4, <3>1, <3>2, <3>3, RegistryAside, GotoStep
  <2>3. QED
    BY <1>3, <2>1, <2>2
<1>7. QED
  BY <1>5, <1>6 DEF Staff!SetPassword

LEMMA AddingRecord ==
    ASSUME AccountsInv, NEW w \in Actors, Staff!AddRecord(w) PROVE AccountsInv'
<1>1. PICK o : o = op[w]
  OBVIOUS
<1>2. o.do = "record" /\ UNCHANGED <<account, managed, boxes, registry>>
  BY <1>1 DEF Staff!AddRecord, Staff!At, Staff!systemVars
<1>3. /\ o # Staff!Idle /\ DOMAIN o = OpFields /\ o.user \in Users /\ o.for = "add" /\ o.email \in Emails /\ FilesShaped
      /\ ~InRegistry(op[w]) /\ (o.alone => DoneSoFar(o))
  BY <1>1, <1>2, UnderWay DEF Stages, InRegistry
<1>4. FilesShaped'
  BY <1>1, <1>2, <1>3 DEF Staff!AddRecord, Staff!SaveRecord, FilesShaped
<1>5. CASE record' = [record EXCEPT ![op[w].email] = op[w].password] /\ Staff!Goto(w, "maildir")
  <2>1. record'[o.email] = o.password
    BY <1>1, <1>3, <1>5 DEF FilesShaped, Staff!Identities
  <2>2. o.alone => DoneSoFar(AtStage(o, "maildir"))'
    BY <1>2, <1>3, <2>1, AtStageFields DEF DoneSoFar, AddDone
  <2>3. "maildir" \in Stages(o.for)
    BY <1>3 DEF Stages
  <2>4. QED
    BY <1>1, <1>2, <1>3, <1>4, <1>5, <2>2, <2>3, RegistryAside, GotoStep
<1>6. CASE Staff!Goto(w, "drop")
  <2>1. DoneSoFar(AtStage(o, "drop"))'
    BY <1>3, AtStageFields DEF DoneSoFar, AddDone
  <2>2. "drop" \in Stages(o.for)
    BY <1>3 DEF Stages
  <2>3. QED
    BY <1>1, <1>2, <1>3, <1>4, <1>6, <2>1, <2>2, RegistryAside, GotoStep
<1>7. QED
  BY <1>5, <1>6 DEF Staff!AddRecord, Staff!SaveRecord

LEMMA EnsuringMaildir ==
    ASSUME AccountsInv, NEW w \in Actors, Staff!EnsureMaildir(w) PROVE AccountsInv'
<1>1. PICK o : o = op[w]
  OBVIOUS
<1>2. o.do = "maildir" /\ UNCHANGED <<account, record, managed, boxes, registry>> /\ Staff!Goto(w, "register")
  BY <1>1 DEF Staff!EnsureMaildir, Staff!At, Staff!fileVars
<1>3. /\ o # Staff!Idle /\ DOMAIN o = OpFields /\ o.for = "add" /\ FilesShaped /\ ~InRegistry(op[w]) /\ (o.alone => DoneSoFar(o))
  BY <1>1, <1>2, UnderWay DEF Stages, InRegistry
<1>4. FilesShaped'
  BY <1>2, <1>3 DEF FilesShaped
<1>5. o.alone => DoneSoFar(AtStage(o, "register"))'
  BY <1>2, <1>3, AtStageFields DEF DoneSoFar, AddDone
<1>6. "register" \in Stages(o.for)
  BY <1>3 DEF Stages
<1>7. QED
  BY <1>1, <1>2, <1>3, <1>4, <1>5, <1>6, RegistryAside, GotoStep

LEMMA RegisteringUser ==
    ASSUME AccountsInv, Staff!AccountConstants, NEW w \in Actors, Staff!RegisterUser(w) PROVE AccountsInv'
<1>1. PICK o : o = op[w]
  OBVIOUS
<1>2. o.do = "register" /\ registry = Staff!Nobody /\ UNCHANGED <<account, record, boxes>>
  BY <1>1 DEF Staff!RegisterUser, Staff!At, Staff!systemVars
<1>3. /\ o # Staff!Idle /\ DOMAIN o = OpFields /\ o.for = "add" /\ FilesShaped /\ BoxesOK /\ ~InRegistry(op[w])
      /\ (o.alone => DoneSoFar(o))
  BY <1>1, <1>2, UnderWay DEF Stages, InRegistry
<1>4. FilesShaped' /\ BoxesOK'
  BY <1>2, <1>3 DEF FilesShaped, BoxesOK, Staff!OneMailboxPerAddress
<1>5. CASE Staff!StillFree(w) /\ managed' = managed \cup {op[w].user} /\ registry' = w /\ Staff!Goto(w, "box")
  <2>1. o.alone => DoneSoFar(AtStage(o, "box"))'
    BY <1>1, <1>2, <1>3, <1>5, AtStageFields DEF DoneSoFar, AddDone
  <2>2. "box" \in Stages(o.for)
    BY <1>3 DEF Stages
  <2>3. ~Staff!HasBox(o.email)'
    BY <1>1, <1>2, <1>5 DEF Staff!StillFree, Staff!HasBox
  <2>4. \A v \in Actors : v # w => (registry' = v <=> registry = v)
    BY <1>2, <1>5 DEF Staff!AccountConstants
  <2>5. QED
    BY <1>1, <1>2, <1>3, <1>4, <1>5, <2>1, <2>2, <2>3, <2>4, GotoStep
<1>6. CASE UNCHANGED <<managed, registry>> /\ Staff!Goto(w, "drop")
  <2>1. DoneSoFar(AtStage(o, "drop"))'
    BY <1>3, AtStageFields DEF DoneSoFar, AddDone
  <2>2. "drop" \in Stages(o.for)
    BY <1>3 DEF Stages
  <2>3. QED
    BY <1>1, <1>2, <1>3, <1>4, <1>6, <2>1, <2>2, RegistryAside, GotoStep
<1>7. QED
  BY <1>5, <1>6 DEF Staff!RegisterUser

LEMMA RegisteringBox ==
    ASSUME AccountsInv, Staff!AccountConstants, NEW w \in Actors, Staff!RegisterBox(w) PROVE AccountsInv'
<1>1. PICK o : o = op[w]
  OBVIOUS
<1>2. o.do = "box" /\ registry' = Staff!Nobody /\ UNCHANGED <<account, record, managed>>
  BY <1>1 DEF Staff!RegisterBox, Staff!At, Staff!systemVars
<1>3. /\ o # Staff!Idle /\ DOMAIN o = OpFields /\ o.for = "add" /\ o.email \in Emails /\ FilesShaped /\ BoxesOK /\ registry = w
      /\ (o.alone => DoneSoFar(o)) /\ ~Staff!HasBox(o.email)
  BY <1>1, <1>2, UnderWay DEF Stages, InRegistry
<1>4. FilesShaped'
  BY <1>2, <1>3 DEF FilesShaped
<1>5. registry' # w /\ \A v \in Actors : v # w => (registry' = v <=> registry = v)
  BY <1>2, <1>3 DEF Staff!AccountConstants
<1>6. ASSUME NEW n, Staff!Behind(n), boxes' = Staff!Listed(n, [email |-> op[w].email, user |-> op[w].user]), Staff!Answer(w, "ok"),
             n \in Nat
      PROVE  AccountsInv'
  <2>1. /\ DOMAIN boxes' = DOMAIN boxes \cup {n} /\ boxes'[n] = [email |-> o.email, user |-> o.user]
        /\ \A i \in DOMAIN boxes : i # n => boxes'[i] = boxes[i]
    BY <1>1, <1>6 DEF Staff!Listed
  <2>2. n \notin DOMAIN boxes
    BY <1>6 DEF Staff!Behind
  <2>3. BoxesOK'
    <3>1. \A i \in DOMAIN boxes' : boxes'[i].email \in Emails
      BY <1>3, <2>1 DEF BoxesOK
    <3>2. ASSUME NEW i \in DOMAIN boxes', NEW j \in DOMAIN boxes', boxes'[i].email = boxes'[j].email PROVE i = j
      BY <1>3, <2>1, <2>2, <3>2 DEF BoxesOK, Staff!OneMailboxPerAddress, Staff!HasBox
    <3>3. QED
      BY <3>1, <3>2 DEF BoxesOK, Staff!OneMailboxPerAddress
  <2>4. Staff!HasBox(o.email)'
    BY <2>1 DEF Staff!HasBox
  <2>5. o.alone => ClaimTrue(AtStage(o, "ok"))'
    BY <1>2, <1>3, <2>4, AtStageFields DEF ClaimTrue, DoneSoFar, AddDone
  <2>6. QED
    BY <1>1, <1>3, <1>4, <1>5, <1>6, <2>3, <2>5, AnswerStep
<1>7. CASE UNCHANGED boxes /\ Staff!Goto(w, "drop")
  <2>1. DoneSoFar(AtStage(o, "drop"))'
    BY <1>3, AtStageFields DEF DoneSoFar, AddDone
  <2>2. "drop" \in Stages(o.for) /\ BoxesOK'
    BY <1>3, <1>7 DEF Stages, BoxesOK, Staff!OneMailboxPerAddress
  <2>3. QED
    BY <1>1, <1>3, <1>4, <1>5, <1>7, <2>1, <2>2, GotoStep
<1>8. QED
  BY <1>6, <1>7 DEF Staff!RegisterBox

LEMMA DroppingRecords ==
    ASSUME AccountsInv, NEW w \in Actors, Staff!DropRecords(w) PROVE AccountsInv'
<1>1. PICK o : o = op[w]
  OBVIOUS
<1>2. o.do = "drop" /\ UNCHANGED <<account, managed, boxes, registry>>
  BY <1>1 DEF Staff!DropRecords, Staff!At, Staff!systemVars
<1>3. /\ o # Staff!Idle /\ DOMAIN o = OpFields /\ o.for \in {"add", "delete"} /\ FilesShaped /\ ~InRegistry(op[w])
      /\ (o.alone => DoneSoFar(o))
  BY <1>1, <1>2, UnderWay DEF Stages, InRegistry
<1>4. PICK both : \E aside \in SUBSET both : record' = [i \in Staff!Identities |-> IF i \in both \ aside THEN Staff!None ELSE record[i]]
  BY DEF Staff!DropRecords
<1>5. FilesShaped'
  BY <1>2, <1>3, <1>4 DEF FilesShaped, Staff!Identities
<1>6. CASE o.for = "add"
  <2>1. Staff!Goto(w, "remove")
    BY <1>1, <1>6 DEF Staff!DropRecords
  <2>2. DoneSoFar(AtStage(o, "remove"))'
    BY <1>3, <1>6, AtStageFields DEF DoneSoFar, AddDone
  <2>3. "remove" \in Stages(o.for)
    BY <1>6 DEF Stages
  <2>4. QED
    BY <1>1, <1>2, <1>3, <1>5, <1>6, <2>1, <2>2, <2>3, RegistryAside, GotoStep
<1>7. CASE o.for = "delete"
  <2>1. Staff!Answer(w, "ok")
    BY <1>1, <1>7 DEF Staff!DropRecords
  <2>2. o.alone => ClaimTrue(AtStage(o, "ok"))'
    BY <1>2, <1>3, <1>7, AtStageFields DEF ClaimTrue, DoneSoFar, DeleteDone, Staff!BoxesOf
  <2>3. QED
    BY <1>1, <1>2, <1>3, <1>5, <2>1, <2>2, RegistryAside, AnswerStep
<1>8. QED
  BY <1>3, <1>6, <1>7

LEMMA RemovingAccount ==
    ASSUME AccountsInv, NEW w \in Actors, Staff!RemoveAccount(w) PROVE AccountsInv'
<1>1. PICK o : o = op[w]
  OBVIOUS
<1>2. o.do = "remove" /\ UNCHANGED <<record, managed, boxes, registry>>
  BY <1>1 DEF Staff!RemoveAccount, Staff!At, Staff!fileVars
<1>3. /\ o # Staff!Idle /\ DOMAIN o = OpFields /\ o.user \in Users /\ o.for \in {"add", "delete"} /\ FilesShaped
      /\ ~InRegistry(op[w])
  BY <1>1, <1>2, UnderWay DEF Stages, InRegistry
<1>4. \/ account' = [account EXCEPT ![o.user] = Staff!NoAccount]
      \/ account' = account
  BY <1>1 DEF Staff!RemoveAccount, Staff!systemVars
<1>5. FilesShaped'
  BY <1>2, <1>3, <1>4 DEF FilesShaped
<1>6. CASE Staff!Answer(w, "failed") /\ o.for = "add"
  <2>1. ClaimTrue(AtStage(o, "failed"))'
    BY <1>3, <1>6, AtStageFields DEF ClaimTrue
  <2>2. QED
    BY <1>1, <1>2, <1>3, <1>5, <1>6, <2>1, RegistryAside, AnswerStep
<1>7. CASE Staff!Answer(w, "error")
  <2>1. ClaimTrue(AtStage(o, "error"))'
    BY <1>3, AtStageFields DEF ClaimTrue
  <2>2. QED
    BY <1>1, <1>2, <1>3, <1>5, <1>7, <2>1, RegistryAside, AnswerStep
<1>8. CASE /\ account' = [account EXCEPT ![o.user] = Staff!NoAccount]
           /\ Staff!Goto(w, "address") /\ o.for = "delete"
  <2>1. account'[o.user] = Staff!NoAccount
    BY <1>3, <1>8 DEF FilesShaped
  <2>2. DoneSoFar(AtStage(o, "address"))'
    BY <1>3, <1>8, <2>1, AtStageFields DEF DoneSoFar, DeleteDone
  <2>3. "address" \in Stages(o.for)
    BY <1>8 DEF Stages
  <2>4. QED
    BY <1>1, <1>2, <1>3, <1>5, <1>8, <2>2, <2>3, RegistryAside, GotoStep
<1>9. QED
  BY <1>1, <1>3, <1>6, <1>7, <1>8 DEF Staff!RemoveAccount

LEMMA FindingAddress ==
    ASSUME AccountsInv, NEW w \in Actors, Staff!DeleteAddress(w) PROVE AccountsInv'
<1>1. PICK o : o = op[w]
  OBVIOUS
<1>2. o.do = "address" /\ UNCHANGED <<account, record, managed, boxes, registry, answer>>
  BY <1>1 DEF Staff!DeleteAddress, Staff!At, Staff!systemVars, Staff!fileVars
<1>3. /\ o # Staff!Idle /\ DOMAIN o = OpFields /\ OpOK(o) /\ o.for = "delete" /\ FilesShaped /\ ~InRegistry(op[w])
      /\ (o.alone => DoneSoFar(o)) /\ DOMAIN op = Actors
  BY <1>1, <1>2, UnderWay DEF Stages, InRegistry, AccountsInv, AccountsShaped
<1>4. PICK e : op' = [op EXCEPT ![w].do = "unregister", ![w].email = e]
  BY DEF Staff!DeleteAddress
<1>5. PICK m : m = [[o EXCEPT !.do = "unregister"] EXCEPT !.email = e]
  OBVIOUS
<1>6. op' = [op EXCEPT ![w] = m]
  BY <1>1, <1>3, <1>4, <1>5 DEF OpFields
<1>7. /\ DOMAIN m = OpFields /\ m.do = "unregister" /\ m.for = o.for /\ m.user = o.user /\ m.before = o.before /\ m.alone = o.alone
  BY <1>3, <1>5 DEF OpFields
<1>8. AccountsShaped' /\ OpOK(m) /\ ~InRegistry(m)
  BY <1>2, <1>3, <1>6, <1>7 DEF AccountsShaped, AccountsInv, FilesShaped, OpOK, InRegistry, Stages
<1>9. m.alone => DoneSoFar(m)'
  BY <1>2, <1>3, <1>7 DEF DoneSoFar, DeleteDone
<1>10. QED
  BY <1>1, <1>2, <1>3, <1>6, <1>7, <1>8, <1>9, RegistryAside, OperationStep

LEMMA UnregisteringUser ==
    ASSUME AccountsInv, Staff!AccountConstants, NEW w \in Actors, Staff!UnregisterUser(w) PROVE AccountsInv'
<1>1. PICK o : o = op[w]
  OBVIOUS
<1>2. o.do = "unregister" /\ registry = Staff!Nobody /\ UNCHANGED <<account, record, boxes>>
  BY <1>1 DEF Staff!UnregisterUser, Staff!At, Staff!systemVars
<1>3. /\ o # Staff!Idle /\ DOMAIN o = OpFields /\ o.for = "delete" /\ FilesShaped /\ BoxesOK /\ ~InRegistry(op[w])
      /\ (o.alone => DoneSoFar(o))
  BY <1>1, <1>2, UnderWay DEF Stages, InRegistry
<1>4. FilesShaped' /\ BoxesOK'
  BY <1>2, <1>3 DEF FilesShaped, BoxesOK, Staff!OneMailboxPerAddress
<1>5. CASE managed' = managed \ {op[w].user} /\ registry' = w /\ Staff!Goto(w, "unbox")
  <2>1. o.alone => DoneSoFar(AtStage(o, "unbox"))'
    BY <1>1, <1>2, <1>3, <1>5, AtStageFields DEF DoneSoFar, DeleteDone
  <2>2. "unbox" \in Stages(o.for)
    BY <1>3 DEF Stages
  <2>3. \A v \in Actors : v # w => (registry' = v <=> registry = v)
    BY <1>2, <1>5 DEF Staff!AccountConstants
  <2>4. QED
    BY <1>1, <1>2, <1>3, <1>4, <1>5, <2>1, <2>2, <2>3, GotoStep
<1>6. CASE UNCHANGED <<managed, registry>> /\ Staff!Answer(w, "error")
  <2>1. ClaimTrue(AtStage(o, "error"))'
    BY <1>3, AtStageFields DEF ClaimTrue
  <2>2. QED
    BY <1>1, <1>2, <1>3, <1>4, <1>6, <2>1, RegistryAside, AnswerStep
<1>7. QED
  BY <1>5, <1>6 DEF Staff!UnregisterUser

LEMMA UnregisteringBox ==
    ASSUME AccountsInv, Staff!AccountConstants, NEW w \in Actors, Staff!UnregisterBox(w) PROVE AccountsInv'
<1>1. PICK o : o = op[w]
  OBVIOUS
<1>2. o.do = "unbox" /\ registry' = Staff!Nobody /\ UNCHANGED <<account, record, managed>>
  BY <1>1 DEF Staff!UnregisterBox, Staff!At, Staff!systemVars
<1>3. /\ o # Staff!Idle /\ DOMAIN o = OpFields /\ o.for = "delete" /\ FilesShaped /\ BoxesOK /\ registry = w
      /\ (o.alone => DoneSoFar(o))
  BY <1>1, <1>2, UnderWay DEF Stages, InRegistry
<1>4. FilesShaped'
  BY <1>2, <1>3 DEF FilesShaped
<1>5. registry' # w /\ \A v \in Actors : v # w => (registry' = v <=> registry = v)
  BY <1>2, <1>3 DEF Staff!AccountConstants
<1>6. CASE boxes' = [i \in DOMAIN boxes \ Staff!BoxesOf(op[w].user) |-> boxes[i]] /\ Staff!Goto(w, "drop")
  <2>1. DOMAIN boxes' = DOMAIN boxes \ Staff!BoxesOf(o.user) /\ \A i \in DOMAIN boxes' : boxes'[i] = boxes[i]
    BY <1>1, <1>6
  <2>2. BoxesOK' /\ Staff!BoxesOf(o.user)' = {}
    BY <1>3, <2>1 DEF BoxesOK, Staff!OneMailboxPerAddress, Staff!BoxesOf
  <2>3. o.alone => DoneSoFar(AtStage(o, "drop"))'
    BY <1>2, <1>3, <2>2, AtStageFields DEF DoneSoFar, DeleteDone
  <2>4. "drop" \in Stages(o.for)
    BY <1>3 DEF Stages
  <2>5. QED
    BY <1>1, <1>3, <1>4, <1>5, <1>6, <2>2, <2>3, <2>4, GotoStep
<1>7. CASE UNCHANGED boxes /\ Staff!Answer(w, "error")
  <2>1. ClaimTrue(AtStage(o, "error"))' /\ BoxesOK'
    BY <1>3, <1>7, AtStageFields DEF ClaimTrue, BoxesOK, Staff!OneMailboxPerAddress
  <2>2. QED
    BY <1>1, <1>3, <1>4, <1>5, <1>7, <2>1, AnswerStep
<1>8. QED
  BY <1>6, <1>7 DEF Staff!UnregisterBox

LEMMA LockingAccount ==
    ASSUME AccountsInv, NEW w \in Actors, Staff!LockAccount(w) PROVE AccountsInv'
<1>1. PICK o : o = op[w]
  OBVIOUS
<1>2. o.do = "lock" /\ UNCHANGED <<account, record, managed, boxes, registry>>
  BY <1>1 DEF Staff!LockAccount, Staff!At, Staff!fileVars
<1>3. /\ o # Staff!Idle /\ DOMAIN o = OpFields /\ o.for = "status" /\ FilesShaped /\ ~InRegistry(op[w])
  BY <1>1, <1>2, UnderWay DEF Stages, InRegistry
<1>4. FilesShaped'
  BY <1>2, <1>3 DEF FilesShaped
<1>5. CASE Staff!Goto(w, "bump")
  <2>1. DoneSoFar(AtStage(o, "bump"))'
    BY <1>3, AtStageFields DEF DoneSoFar
  <2>2. "bump" \in Stages(o.for)
    BY <1>3 DEF Stages
  <2>3. QED
    BY <1>1, <1>2, <1>3, <1>4, <1>5, <2>1, <2>2, RegistryAside, GotoStep
<1>6. CASE Staff!Answer(w, "failed")
  <2>1. ClaimTrue(AtStage(o, "failed"))'
    BY <1>3, AtStageFields DEF ClaimTrue
  <2>2. QED
    BY <1>1, <1>2, <1>3, <1>4, <1>6, <2>1, RegistryAside, AnswerStep
<1>7. QED
  BY <1>5, <1>6 DEF Staff!LockAccount

LEMMA Bumping ==
    ASSUME AccountsInv, NEW w \in Actors, Staff!Bump(w) PROVE AccountsInv'
<1>1. PICK o : o = op[w]
  OBVIOUS
<1>2. o.do = "bump" /\ UNCHANGED <<account, record, managed, boxes, registry>>
  BY <1>1 DEF Staff!Bump, Staff!At, Staff!systemVars
<1>3. /\ o # Staff!Idle /\ DOMAIN o = OpFields /\ o.for \in {"status", "password"} /\ FilesShaped /\ ~InRegistry(op[w])
      /\ (o.alone => DoneSoFar(o))
  BY <1>1, <1>2, UnderWay DEF Stages, InRegistry
<1>4. FilesShaped'
  BY <1>2, <1>3 DEF FilesShaped
<1>5. CASE Staff!Answer(w, "ok")
  <2>1. o.alone => ClaimTrue(AtStage(o, "ok"))'
    BY <1>2, <1>3, AtStageFields DEF ClaimTrue, DoneSoFar, PasswordDone
  <2>2. QED
    BY <1>1, <1>2, <1>3, <1>4, <1>5, <2>1, RegistryAside, AnswerStep
<1>6. CASE Staff!Answer(w, "partly")
  <2>1. ClaimTrue(AtStage(o, "partly"))'
    BY <1>3, AtStageFields DEF ClaimTrue
  <2>2. QED
    BY <1>1, <1>2, <1>3, <1>4, <1>6, <2>1, RegistryAside, AnswerStep
<1>7. QED
  BY <1>5, <1>6 DEF Staff!Bump

LEMMA KeepingPrevious ==
    ASSUME AccountsInv, NEW w \in Actors, Staff!KeepPrevious(w) PROVE AccountsInv'
<1>1. PICK o : o = op[w]
  OBVIOUS
<1>2. o.do = "identity" /\ UNCHANGED <<account, record, managed, boxes, registry, answer>>
  BY <1>1 DEF Staff!KeepPrevious, Staff!At, Staff!systemVars, Staff!fileVars
<1>3. /\ o # Staff!Idle /\ DOMAIN o = OpFields /\ OpOK(o) /\ o.for = "password" /\ FilesShaped /\ BoxesOK /\ ~InRegistry(op[w])
      /\ (o.alone => DoneSoFar(o)) /\ DOMAIN op = Actors /\ o.user \in Users /\ DOMAIN o.before = {"account", "identity", "record"}
  BY <1>1, <1>2, UnderWay DEF Stages, InRegistry, AccountsInv, AccountsShaped, OpOK
<1>4. PICK e \in Staff!AddressOf(op[w].user) :
         LET i == IF e = Staff!None THEN op[w].user ELSE e IN
         op' = [op EXCEPT ![w].do = "replace", ![w].before.identity = i, ![w].before.record = record[i]]
  BY DEF Staff!KeepPrevious
<1>5. PICK i : i = IF e = Staff!None THEN op[w].user ELSE e
  OBVIOUS
<1>6. i \in Staff!Identities
  BY <1>1, <1>3, <1>4, <1>5 DEF Staff!AddressOf, Staff!Identities, BoxesOK, Staff!BoxesOf, Staff!First
<1>7. op' = [op EXCEPT ![w].do = "replace", ![w].before.identity = i, ![w].before.record = record[i]]
  BY <1>4, <1>5
<1>8. PICK aside : aside = [[o.before EXCEPT !.identity = i] EXCEPT !.record = record[i]]
  OBVIOUS
<1>9. PICK m : m = [[o EXCEPT !.do = "replace"] EXCEPT !.before = aside]
  OBVIOUS
<1>10. op' = [op EXCEPT ![w] = m]
  BY <1>1, <1>3, <1>7, <1>8, <1>9 DEF OpFields
<1>11. /\ DOMAIN m = OpFields /\ m.do = "replace" /\ m.for = o.for /\ m.user = o.user /\ m.before = aside /\ m.alone = o.alone
       /\ DOMAIN aside = {"account", "identity", "record"}
       /\ aside.account = o.before.account /\ aside.identity = i /\ aside.record = record[i]
  BY <1>3, <1>8, <1>9 DEF OpFields
<1>12. AccountsShaped' /\ OpOK(m) /\ ~InRegistry(m)
  BY <1>2, <1>3, <1>6, <1>10, <1>11 DEF AccountsShaped, AccountsInv, FilesShaped, OpOK, InRegistry, Stages
<1>13. m.alone => DoneSoFar(m)'
  BY <1>2, <1>3, <1>11 DEF DoneSoFar, PasswordDone
<1>14. QED
  BY <1>1, <1>2, <1>3, <1>10, <1>11, <1>12, <1>13, RegistryAside, OperationStep

LEMMA ReplacingRecord ==
    ASSUME AccountsInv, NEW w \in Actors, Staff!ReplaceRecord(w) PROVE AccountsInv'
<1>1. PICK o : o = op[w]
  OBVIOUS
<1>2. o.do = "replace" /\ UNCHANGED <<account, managed, boxes, registry>>
  BY <1>1 DEF Staff!ReplaceRecord, Staff!At, Staff!systemVars
<1>3. /\ o # Staff!Idle /\ DOMAIN o = OpFields /\ o.for = "password" /\ FilesShaped /\ ~InRegistry(op[w])
      /\ (o.alone => DoneSoFar(o)) /\ o.before.identity \in Staff!Identities
  BY <1>1, <1>2, UnderWay DEF Stages, InRegistry
<1>4. FilesShaped'
  BY <1>1, <1>2, <1>3 DEF Staff!ReplaceRecord, Staff!SaveRecord, FilesShaped
<1>5. CASE record' = [record EXCEPT ![op[w].before.identity] = op[w].password] /\ Staff!Goto(w, "chpasswd")
  <2>1. record'[o.before.identity] = o.password
    BY <1>1, <1>3, <1>5 DEF FilesShaped
  <2>2. o.alone => DoneSoFar(AtStage(o, "chpasswd"))'
    BY <1>2, <1>3, <2>1, AtStageFields DEF DoneSoFar, PasswordDone
  <2>3. "chpasswd" \in Stages(o.for)
    BY <1>3 DEF Stages
  <2>4. QED
    BY <1>1, <1>2, <1>3, <1>4, <1>5, <2>2, <2>3, RegistryAside, GotoStep
<1>6. CASE UNCHANGED record /\ Staff!Answer(w, "failed")
  <2>1. o.alone => ClaimTrue(AtStage(o, "failed"))'
    BY <1>2, <1>3, <1>6, AtStageFields DEF ClaimTrue, DoneSoFar, PasswordDone
  <2>2. QED
    BY <1>1, <1>2, <1>3, <1>4, <1>6, <2>1, RegistryAside, AnswerStep
<1>7. QED
  BY <1>5, <1>6 DEF Staff!ReplaceRecord, Staff!SaveRecord

LEMMA RestoringRecord ==
    ASSUME AccountsInv, NEW w \in Actors, Staff!RestoreRecord(w) PROVE AccountsInv'
<1>1. PICK o : o = op[w]
  OBVIOUS
<1>2. o.do = "restore" /\ UNCHANGED <<account, managed, boxes, registry>>
  BY <1>1 DEF Staff!RestoreRecord, Staff!At, Staff!systemVars
<1>3. /\ o # Staff!Idle /\ DOMAIN o = OpFields /\ o.for = "password" /\ FilesShaped /\ ~InRegistry(op[w])
      /\ (o.alone => DoneSoFar(o)) /\ o.before.identity \in Staff!Identities
  BY <1>1, <1>2, UnderWay DEF Stages, InRegistry
<1>4. FilesShaped'
  BY <1>1, <1>2, <1>3 DEF Staff!RestoreRecord, Staff!Restored, FilesShaped
<1>5. CASE record' = Staff!Restored(w) /\ Staff!Answer(w, "failed")
  <2>1. record'[o.before.identity] = o.before.record
    BY <1>1, <1>3, <1>5 DEF FilesShaped, Staff!Restored
  <2>2. o.alone => ClaimTrue(AtStage(o, "failed"))'
    BY <1>2, <1>3, <2>1, AtStageFields DEF ClaimTrue, DoneSoFar, PasswordDone
  <2>3. QED
    BY <1>1, <1>2, <1>3, <1>4, <1>5, <2>2, RegistryAside, AnswerStep
<1>6. CASE Staff!Answer(w, "partly")
  <2>1. ClaimTrue(AtStage(o, "partly"))'
    BY <1>3, AtStageFields DEF ClaimTrue
  <2>2. QED
    BY <1>1, <1>2, <1>3, <1>4, <1>6, <2>1, RegistryAside, AnswerStep
<1>7. QED
  BY <1>5, <1>6 DEF Staff!RestoreRecord

\* A step that leaves the accounts, their files and the operations alone.
LEMMA AccountsAside ==
    ASSUME AccountsInv, UNCHANGED <<account, record, managed, boxes, registry, op, answer>> PROVE AccountsInv'
<1>1. AccountsShaped'
  BY DEF AccountsInv, AccountsShaped, FilesShaped, Staff!Identities
<1>2. BoxesOK'
  BY DEF AccountsInv, BoxesOK, Staff!OneMailboxPerAddress
<1>3. ASSUME NEW w \in Actors PROVE OperatorOK(w)'
  <2>1. OperatorOK(w)
    BY DEF AccountsInv
  <2>2. QED
    BY <2>1 DEF OperatorOK, OpOK, InRegistry, Staff!HasBox, Staff!Idle, Staff!Identities, DoneSoFar, AddDone, DeleteDone,
                PasswordDone, Staff!BoxesOf, Staff!NoAccount
<1>4. ASSUME NEW w \in Actors PROVE AnswerOK(w)'
  <2>1. AnswerOK(w)
    BY DEF AccountsInv
  <2>2. QED
    BY <2>1 DEF AnswerOK, ClaimTrue, Staff!HasBox, Staff!Idle, Staff!BoxesOf, Staff!NoAccount
<1>5. QED
  BY <1>1, <1>2, <1>3, <1>4 DEF AccountsInv

\* What a request asks for, and what is known of an operation at its first stage.
AskedFor(for, first, u, e, p, alone) ==
    [do |-> first, for |-> for, user |-> u, email |-> e, password |-> p, alone |-> alone,
     before |-> [account |-> account[u], identity |-> Staff!None, record |-> Staff!None]]

\* A new operation: the others are no longer alone, and what was answered is of the past.
LEMMA OperationBegins ==
    ASSUME AccountsInv, NEW w \in Actors, NEW for, NEW first, NEW u \in Users, NEW e, NEW p,
           Staff!Begin(w, for, first, u, e, p), UNCHANGED <<account, record, managed, boxes, registry>>,
           \/ for = "add" /\ first = "create" /\ e \in Emails
           \/ for = "delete" /\ first = "remove"
           \/ for = "status" /\ first = "lock"
           \/ for = "password" /\ first = "identity"
    PROVE  AccountsInv'
<1>1. PICK busy : busy = {v \in Actors : op[v] # Staff!Idle}
  OBVIOUS
<1>2. PICK o : o = AskedFor(for, first, u, e, p, busy = {})
  OBVIOUS
<1>3. /\ op' = [v \in Actors |-> IF v = w THEN o
                                    ELSE IF v \in busy THEN [op[v] EXCEPT !.alone = FALSE] ELSE Staff!Idle]
      /\ answer' = [v \in Actors |-> Staff!Idle]
      /\ op[w].do = "idle"
  BY <1>1, <1>2 DEF Staff!Begin, Staff!At, AskedFor
<1>4. /\ DOMAIN o = OpFields /\ o.do = first /\ o.for = for /\ o.user = u /\ o.email = e /\ o.alone = (busy = {})
      /\ DOMAIN o.before = {"account", "identity", "record"} /\ o.before.account = account[u]
  BY <1>2 DEF AskedFor, OpFields
<1>5. AccountsShaped'
  BY <1>3 DEF AccountsInv, AccountsShaped, FilesShaped
<1>6. BoxesOK'
  BY DEF AccountsInv, BoxesOK, Staff!OneMailboxPerAddress
<1>7. op[w] = Staff!Idle /\ registry # w
  <2>1. OperatorOK(w)
    BY DEF AccountsInv
  <2>2. op[w] # Staff!Idle => op[w].do # "idle"
    BY <2>1 DEF OperatorOK, OpOK, Stages
  <2>3. QED
    BY <1>3, <2>1, <2>2 DEF OperatorOK, InRegistry
<1>8. OperatorOK(w)'
  <2>1. op'[w] = o
    BY <1>3
  <2>2. OpOK(o)
    BY <1>4 DEF OpOK, Stages
  <2>3. first \notin {"box", "unbox"}
    OBVIOUS
  <2>4. DoneSoFar(o)'
    BY <1>4 DEF DoneSoFar, AddDone, DeleteDone, PasswordDone
  <2>5. o.alone => \A v \in Actors : v # w => op'[v] = Staff!Idle
    BY <1>1, <1>3, <1>4
  <2>6. OpOK(op[w])'
    BY <2>1, <2>2 DEF OpOK, Staff!Idle, Staff!Identities
  <2>7. InRegistry(op[w])' <=> registry' = w
    BY <1>4, <1>7, <2>1, <2>3 DEF InRegistry
  <2>8. op'[w].do = "box" => ~Staff!HasBox(op[w].email)'
    BY <1>4, <2>1, <2>3
  <2>9. DoneSoFar(op[w])'
    BY <2>1, <2>4 DEF DoneSoFar, AddDone, DeleteDone, PasswordDone, Staff!BoxesOf, Staff!NoAccount
  <2>10. QED
    BY <2>1, <2>5, <2>6, <2>7, <2>8, <2>9 DEF OperatorOK, Staff!Idle
<1>9. ASSUME NEW v \in Actors, v # w PROVE OperatorOK(v)'
  <2>1. OperatorOK(v)
    BY DEF AccountsInv
  <2>2. CASE op[v] = Staff!Idle
    <3>1. op'[v] = Staff!Idle
      BY <1>1, <1>3, <1>9, <2>2
    <3>2. registry' # v
      BY <2>1, <2>2 DEF OperatorOK, InRegistry, Staff!Idle
    <3>3. op'[v].do = "idle"
      BY <3>1 DEF Staff!Idle
    <3>4. QED
      BY <3>1, <3>2, <3>3 DEF OperatorOK, OpOK, InRegistry, Staff!Idle
  <2>3. CASE op[v] # Staff!Idle
    <3>1. PICK b : b = op[v]
      OBVIOUS
    <3>2. PICK n : n = [b EXCEPT !.alone = FALSE]
      OBVIOUS
    <3>3. op'[v] = n
      BY <1>1, <1>3, <1>9, <2>3, <3>1, <3>2
    <3>4. OpOK(b) /\ DOMAIN b = OpFields
      BY <2>1, <2>3, <3>1 DEF OperatorOK, OpOK
    <3>5. /\ DOMAIN n = OpFields /\ n.do = b.do /\ n.for = b.for /\ n.user = b.user /\ n.email = b.email
          /\ n.before = b.before /\ n.alone = FALSE
      BY <3>2, <3>4 DEF OpFields
    <3>6. OpOK(n)
      BY <2>3, <3>1, <3>4, <3>5 DEF OpOK
    <3>7. OpOK(op[v])'
      BY <3>3, <3>6 DEF OpOK, Staff!Idle, Staff!Identities
    <3>8. InRegistry(op[v])' <=> registry' = v
      BY <2>1, <3>1, <3>3, <3>5 DEF OperatorOK, InRegistry
    <3>9. op'[v].do = "box" => ~Staff!HasBox(op[v].email)'
      BY <2>1, <3>1, <3>3, <3>5 DEF OperatorOK, Staff!HasBox
    <3>10. ~op'[v].alone
      BY <3>3, <3>5
    <3>11. QED
      BY <3>7, <3>8, <3>9, <3>10 DEF OperatorOK
  <2>4. QED
    BY <2>2, <2>3
<1>10. \A v \in Actors : AnswerOK(v)'
  BY <1>3 DEF AnswerOK, Staff!Idle
<1>11. QED
  BY <1>5, <1>6, <1>8, <1>9, <1>10 DEF AccountsInv

LEMMA Asking ==
    ASSUME AccountsInv, NEW w \in Actors,
           \/ \E u \in Users, e \in Emails, p \in Passwords : Staff!AddCheck(w, u, e, p)
           \/ \E u \in Users : \/ Staff!DeleteCheck(w, u)
                               \/ \E on \in BOOLEAN : Staff!StatusCheck(w, u, on)
                               \/ \E p \in Passwords : Staff!PasswordCheck(w, u, p)
    PROVE  AccountsInv'
<1>1. ASSUME NEW u \in Users, NEW e \in Emails, NEW p \in Passwords, Staff!AddCheck(w, u, e, p) PROVE AccountsInv'
  BY <1>1, OperationBegins DEF Staff!AddCheck, Staff!systemVars, Staff!fileVars
<1>2. ASSUME NEW u \in Users, Staff!DeleteCheck(w, u) PROVE AccountsInv'
  BY <1>2, OperationBegins DEF Staff!DeleteCheck, Staff!systemVars, Staff!fileVars
<1>3. ASSUME NEW u \in Users, NEW on \in BOOLEAN, Staff!StatusCheck(w, u, on) PROVE AccountsInv'
  BY <1>3, OperationBegins DEF Staff!StatusCheck, Staff!systemVars, Staff!fileVars
<1>4. ASSUME NEW u \in Users, NEW p \in Passwords, Staff!PasswordCheck(w, u, p) PROVE AccountsInv'
  BY <1>4, OperationBegins DEF Staff!PasswordCheck, Staff!systemVars, Staff!fileVars
<1>5. QED
  BY <1>1, <1>2, <1>3, <1>4

LEMMA Browsing ==
    ASSUME AccountsInv, NEW b \in Browsers, Staff!BrowserStep(b) PROVE AccountsInv'
<1>1. UNCHANGED <<account, record, managed, boxes, registry, op, answer>>
  BY DEF Staff!BrowserStep, Staff!Authenticate, Staff!CreateSession, Staff!Request, Staff!EndSession, Staff!systemVars,
         Staff!fileVars
<1>2. QED
  BY <1>1, AccountsAside

LEMMA AccountsStep ==
    ASSUME AccountsInv, Staff!AccountConstants, Staff!AccountsNext PROVE AccountsInv'
<1>1. ASSUME NEW w \in Actors, Staff!OperatorStep(w) PROVE AccountsInv'
  BY <1>1, Asking, CreatingAccount, SettingPassword, AddingRecord, EnsuringMaildir, RegisteringUser, RegisteringBox,
     DroppingRecords, RemovingAccount, FindingAddress, UnregisteringUser, UnregisteringBox, LockingAccount, Bumping,
     KeepingPrevious, ReplacingRecord, RestoringRecord DEF Staff!OperatorStep
<1>2. ASSUME Staff!Tick PROVE AccountsInv'
  BY <1>2, AccountsAside DEF Staff!Tick, Staff!systemVars, Staff!fileVars
<1>3. QED
  BY <1>1, <1>2, Browsing DEF Staff!AccountsNext

LEMMA AccountsInits ==
    ASSUME Staff!AccountConstants, Staff!AccountsInit PROVE AccountsInv
<1>1. AccountsShaped
  BY DEF Staff!AccountsInit, AccountsShaped, FilesShaped
<1>2. DOMAIN boxes = {}
  BY DEF Staff!AccountsInit
<1>3. BoxesOK
  BY <1>2 DEF BoxesOK, Staff!OneMailboxPerAddress
<1>4. ASSUME NEW w \in Actors PROVE OperatorOK(w) /\ AnswerOK(w)
  <2>1. op[w] = Staff!Idle /\ answer[w] = Staff!Idle /\ registry # w /\ op[w].do = "idle"
    BY DEF Staff!AccountsInit, Staff!AccountConstants, Staff!Idle
  <2>2. QED
    BY <2>1 DEF OperatorOK, AnswerOK, OpOK, InRegistry
<1>5. QED
  BY <1>1, <1>3, <1>4 DEF AccountsInv

LEMMA AccountsSound ==
    ASSUME AccountsInv PROVE Staff!OneMailboxPerAddress /\ Staff!AnswerTrue
<1>1. ASSUME NEW w \in Actors, answer[w] # Staff!Idle, answer[w].alone PROVE ClaimTrue(answer[w])
  BY <1>1 DEF AccountsInv, AnswerOK
<1>2. Staff!AnswerTrue
  BY <1>1 DEF Staff!AnswerTrue, ClaimTrue
<1>3. QED
  BY <1>2 DEF AccountsInv, BoxesOK

\* For any number of operators, users and addresses: an address has one mailbox however
\* two users.add interleave, and an operation that no other overlapped answers what
\* happened: added with that password on both sides, deleted with its mailboxes, changed
\* on both sides, or refused and changed on neither, whichever step failed and was rolled
\* back.
THEOREM AccountsAnswerTrue ==
    ASSUME Staff!AccountConstants PROVE Staff!Spec => [](Staff!OneMailboxPerAddress /\ Staff!AnswerTrue)
<1>1. Staff!AccountsInit => AccountsInv
  BY AccountsInits
<1>2. AccountsInv /\ [Staff!AccountsNext]_Staff!accountVars => AccountsInv'
  BY AccountsStep, AccountsAside DEF Staff!accountVars, Staff!systemVars, Staff!fileVars
<1>3. AccountsInv => Staff!OneMailboxPerAddress /\ Staff!AnswerTrue
  BY AccountsSound
<1>4. QED
  BY <1>1, <1>2, <1>3, PTL DEF Staff!Spec

-----------------------------------------------------------------------------
(***************************************************************************)
(* Calls of the privileged helper (PrivHelper), for any number of calls    *)
(* and workers and in either mode. The action counts one run at most       *)
(* because the caller turns to sudo only when the socket has started       *)
(* nothing and never will.                                                 *)
(***************************************************************************)
HelperType ==
    /\ request \in [Actors -> [action : Helper!Actions, confirm : BOOLEAN]]
    /\ stage \in [Actors -> {"new", "connect", "exchange", "sudo", "waiting", "done"}]
    /\ helperAnswer \in [Actors -> {Helper!NoAnswer, "ok", "business", "timeout", "unavailable"}]
    /\ conn \in [Actors -> {"none", "backlog", "reading", "working", "orphan", "ok", "failed", "closed"}]
    /\ work \in [Actors -> {"none", "running", "ended"}]
    /\ ran \in [Actors -> [Ro : Nat, Rw : Nat]]

\* What the connection says of the action: nothing was started before the
\* request is read, something was once a handler works or has answered, and
\* sudo is not involved.  Only a caller that ran into its deadline leaves a
\* connection behind.
SocketKnows(c) ==
    /\ conn[c] \in {"backlog", "reading", "closed"} => ran[c].Ro = 0
    /\ conn[c] \in {"working", "orphan", "ok"} => ran[c].Ro = 1
    /\ conn[c] # "none" => ran[c].Rw = 0 /\ helperAnswer[c] \in {Helper!NoAnswer, "timeout"}

\* What the stage of the call says of it: sudo is only tried when the socket
\* has started nothing and never will.
CallerKnows(c) ==
    /\ stage[c] # "done" => helperAnswer[c] = Helper!NoAnswer
    /\ stage[c] \in {"new", "connect", "sudo"} => ran[c].Ro = 0 /\ ran[c].Rw = 0 /\ conn[c] = "none"
    /\ stage[c] = "waiting" => ran[c].Ro = 0 /\ ran[c].Rw = 1 /\ conn[c] = "none"

HelperInv == HelperType /\ Helper!RunsAtMostOnce /\ \A c \in Actors : SocketKnows(c) /\ CallerKnows(c)

OnceOnly(c) ==
    /\ ran[c].Ro + ran[c].Rw <= 1
    /\ helperAnswer[c] = "unavailable" => ran[c].Ro + ran[c].Rw = 0
    /\ helperAnswer[c] = "ok" => ran[c].Ro + ran[c].Rw = 1
    /\ ran[c].Ro > 0 => ~Helper!IsRw(request[c].action)
    /\ ran[c].Ro + ran[c].Rw > 0 =>
          Helper!IsAllowed(request[c].action) /\ (request[c].action = "destroy" => request[c].confirm)

LEMMA OnceIsOnceOnly == Helper!RunsAtMostOnce <=> \A c \in Actors : OnceOnly(c)
  BY DEF Helper!RunsAtMostOnce, OnceOnly

\* Starting an action counts one more of its runs.
LEMMA StartCounts ==
  ASSUME HelperType, NEW c \in Actors, NEW face \in {"Ro", "Rw"}, Helper!Start(c, face)
  PROVE  ran' \in [Actors -> [Ro : Nat, Rw : Nat]] /\ work' \in [Actors -> {"none", "running", "ended"}]
<1>1. ran[c] \in [Ro : Nat, Rw : Nat]
  BY DEF HelperType
<1>2. [ran[c] EXCEPT ![face] = ran[c][face] + 1] \in [Ro : Nat, Rw : Nat]
  BY <1>1
<1>3. ran' = [ran EXCEPT ![c] = [ran[c] EXCEPT ![face] = ran[c][face] + 1]]
  BY DEF Helper!Start, HelperType
<1>. QED
  BY <1>2, <1>3 DEF Helper!Start, Helper!Set, HelperType

LEMMA HelperTypeNext ==
  ASSUME HelperType, NEW c \in Actors, Helper!Step(c)
  PROVE  HelperType'
<1> USE DEF HelperType, Helper!NoAnswer
<1>1. CASE Helper!Call(c) \/ Helper!Connected(c) \/ Helper!Accept(c) \/ Helper!ReadEnds(c) \/ Helper!ExecTimesOut(c)
  BY <1>1 DEF Helper!Call, Helper!Connected, Helper!Accept, Helper!ReadEnds, Helper!ExecTimesOut, Helper!Set
<1>2. CASE Helper!ConnectFails(c)
  BY <1>2 DEF Helper!ConnectFails, Helper!SocketFailed, Helper!Finish, Helper!Set
<1>3. CASE Helper!SpawnFails(c) \/ Helper!SudoTimesOut(c)
  BY <1>3 DEF Helper!SpawnFails, Helper!SudoTimesOut, Helper!Finish, Helper!Set
<1>4. CASE Helper!SudoAnswers(c)
  BY <1>4 DEF Helper!SudoAnswers, Helper!Finish, Helper!Set
<1>5. CASE Helper!ReadsAnswer(c) \/ Helper!ExchangeTimesOut(c)
  BY <1>5 DEF Helper!ReadsAnswer, Helper!ExchangeTimesOut, Helper!SocketFailed, Helper!Finish, Helper!Set
<1>6. CASE Helper!ServeRequest(c)
  <2>1. ran' \in [Actors -> [Ro : Nat, Rw : Nat]] /\ work' \in [Actors -> {"none", "running", "ended"}]
    <3>1. CASE Helper!Start(c, "Ro")
      BY <3>1, StartCounts
    <3>2. CASE UNCHANGED <<work, ran>>
      BY <3>2
    <3>. QED
      BY <1>6, <3>1, <3>2 DEF Helper!ServeRequest
  <2>. QED
    BY <1>6, <2>1 DEF Helper!ServeRequest, Helper!Set
<1>7. CASE Helper!HandlerEnds(c)
  BY <1>7 DEF Helper!HandlerEnds, Helper!Set
<1>8. CASE Helper!SudoRuns(c)
  <2>1. ran' \in [Actors -> [Ro : Nat, Rw : Nat]] /\ work' \in [Actors -> {"none", "running", "ended"}]
    <3>1. CASE Helper!Start(c, "Rw")
      BY <3>1, StartCounts
    <3>2. CASE UNCHANGED <<work, ran>>
      BY <3>2
    <3>. QED
      BY <1>8, <3>1, <3>2 DEF Helper!SudoRuns
  <2>. QED
    BY <1>8, <2>1 DEF Helper!SudoRuns, Helper!Finish, Helper!Set
<1>. QED
  BY <1>1, <1>2, <1>3, <1>4, <1>5, <1>6, <1>7, <1>8 DEF Helper!Step

\* A step of one call leaves the others alone.
LEMMA OthersAlone ==
  ASSUME HelperType, NEW c \in Actors, Helper!Step(c), NEW d \in Actors, d # c
  PROVE  /\ stage'[d] = stage[d] /\ helperAnswer'[d] = helperAnswer[d] /\ conn'[d] = conn[d] /\ ran'[d] = ran[d]
         /\ request' = request
<1> USE DEF HelperType, Helper!Set
<1>1. CASE Helper!Call(c) \/ Helper!Connected(c) \/ Helper!Accept(c) \/ Helper!ReadEnds(c) \/ Helper!ExecTimesOut(c)
  BY <1>1 DEF Helper!Call, Helper!Connected, Helper!Accept, Helper!ReadEnds, Helper!ExecTimesOut
<1>2. CASE Helper!ConnectFails(c) \/ Helper!SpawnFails(c) \/ Helper!SudoAnswers(c) \/ Helper!SudoTimesOut(c)
  BY <1>2 DEF Helper!ConnectFails, Helper!SpawnFails, Helper!SudoAnswers, Helper!SudoTimesOut, Helper!SocketFailed, Helper!Finish
<1>3. CASE Helper!ReadsAnswer(c) \/ Helper!ExchangeTimesOut(c)
  BY <1>3 DEF Helper!ReadsAnswer, Helper!ExchangeTimesOut, Helper!SocketFailed, Helper!Finish
<1>4. CASE Helper!ServeRequest(c)
  BY <1>4 DEF Helper!ServeRequest, Helper!Start
<1>5. CASE Helper!HandlerEnds(c)
  BY <1>5 DEF Helper!HandlerEnds
<1>6. CASE Helper!SudoRuns(c)
  BY <1>6 DEF Helper!SudoRuns, Helper!Start, Helper!Finish
<1>. QED
  BY <1>1, <1>2, <1>3, <1>4, <1>5, <1>6 DEF Helper!Step

LEMMA CallKept ==
  ASSUME HelperType, NEW c \in Actors, OnceOnly(c), SocketKnows(c), CallerKnows(c), Helper!Step(c)
  PROVE  OnceOnly(c)' /\ SocketKnows(c)' /\ CallerKnows(c)'
<1> USE DEF HelperType, OnceOnly, SocketKnows, CallerKnows, Helper!Set, Helper!NoAnswer
<1>1. CASE Helper!Call(c)
  BY <1>1 DEF Helper!Call
<1>2. CASE Helper!ConnectFails(c)
  BY <1>2 DEF Helper!ConnectFails, Helper!SocketFailed, Helper!Finish, Helper!MayFallbackToSudo
<1>3. CASE Helper!Connected(c)
  BY <1>3 DEF Helper!Connected
<1>4. CASE Helper!ReadsAnswer(c)
  BY <1>4 DEF Helper!ReadsAnswer, Helper!SocketFailed, Helper!Finish, Helper!MayFallbackToSudo
<1>5. CASE Helper!ExchangeTimesOut(c)
  BY <1>5 DEF Helper!ExchangeTimesOut, Helper!SocketFailed, Helper!Finish, Helper!MayFallbackToSudo
<1>6. CASE Helper!Accept(c)
  BY <1>6 DEF Helper!Accept
<1>7. CASE Helper!ServeRequest(c)
  BY <1>7 DEF Helper!ServeRequest, Helper!Start, Helper!Gate, Helper!Reads
<1>8. CASE Helper!ReadEnds(c)
  BY <1>8 DEF Helper!ReadEnds
<1>9. CASE Helper!HandlerEnds(c)
  BY <1>9 DEF Helper!HandlerEnds
<1>10. CASE Helper!ExecTimesOut(c)
  BY <1>10 DEF Helper!ExecTimesOut
<1>11. CASE Helper!SpawnFails(c)
  BY <1>11 DEF Helper!SpawnFails, Helper!Finish
<1>12. CASE Helper!SudoRuns(c)
  BY <1>12 DEF Helper!SudoRuns, Helper!Start, Helper!Finish, Helper!Gate
<1>13. CASE Helper!SudoAnswers(c) \/ Helper!SudoTimesOut(c)
  BY <1>13 DEF Helper!SudoAnswers, Helper!SudoTimesOut, Helper!Finish
<1>. QED
  BY <1>1, <1>2, <1>3, <1>4, <1>5, <1>6, <1>7, <1>8, <1>9, <1>10, <1>11, <1>12, <1>13 DEF Helper!Step

\* Whatever deadline fires first, however many calls share however many
\* workers: an action is started at most once, never after "unavailable",
\* and never past a gate (PrivilegedCaller::call, ActionGate::evaluate).
THEOREM AlwaysRunsAtMostOnce == Helper!Spec => []Helper!RunsAtMostOnce
<1>1. Helper!HelperInit => HelperInv
  BY DEF Helper!HelperInit, HelperInv, HelperType, Helper!RunsAtMostOnce, SocketKnows, CallerKnows, Helper!NoAnswer
<1>2. HelperInv /\ [Helper!HelperNext]_(Helper!helperVars) => HelperInv'
  <2> SUFFICES ASSUME HelperInv, [Helper!HelperNext]_(Helper!helperVars) PROVE HelperInv'
    OBVIOUS
  <2>1. CASE UNCHANGED Helper!helperVars
    BY <2>1 DEF Helper!helperVars, HelperInv, HelperType, Helper!RunsAtMostOnce, SocketKnows, CallerKnows
  <2>2. CASE Helper!HelperNext
    <3>1. PICK c \in Actors : Helper!Step(c)
      BY <2>2 DEF Helper!HelperNext
    <3>2. HelperType'
      BY <3>1, HelperTypeNext DEF HelperInv
    <3>3. ASSUME NEW d \in Actors PROVE OnceOnly(d)' /\ SocketKnows(d)' /\ CallerKnows(d)'
      <4>1. OnceOnly(d) /\ SocketKnows(d) /\ CallerKnows(d)
        BY OnceIsOnceOnly DEF HelperInv
      <4>2. CASE d = c
        BY <3>1, <4>1, <4>2, CallKept DEF HelperInv
      <4>3. CASE d # c
        BY <3>1, <4>1, <4>3, OthersAlone DEF HelperInv, OnceOnly, SocketKnows, CallerKnows
      <4>. QED
        BY <4>2, <4>3
    <3>4. Helper!RunsAtMostOnce'
      BY <3>3 DEF Helper!RunsAtMostOnce, OnceOnly
    <3>. QED
      BY <3>2, <3>3, <3>4 DEF HelperInv
  <2>. QED
    BY <2>1, <2>2
<1>3. HelperInv => Helper!RunsAtMostOnce
  BY DEF HelperInv
<1>. QED
  BY <1>1, <1>2, <1>3, PTL DEF Helper!Spec

-----------------------------------------------------------------------------
(***************************************************************************)
(* Backup and restore (Backup). While a restore lands its files one by     *)
(* one, each file is as in the archive if it has landed and as before      *)
(* otherwise, and the originals are kept; so a roll-back restores all of   *)
(* it.                                                                     *)
(***************************************************************************)
\* The files an archive holds, by its metadata.
MembersOf(n) == notes[n].sha256.members

\* The files when all but todo have landed.
Merged(files, members, todo, old) ==
    \A f \in Files : files[f] = IF f \in DOMAIN members \ todo THEN members[f] ELSE old[f]

\* What is kept for the roll-back is what was there before.
Originals ==
    /\ \A f \in DOMAIN backupOp.saved : backupOp.saved[f] = before[f]
    /\ \A f \in backupOp.created : before[f] = Archive!Absent

\* The fields of a restore.
RestoreFields == {"do", "from", "todo", "saved", "created", "encrypted"}

\* While files land.
LandingOK ==
    backupOp.do = "land" =>
        /\ DOMAIN backupOp = RestoreFields /\ ~warned
        /\ backupOp.from \in DOMAIN notes /\ archives[backupOp.from] = notes[backupOp.from].sha256 /\ DOMAIN MembersOf(backupOp.from) \subseteq Files
        /\ Merged(disk, MembersOf(backupOp.from), backupOp.todo, before) /\ backupOp.todo \subseteq DOMAIN MembersOf(backupOp.from)
        /\ Originals /\ DOMAIN backupOp.saved \cup backupOp.created = DOMAIN MembersOf(backupOp.from) \ backupOp.todo

\* While they are put back.
RollingBackOK ==
    backupOp.do = "rollback" =>
        /\ DOMAIN backupOp = RestoreFields /\ Originals
        /\ ~warned => \A f \in Files \ (DOMAIN backupOp.saved \cup backupOp.created) : disk[f] = before[f]

\* While an archive is written, the snapshot before a restore included.
NotingOK ==
    backupOp.do \in {"encrypt", "note"} =>
        /\ "name" \in DOMAIN backupOp /\ "for" \in DOMAIN backupOp /\ backupOp.for \in {"create", "restore"}
        /\ backupOp.for = "restore" =>
              /\ backupOp.name = Archive!Snapshot /\ backupOp.from \in DOMAIN notes
              /\ backupOp.from # Archive!Snapshot => Merged(disk, MembersOf(backupOp.from), {}, before)

\* The inductive invariant.
BackupInv ==
    /\ disk = [f \in Files |-> disk[f]] /\ before = [f \in Files |-> before[f]]
    /\ warned \in BOOLEAN /\ "do" \in DOMAIN backupOp
    /\ backupOp.do \in {"idle", "land", "rollback", "encrypt", "note"}
    /\ backupOp.do # "idle" => report = Archive!Nothing
    /\ LandingOK /\ RollingBackOK /\ NotingOK
    /\ Archive!RestoreExact

\* A step that answers
LEMMA AnswerEnds ==
    ASSUME BackupInv, backupOp' = Archive!Idle, warned' \in BOOLEAN,
           disk' = [f \in Files |-> disk'[f]], before' = [f \in Files |-> before'[f]],
           report'.is = "restored" /\ report'.name # Archive!Snapshot => Merged(disk', notes'[report'.name].sha256.members, {}, before'),
           report'.is = "failed" /\ ~warned' => \A f \in Files : disk'[f] = before'[f]
    PROVE  BackupInv'
<1>1. "do" \in DOMAIN backupOp' /\ backupOp'.do = "idle"
  BY DEF Archive!Idle
<1>2. Archive!RestoreExact'
  <2>1. ASSUME report'.is = "restored", report'.name # Archive!Snapshot
        PROVE LET members == notes'[report'.name].sha256.members
              IN  disk' = [f \in Files |-> IF f \in DOMAIN members THEN members[f] ELSE before'[f]]
    <3> DEFINE members == notes'[report'.name].sha256.members
    <3>1. \A f \in Files : disk'[f] = IF f \in DOMAIN members THEN members[f] ELSE before'[f]
      BY <2>1 DEF Merged
    <3>2. disk' = [f \in Files |-> disk'[f]]
      OBVIOUS
    <3> HIDE DEF members
    <3>3. disk' = [f \in Files |-> IF f \in DOMAIN members THEN members[f] ELSE before'[f]]
      BY <3>1, <3>2
    <3>4. QED
      BY <3>3 DEF members
  <2>2. ASSUME report'.is = "failed", ~warned'
        PROVE disk' = before'
    BY <2>2
  <2>3. QED
    BY <2>1, <2>2 DEF Archive!RestoreExact
<1>3. QED
  BY <1>1, <1>2 DEF BackupInv, LandingOK, RollingBackOK, NotingOK

\* A step that goes on
LEMMA GoesOn ==
    ASSUME BackupInv, warned' \in BOOLEAN, "do" \in DOMAIN backupOp', backupOp'.do \in {"land", "rollback", "encrypt", "note"},
           disk' = [f \in Files |-> disk'[f]], before' = [f \in Files |-> before'[f]],
           report' = Archive!Nothing, LandingOK', RollingBackOK', NotingOK'
    PROVE  BackupInv'
<1>1. Archive!RestoreExact'
  BY DEF Archive!RestoreExact, Archive!Nothing
<1>2. QED
  BY <1>1 DEF BackupInv

LEMMA BackupGoesOn ==
    ASSUME BackupInv, Archive!Change, UNCHANGED <<backupOp, before, warned>>, disk' = [f \in Files |-> disk'[f]]
    PROVE  BackupInv'
<1>1. backupOp' = Archive!Idle /\ report' = Archive!Nothing
  BY DEF Archive!Change
<1>2. report'.is = "nothing"
  BY <1>1 DEF Archive!Nothing
<1>3. QED
  BY <1>1, <1>2, AnswerEnds DEF BackupInv

LEMMA CreatingArchive ==
    ASSUME BackupInv,
           NEW n, NEW secrets, NEW partial, NEW passphrase, NEW unreadable,
           Archive!BackupCreate(n, secrets, partial, passphrase, unreadable)
    PROVE  BackupInv'
<1>1. UNCHANGED <<disk, before, warned>>
  BY DEF Archive!BackupCreate, Archive!Refuse
<1>2. \/ backupOp' = Archive!Idle /\ report' = [is |-> "error"]
      \/ /\ backupOp' = [do |-> IF passphrase THEN "encrypt" ELSE "note", name |-> n,
                   partial |-> unreadable # {}, encrypted |-> passphrase, for |-> "create"]
         /\ report' = Archive!Nothing
  BY DEF Archive!BackupCreate, Archive!Refuse, Archive!Answer
<1>3. CASE backupOp' = Archive!Idle /\ report' = [is |-> "error"]
  <2>1. report'.is = "error"
    BY <1>3
  <2>2. QED
    BY <1>1, <1>3, <2>1, AnswerEnds DEF BackupInv
<1>4. CASE /\ backupOp' = [do |-> IF passphrase THEN "encrypt" ELSE "note", name |-> n,
                     partial |-> unreadable # {}, encrypted |-> passphrase, for |-> "create"]
           /\ report' = Archive!Nothing
  <2>1. "do" \in DOMAIN backupOp' /\ backupOp'.do \in {"encrypt", "note"} /\ "name" \in DOMAIN backupOp' /\ "for" \in DOMAIN backupOp' /\ backupOp'.for = "create"
    BY <1>4
  <2>2. LandingOK' /\ RollingBackOK' /\ NotingOK'
    BY <2>1 DEF LandingOK, RollingBackOK, NotingOK
  <2>3. QED
    BY <1>1, <1>4, <2>1, <2>2, GoesOn DEF BackupInv
<1>5. QED
  BY <1>2, <1>3, <1>4

LEMMA GivingUpBackup ==
    ASSUME BackupInv, backupOp.do \in {"encrypt", "note"}, UNCHANGED <<disk, before, warned>>, backupOp' = Archive!Idle,
           backupOp.for # "create" => \A n \in DOMAIN notes : n # Archive!Snapshot => notes'[n] = notes[n],
           \/ backupOp.for = "create" /\ report'.is \in {"error", "created"}
           \/ backupOp.for # "create" /\ \E b \in BOOLEAN : report' = Archive!Restored(b)
    PROVE  BackupInv'
<1>1. CASE backupOp.for = "create"
  <2>1. report'.is \in {"error", "created"}
    BY <1>1
  <2>2. QED
    BY <2>1, AnswerEnds DEF BackupInv
<1>2. CASE backupOp.for # "create"
  <2>1. report'.is = "restored" /\ report'.name = backupOp.from
    BY <1>2 DEF Archive!Restored
  <2>2. ASSUME backupOp.from # Archive!Snapshot
        PROVE Merged(disk, MembersOf(backupOp.from), {}, before) /\ notes'[backupOp.from] = notes[backupOp.from]
    BY <1>2, <2>2 DEF BackupInv, NotingOK
  <2>3. report'.name # Archive!Snapshot => Merged(disk', notes'[report'.name].sha256.members, {}, before')
    <3>1. ASSUME backupOp.from # Archive!Snapshot
          PROVE Merged(disk', notes'[backupOp.from].sha256.members, {}, before')
      <4>1. notes'[backupOp.from].sha256.members = MembersOf(backupOp.from) /\ disk' = disk /\ before' = before
        BY <2>2, <3>1 DEF MembersOf
      <4>2. QED
        BY <2>2, <3>1, <4>1
    <3>2. QED
      BY <2>1, <3>1
  <2>4. QED
    BY <2>1, <2>3, AnswerEnds DEF BackupInv
<1>3. QED
  BY <1>1, <1>2

LEMMA EncryptingArchive ==
    ASSUME BackupInv, Archive!Encrypt \/ Archive!EncryptNotStarted
    PROVE  BackupInv'
<1>1. backupOp.do = "encrypt" /\ UNCHANGED <<disk, before, warned, notes>>
  BY DEF Archive!Encrypt, Archive!EncryptNotStarted
<1>2. "name" \in DOMAIN backupOp /\ "for" \in DOMAIN backupOp /\ backupOp.for \in {"create", "restore"}
  BY <1>1 DEF BackupInv, NotingOK
<1>3. CASE Archive!Then("note")
  <2>1. backupOp' = [backupOp EXCEPT !.do = "note"] /\ UNCHANGED report
    BY <1>3 DEF Archive!Then
  <2>2. "do" \in DOMAIN backupOp' /\ backupOp'.do = "note" /\ DOMAIN backupOp' = DOMAIN backupOp /\ backupOp'.name = backupOp.name /\ backupOp'.for = backupOp.for /\ backupOp'.from = backupOp.from
    BY <1>1, <2>1 DEF BackupInv
  <2>3. LandingOK' /\ RollingBackOK'
    BY <2>2 DEF LandingOK, RollingBackOK
  <2>4. NotingOK'
    BY <1>1, <1>2, <2>2 DEF BackupInv, NotingOK, Merged, MembersOf
  <2>5. QED
    BY <1>1, <2>1, <2>2, <2>3, <2>4, GoesOn DEF BackupInv
<1>4. CASE Archive!GiveUp
  <2>1. backupOp' = Archive!Idle /\ report' = IF backupOp.for = "create" THEN [is |-> "error"] ELSE Archive!Restored(FALSE)
    BY <1>4 DEF Archive!GiveUp, Archive!Answer
  <2>2. \/ backupOp.for = "create" /\ report'.is \in {"error", "created"}
        \/ backupOp.for # "create" /\ \E b \in BOOLEAN : report' = Archive!Restored(b)
    BY <2>1
  <2>3. QED
    BY <1>1, <2>1, <2>2, GivingUpBackup
<1>5. QED
  BY <1>3, <1>4 DEF Archive!Encrypt, Archive!EncryptNotStarted

LEMMA MetadataWritten ==
    ASSUME BackupInv, Archive!WriteMetadata
    PROVE  BackupInv'
<1>1. backupOp.do = "note" /\ UNCHANGED <<disk, before, warned>>
  BY DEF Archive!WriteMetadata
<1>2. /\ backupOp.for \in {"create", "restore"}
      /\ backupOp.for = "restore" => backupOp.name = Archive!Snapshot
  BY <1>1 DEF BackupInv, NotingOK
<1>3. /\ backupOp' = Archive!Idle
      /\ report' \in {[is |-> "created", name |-> backupOp.name], [is |-> "error"]} \/ backupOp.for # "create"
      /\ report' = Archive!Restored(TRUE) \/ backupOp.for = "create"
  BY DEF Archive!WriteMetadata, Archive!Answer
<1>4. ASSUME backupOp.for # "create", NEW n \in DOMAIN notes, n # Archive!Snapshot PROVE notes'[n] = notes[n]
  BY <1>2, <1>4 DEF Archive!WriteMetadata, Archive!Put
<1>5. \/ backupOp.for = "create" /\ report'.is \in {"error", "created"}
      \/ backupOp.for # "create" /\ \E b \in BOOLEAN : report' = Archive!Restored(b)
  <2>1. CASE backupOp.for = "create"
    <3>1. report' = [is |-> "created", name |-> backupOp.name] \/ report' = [is |-> "error"]
      BY <1>3, <2>1
    <3>2. QED
      BY <2>1, <3>1
  <2>2. CASE backupOp.for # "create"
    BY <1>3, <2>2
  <2>3. QED
    BY <2>1, <2>2
<1>6. QED
  BY <1>1, <1>3, <1>4, <1>5, GivingUpBackup

LEMMA DeletingArchive ==
    ASSUME BackupInv, NEW n, Archive!BackupDelete(n)
    PROVE  BackupInv'
<1>1. UNCHANGED <<disk, before, warned>> /\ backupOp' = Archive!Idle /\ report' \in {[is |-> "deleted"], [is |-> "error"]}
  BY DEF Archive!BackupDelete, Archive!Answer
<1>2. report'.is \in {"deleted", "error"}
  BY <1>1
<1>3. QED
  BY <1>1, <1>2, AnswerEnds DEF BackupInv

LEMMA RestoringArchive ==
    ASSUME BackupInv, NEW n, NEW passphrase, NEW partial, NEW dryRun, Archive!BackupRestore(n, passphrase, partial, dryRun)
    PROVE  BackupInv'
<1>1. UNCHANGED <<disk, archives, notes>> /\ before' = disk /\ warned' = FALSE
  BY DEF Archive!BackupRestore
<1>2. CASE backupOp' = Archive!Idle /\ report' \in {[is |-> "preview"], [is |-> "failed"]}
  <2>1. report'.is \in {"preview", "failed"}
    BY <1>2
  <2>2. QED
    BY <1>1, <1>2, <2>1, AnswerEnds DEF BackupInv
<1>3. CASE /\ Archive!Verified(n, passphrase, partial) /\ Archive!ValidateArchive(n)
           /\ backupOp' = [do |-> "land", from |-> n, todo |-> DOMAIN archives[n].members,
                     saved |-> [f \in {} |-> Archive!Absent], created |-> {}, encrypted |-> passphrase]
           /\ report' = Archive!Nothing
  <2>1. n \in DOMAIN notes /\ archives[n] = notes[n].sha256 /\ DOMAIN archives[n].members \subseteq Files
    BY <1>3 DEF Archive!Verified, Archive!ValidateArchive
  <2>2. /\ "do" \in DOMAIN backupOp' /\ backupOp'.do = "land" /\ DOMAIN backupOp' = RestoreFields /\ backupOp'.from = n
        /\ backupOp'.todo = DOMAIN archives[n].members /\ DOMAIN backupOp'.saved = {} /\ backupOp'.created = {}
    BY <1>3 DEF RestoreFields
  <2>3. LandingOK'
    BY <1>1, <2>1, <2>2 DEF LandingOK, MembersOf, Merged, Originals
  <2>4. RollingBackOK' /\ NotingOK'
    BY <2>2 DEF RollingBackOK, NotingOK
  <2>5. QED
    BY <1>1, <1>3, <2>2, <2>3, <2>4, GoesOn DEF BackupInv
<1>4. QED
  BY <1>2, <1>3 DEF Archive!BackupRestore, Archive!Answer

\* What a target that is about to be overwritten leaves in op.
Noted(f) ==
    /\ backupOp'.saved = IF disk[f] = Archive!Absent THEN backupOp.saved ELSE Archive!Put(backupOp.saved, f, disk[f])
    /\ backupOp'.created = IF disk[f] = Archive!Absent THEN backupOp.created \cup {f} ELSE backupOp.created

LEMMA OriginalNoted ==
    ASSUME LandingOK, backupOp.do = "land", NEW f \in backupOp.todo, Noted(f), UNCHANGED before
    PROVE  Originals' /\ DOMAIN backupOp'.saved \cup backupOp'.created = (DOMAIN backupOp.saved \cup backupOp.created) \cup {f}
<1>1. f \in Files /\ disk[f] = before[f] /\ Originals
  BY DEF LandingOK, Merged
<1>2. CASE disk[f] = Archive!Absent
  BY <1>1, <1>2 DEF Originals, Noted
<1>3. CASE disk[f] # Archive!Absent
  BY <1>1, <1>3 DEF Originals, Noted, Archive!Put
<1>4. QED
  BY <1>2, <1>3

LEMMA OneLands ==
    ASSUME BackupInv, NEW f \in Files, Archive!LandOne(f)
    PROVE  BackupInv'
<1>1. /\ backupOp.do = "land" /\ f \in backupOp.todo /\ disk' = [disk EXCEPT ![f] = archives[backupOp.from].members[f]]
      /\ UNCHANGED <<archives, notes, report, before, warned>>
  BY DEF Archive!LandOne
<1>2. /\ DOMAIN backupOp = RestoreFields /\ ~warned /\ backupOp.from \in DOMAIN notes /\ archives[backupOp.from] = notes[backupOp.from].sha256
      /\ DOMAIN MembersOf(backupOp.from) \subseteq Files /\ Merged(disk, MembersOf(backupOp.from), backupOp.todo, before)
      /\ backupOp.todo \subseteq DOMAIN MembersOf(backupOp.from) /\ Originals
      /\ DOMAIN backupOp.saved \cup backupOp.created = DOMAIN MembersOf(backupOp.from) \ backupOp.todo /\ LandingOK
  BY <1>1 DEF BackupInv, LandingOK
<1>3. /\ DOMAIN backupOp' = RestoreFields /\ backupOp'.do = "land" /\ backupOp'.from = backupOp.from /\ backupOp'.todo = backupOp.todo \ {f} /\ Noted(f)
  BY <1>1, <1>2 DEF Archive!LandOne, RestoreFields, Noted
<1>4. Originals' /\ DOMAIN backupOp'.saved \cup backupOp'.created = (DOMAIN backupOp.saved \cup backupOp.created) \cup {f}
  BY <1>1, <1>2, <1>3, OriginalNoted
<1>5. disk' = [x \in Files |-> disk'[x]] /\ disk'[f] = MembersOf(backupOp.from)[f] /\ \A x \in Files \ {f} : disk'[x] = disk[x]
  BY <1>1, <1>2 DEF BackupInv, MembersOf
<1>6. Merged(disk', MembersOf(backupOp.from), backupOp.todo \ {f}, before)
  BY <1>1, <1>2, <1>5 DEF Merged
<1>7. MembersOf(backupOp.from)' = MembersOf(backupOp.from)
  BY <1>1, <1>3 DEF MembersOf
<1>8. LandingOK'
  BY <1>1, <1>2, <1>3, <1>4, <1>6, <1>7 DEF LandingOK
<1>9. RollingBackOK' /\ NotingOK'
  BY <1>3 DEF RollingBackOK, NotingOK
<1>10. QED
  BY <1>1, <1>3, <1>5, <1>8, <1>9, GoesOn DEF BackupInv, RestoreFields

LEMMA OneFails ==
    ASSUME BackupInv, NEW f \in Files, Archive!LandingFails(f)
    PROVE  BackupInv'
<1>1. backupOp.do = "land" /\ f \in backupOp.todo /\ UNCHANGED <<archives, notes, report, before, warned>>
  BY DEF Archive!LandingFails
<1>2. /\ DOMAIN backupOp = RestoreFields /\ ~warned /\ Merged(disk, MembersOf(backupOp.from), backupOp.todo, before)
      /\ backupOp.todo \subseteq DOMAIN MembersOf(backupOp.from) /\ Originals
      /\ DOMAIN backupOp.saved \cup backupOp.created = DOMAIN MembersOf(backupOp.from) \ backupOp.todo /\ LandingOK
  BY <1>1 DEF BackupInv, LandingOK
<1>3. \A x \in Files \ (DOMAIN backupOp.saved \cup backupOp.created) : disk[x] = before[x]
  BY <1>2 DEF Merged
<1>4. SUFFICES /\ DOMAIN backupOp' = RestoreFields /\ backupOp'.do = "rollback" /\ Originals'
               /\ \A x \in Files \ (DOMAIN backupOp'.saved \cup backupOp'.created) : disk'[x] = before[x]
               /\ disk' = [x \in Files |-> disk'[x]]
  <2>1. LandingOK' /\ NotingOK' /\ RollingBackOK'
    BY <1>1, <1>4 DEF LandingOK, NotingOK, RollingBackOK
  <2>2. QED
    BY <1>1, <1>4, <2>1, GoesOn DEF BackupInv, RestoreFields
<1>5. CASE backupOp' = Archive!RolledBack(backupOp) /\ UNCHANGED disk
  BY <1>1, <1>2, <1>3, <1>5 DEF Archive!RolledBack, RestoreFields, Originals, BackupInv
<1>6. CASE /\ disk' = [disk EXCEPT ![f] = "cut"]
           /\ backupOp' = Archive!RolledBack([backupOp EXCEPT
                        !.saved = IF disk[f] = Archive!Absent THEN backupOp.saved ELSE Archive!Put(backupOp.saved, f, disk[f]),
                        !.created = IF disk[f] = Archive!Absent THEN backupOp.created \cup {f} ELSE backupOp.created])
  <2>1. DOMAIN backupOp' = RestoreFields /\ backupOp'.do = "rollback" /\ Noted(f)
    BY <1>2, <1>6 DEF Archive!RolledBack, RestoreFields, Noted
  <2>2. Originals' /\ DOMAIN backupOp'.saved \cup backupOp'.created = (DOMAIN backupOp.saved \cup backupOp.created) \cup {f}
    BY <1>1, <1>2, <2>1, OriginalNoted
  <2>3. disk' = [x \in Files |-> disk'[x]] /\ \A x \in Files \ {f} : disk'[x] = disk[x]
    BY <1>6 DEF BackupInv
  <2>4. QED
    BY <1>3, <2>1, <2>2, <2>3
<1>7. QED
  BY <1>5, <1>6 DEF Archive!LandingFails

LEMMA OneRollsBack ==
    ASSUME BackupInv, NEW f \in Files, Archive!RollbackOne(f)
    PROVE  BackupInv'
<1>1. /\ backupOp.do = "rollback" /\ f \in DOMAIN backupOp.saved \cup backupOp.created /\ UNCHANGED <<archives, notes, report, before>>
      /\ backupOp' = [backupOp EXCEPT !.saved = Archive!Without(backupOp.saved, f), !.created = backupOp.created \ {f}]
  BY DEF Archive!RollbackOne
<1>2. /\ DOMAIN backupOp = RestoreFields /\ Originals
      /\ ~warned => \A x \in Files \ (DOMAIN backupOp.saved \cup backupOp.created) : disk[x] = before[x]
  BY <1>1 DEF BackupInv, RollingBackOK
<1>3. DOMAIN backupOp' = RestoreFields /\ backupOp'.do = "rollback" /\ backupOp'.saved = Archive!Without(backupOp.saved, f) /\ backupOp'.created = backupOp.created \ {f}
  BY <1>1, <1>2 DEF RestoreFields
<1>4. DOMAIN backupOp'.saved = DOMAIN backupOp.saved \ {f} /\ \A x \in DOMAIN backupOp'.saved : backupOp'.saved[x] = backupOp.saved[x]
  BY <1>3 DEF Archive!Without, Archive!Restrict
<1>5. Originals'
  BY <1>1, <1>2, <1>3, <1>4 DEF Originals
<1>6. /\ disk' = [x \in Files |-> disk'[x]] /\ warned' \in BOOLEAN
      /\ ~warned' => \A x \in Files \ (DOMAIN backupOp'.saved \cup backupOp'.created) : disk'[x] = before[x]
  <2>1. CASE warned' = TRUE /\ UNCHANGED disk
    BY <2>1 DEF BackupInv
  <2>2. CASE /\ disk' = [disk EXCEPT ![f] = IF f \in DOMAIN backupOp.saved THEN backupOp.saved[f] ELSE Archive!Absent]
             /\ UNCHANGED warned
    <3>1. disk' = [x \in Files |-> disk'[x]] /\ \A x \in Files \ {f} : disk'[x] = disk[x]
      BY <2>2 DEF BackupInv
    <3>2. disk'[f] = before[f]
      BY <1>1, <1>2, <2>2 DEF BackupInv, Originals
    <3>3. QED
      BY <1>2, <1>3, <1>4, <2>2, <3>1, <3>2 DEF BackupInv
  <2>3. QED
    BY <2>1, <2>2 DEF Archive!RollbackOne
<1>7. LandingOK' /\ NotingOK' /\ RollingBackOK'
  BY <1>1, <1>3, <1>5, <1>6 DEF LandingOK, NotingOK, RollingBackOK
<1>8. QED
  BY <1>1, <1>3, <1>6, <1>7, GoesOn DEF BackupInv, RestoreFields

LEMMA RollbackDone ==
    ASSUME BackupInv, Archive!RestoreFailed \/ Archive!Killed
    PROVE  BackupInv'
<1>1. UNCHANGED <<disk, before, warned, notes>> /\ backupOp' = Archive!Idle
  BY DEF Archive!RestoreFailed, Archive!Killed, Archive!Answer
<1>2. CASE Archive!RestoreFailed
  <2>1. backupOp.do = "rollback" /\ DOMAIN backupOp.saved \cup backupOp.created = {} /\ report' = [is |-> "failed"]
    BY <1>2 DEF Archive!RestoreFailed, Archive!Answer
  <2>2. ~warned => \A f \in Files : disk[f] = before[f]
    BY <2>1 DEF BackupInv, RollingBackOK
  <2>3. report'.is = "failed"
    BY <2>1
  <2>4. QED
    BY <1>1, <2>2, <2>3, AnswerEnds DEF BackupInv
<1>3. CASE Archive!Killed
  <2>1. report'.is = "nothing"
    BY <1>3 DEF Archive!Killed, Archive!Answer, Archive!Nothing
  <2>2. QED
    BY <1>1, <2>1, AnswerEnds DEF BackupInv
<1>4. QED
  BY <1>2, <1>3

LEMMA AllLanded ==
    ASSUME BackupInv, Archive!PreRestoreSnapshot
    PROVE  BackupInv'
<1>1. backupOp.do = "land" /\ backupOp.todo = {} /\ UNCHANGED <<disk, notes, before, warned>>
  BY DEF Archive!PreRestoreSnapshot
<1>2. Merged(disk, MembersOf(backupOp.from), {}, before) /\ backupOp.from \in DOMAIN notes
  BY <1>1 DEF BackupInv, LandingOK
<1>3. CASE /\ backupOp' = [do |-> IF backupOp.encrypted THEN "encrypt" ELSE "note", name |-> Archive!Snapshot, from |-> backupOp.from,
                      partial |-> FALSE, encrypted |-> backupOp.encrypted, for |-> "restore"]
           /\ UNCHANGED report
  <2>1. /\ backupOp'.do \in {"encrypt", "note"} /\ backupOp'.name = Archive!Snapshot /\ backupOp'.from = backupOp.from /\ backupOp'.for = "restore"
        /\ {"do", "name", "for"} \subseteq DOMAIN backupOp'
    BY <1>3
  <2>2. LandingOK' /\ RollingBackOK' /\ NotingOK'
    BY <1>1, <1>2, <2>1 DEF LandingOK, RollingBackOK, NotingOK, MembersOf
  <2>3. QED
    BY <1>1, <1>3, <2>1, <2>2, GoesOn DEF BackupInv
<1>4. CASE Archive!Answer(Archive!Restored(FALSE))
  <2>1. backupOp' = Archive!Idle /\ report'.is = "restored" /\ report'.name = backupOp.from
    BY <1>4 DEF Archive!Answer, Archive!Restored
  <2>2. QED
    BY <1>1, <1>2, <2>1, AnswerEnds DEF BackupInv, MembersOf
<1>5. QED
  BY <1>3, <1>4 DEF Archive!PreRestoreSnapshot

LEMMA BackupInits == Archive!BackupInit => BackupInv
<1>1. SUFFICES ASSUME Archive!BackupInit PROVE BackupInv
  OBVIOUS
<1>2. backupOp.do = "idle" /\ "do" \in DOMAIN backupOp /\ report.is = "nothing" /\ warned = FALSE
  BY <1>1 DEF Archive!BackupInit, Archive!Idle, Archive!Nothing
<1>3. disk = [f \in Files |-> disk[f]] /\ before = disk
  BY <1>1 DEF Archive!BackupInit
<1>4. QED
  BY <1>2, <1>3 DEF BackupInv, LandingOK, RollingBackOK, NotingOK, Archive!RestoreExact

\* For any files, archives and failures: a restore that reports success landed everything
\* its archive held when its checksum was taken and nothing else, and one that reports
\* failure left every file as it was, unless it warned that the roll-back could not write
\* one.
THEOREM RestoresExact == Archive!Spec => []Archive!RestoreExact
<1>1. BackupInv /\ [Archive!BackupNext]_(Archive!backupVars) => BackupInv'
  <2>1. SUFFICES ASSUME BackupInv, [Archive!BackupNext]_(Archive!backupVars) PROVE BackupInv'
    OBVIOUS
  <2>2. CASE UNCHANGED Archive!backupVars
    <3>1. UNCHANGED <<disk, archives, notes, backupOp, report, before, warned>>
      BY <2>2 DEF Archive!backupVars
    <3>2. QED
      BY <2>1, <3>1 DEF BackupInv, LandingOK, RollingBackOK, NotingOK, Originals, MembersOf, Archive!RestoreExact
  <2>3. ASSUME NEW n, NEW members, NEW form, Archive!Tamper(n, members, form) PROVE BackupInv'
    BY <2>1, <2>3, BackupGoesOn DEF Archive!Tamper, BackupInv
  <2>4. ASSUME NEW n, Archive!Import(n) PROVE BackupInv'
    BY <2>1, <2>4, BackupGoesOn DEF Archive!Import, BackupInv
  <2>5. ASSUME NEW f \in Files, NEW v, Archive!Edit(f, v) PROVE BackupInv'
    BY <2>1, <2>5, BackupGoesOn DEF Archive!Edit, BackupInv
  <2>6. QED
    BY <2>1, <2>2, <2>3, <2>4, <2>5, CreatingArchive, EncryptingArchive, MetadataWritten, DeletingArchive, RestoringArchive, OneLands, OneFails,
       OneRollsBack, RollbackDone, AllLanded DEF Archive!BackupNext
<1>2. BackupInv => Archive!RestoreExact
  BY DEF BackupInv
<1>3. QED
  BY <1>1, <1>2, BackupInits, PTL DEF Archive!Spec

-----------------------------------------------------------------------------
(***************************************************************************)
(* The smarthost (Relay). Under its lock a call writes the keys one after  *)
(* the other; the invariant says which of them are written, put back or    *)
(* cleared, whoever reads the document meanwhile.                          *)
(***************************************************************************)
\* Stored credentials belong to a relay, with its own user.
OwnCredentials(d) ==
    \/ d["credentials"] = Smart!NoCredentials
    \/ \E e \in Endpoints : d["credentials"] = [at |-> Smart!RelayHost(e), user |-> e.user]

\* The document.
DocOK(d) == d = [k \in Smart!DocKeys |-> d[k]] /\ OwnCredentials(d)

\* A call applies an endpoint that passed validation.
EnteredOK(c) == relayCall[c].e \in Endpoints /\ Smart!Valid(relayCall[c].e)

\* The keys relay.clear removes, in its order.
ClearedAt(i) == IF i = 7 THEN "credentials" ELSE Smart!AppliedKeys[i]

\* The stages under the lock.
UnderLock == {"write", "rollback", "answer", "clear"}

\* A call, stage by stage.
RelayCallOK(c) ==
    /\ "at" \in DOMAIN relayCall[c] /\ relayCall[c].at \in {"idle", "test", "wait"} \cup UnderLock
    /\ relayCall[c].at = "test" => DOMAIN relayCall[c] = {"at", "e", "stages"} /\ EnteredOK(c)
    /\ relayCall[c].at = "wait" => DOMAIN relayCall[c] = {"at", "e"} /\ EnteredOK(c)
    /\ relayCall[c].at \in UnderLock => relayLock = c /\ DocOK(relayCall[c].snap)
    /\ relayCall[c].at = "write" =>
          /\ DOMAIN relayCall[c] = {"at", "e", "snap", "step"} /\ EnteredOK(c) /\ relayCall[c].step \in 0..7
          /\ \A i \in 0..(relayCall[c].step - 1) : doc[Smart!KeyAt(i)] = Smart!Plan(relayCall[c].e)[Smart!KeyAt(i)]
    /\ relayCall[c].at = "rollback" =>
          /\ DOMAIN relayCall[c] = {"at", "e", "snap", "step", "ok"} /\ relayCall[c].step \in 0..7 /\ relayCall[c].ok \in BOOLEAN
          /\ relayCall[c].ok => \A i \in 0..(relayCall[c].step - 1) : doc[Smart!KeyAt(i)] = relayCall[c].snap[Smart!KeyAt(i)]
    /\ relayCall[c].at = "clear" =>
          /\ DOMAIN relayCall[c] = {"at", "step", "snap"} /\ relayCall[c].step \in 1..8
          /\ \A i \in 1..(relayCall[c].step - 1) : doc[ClearedAt(i)] = Smart!Missing(ClearedAt(i))
    /\ relayCall[c].at = "answer" =>
          /\ relayCall[c].answer = "applied" => EnteredOK(c) /\ \A k \in Smart!DocKeys : doc[k] = Smart!Plan(relayCall[c].e)[k]
          /\ relayCall[c].answer = "rolledBack" => doc = relayCall[c].snap
          /\ relayCall[c].answer = "direct" => doc = Smart!NoDoc

\* The inductive invariant.
RelayInv ==
    /\ DOMAIN relayCall = Actors /\ DocOK(doc)
    /\ \A c \in Actors : RelayCallOK(c)
    /\ \E S : loading \in Seq(S)
    /\ Smart!PasswordToItsRelay

LEMMA RelayKeys ==
    /\ \A i \in 0..6 : Smart!KeyAt(i) \in Smart!DocKeys
    /\ \A i \in 1..7 : ClearedAt(i) \in Smart!DocKeys
    /\ \A k \in Smart!DocKeys : \E i \in 0..6 : k = Smart!KeyAt(i)
    /\ \A k \in Smart!DocKeys : \E i \in 1..7 : k = ClearedAt(i)
    /\ \A i, j \in 0..6 : Smart!KeyAt(i) = Smart!KeyAt(j) => i = j
    /\ \A i, j \in 1..7 : ClearedAt(i) = ClearedAt(j) => i = j
    /\ \A i \in 0..6 : Smart!KeyAt(i) = "credentials" <=> i = 0
    /\ \A i \in 1..7 : ClearedAt(i) = "credentials" <=> i = 7
    /\ Smart!DocKeys = {"relayhost", "auth", "maps", "options", "level", "wrapper", "credentials"}
BY DEF Smart!KeyAt, ClearedAt, Smart!DocKeys, Smart!AppliedKeys

LEMMA PlanCredentials ==
    ASSUME NEW e \in Endpoints
    PROVE  \/ Smart!Plan(e)["credentials"] = Smart!NoCredentials
           \/ Smart!Plan(e)["credentials"] = [at |-> Smart!RelayHost(e), user |-> e.user]
BY DEF Smart!Plan

\* frame: a step of c that leaves the others' records alone
LEMMA RelayFrame ==
    ASSUME RelayInv, Smart!RelayConstants, NEW c \in Actors,
           DOMAIN relayCall' = Actors, \A o \in Actors \ {c} : relayCall'[o] = relayCall[o],
           \/ relayLock \in {"free", c} /\ relayLock' \in {"free", c}
           \/ UNCHANGED <<relayLock, doc>>,
           RelayCallOK(c)', DocOK(doc)', UNCHANGED <<loading, daemon>>
    PROVE  RelayInv'
<1>1. ASSUME NEW o \in Actors \ {c}
      PROVE RelayCallOK(o)'
  <2>1. RelayCallOK(o) /\ relayCall'[o] = relayCall[o]
    BY DEF RelayInv
  <2>2. CASE relayCall[o].at \in UnderLock
    <3>1. UNCHANGED <<relayLock, doc>>
      BY <2>1, <2>2 DEF RelayCallOK, Smart!RelayConstants
    <3>2. QED
      BY <2>1, <3>1 DEF RelayCallOK, EnteredOK
  <2>3. CASE relayCall[o].at \notin UnderLock
    BY <2>1, <2>3 DEF RelayCallOK, EnteredOK, UnderLock
  <2>4. QED
    BY <2>2, <2>3
<1>2. Smart!PasswordToItsRelay'
  BY DEF RelayInv, Smart!PasswordToItsRelay
<1>3. QED
  BY <1>1, <1>2 DEF RelayInv

LEMMA RelayInits ==
    ASSUME Smart!RelayInit PROVE RelayInv
<1>1. DocOK(doc)
  BY RelayKeys DEF DocOK, OwnCredentials, Smart!RelayInit, Smart!NoDoc, Smart!Missing
<1>2. \A c \in Actors : RelayCallOK(c)
  BY DEF RelayCallOK, Smart!RelayInit, Smart!Idle, UnderLock
<1>3. loading \in Seq({}) /\ Smart!PasswordToItsRelay
  BY DEF Smart!RelayInit, Smart!PasswordToItsRelay, Smart!Running
<1>4. QED
  BY <1>1, <1>2, <1>3 DEF RelayInv, Smart!RelayInit

LEMMA TestingRelay ==
    ASSUME RelayInv, Smart!RelayConstants, NEW c \in Actors,
           \/ \E e \in Endpoints : Smart!BeginApply(c, e)
           \/ \E passes \in BOOLEAN : Smart!TestStage(c, passes)
    PROVE  RelayInv'
<1>1. DOMAIN relayCall = Actors /\ RelayCallOK(c) /\ DocOK(doc)
  BY DEF RelayInv
<1>2. UNCHANGED <<doc, relayLock, loading, daemon>>
  BY DEF Smart!BeginApply, Smart!TestStage, Smart!DaemonStays
<1>3. ASSUME NEW e \in Endpoints, Smart!BeginApply(c, e)
      PROVE RelayInv'
  <2>1. relayCall' = [relayCall EXCEPT ![c] = [at |-> "test", e |-> e, stages |-> <<>>]] /\ Smart!Valid(e)
    BY <1>3 DEF Smart!BeginApply
  <2>2. RelayCallOK(c)'
    BY <1>1, <2>1 DEF RelayCallOK, EnteredOK, UnderLock
  <2>3. QED
    BY <1>1, <1>2, <2>1, <2>2, RelayFrame DEF DocOK, OwnCredentials
<1>4. ASSUME NEW passes \in BOOLEAN, Smart!TestStage(c, passes)
      PROVE RelayInv'
  <2>1. relayCall[c].at = "test"
    BY <1>4 DEF Smart!TestStage
  <2>2. \/ relayCall' = [relayCall EXCEPT ![c] = [at |-> "idle"]]
        \/ relayCall' = [relayCall EXCEPT ![c] = [at |-> "wait", e |-> relayCall[c].e]]
        \/ \E x : relayCall' = [relayCall EXCEPT ![c] = [relayCall[c] EXCEPT !.stages = x]]
    BY <1>1, <1>4 DEF Smart!TestStage, Smart!Idle
  <2>3. RelayCallOK(c)' /\ DOMAIN relayCall' = Actors /\ \A o \in Actors \ {c} : relayCall'[o] = relayCall[o]
    BY <1>1, <2>1, <2>2 DEF RelayCallOK, EnteredOK, UnderLock
  <2>4. QED
    BY <1>1, <1>2, <2>3, RelayFrame DEF DocOK, OwnCredentials
<1>5. QED
  BY <1>3, <1>4

LEMMA LockTaken ==
    ASSUME RelayInv, Smart!RelayConstants, NEW c \in Actors, Smart!TakeSnapshot(c) \/ Smart!BeginClear(c)
    PROVE  RelayInv'
<1>1. DOMAIN relayCall = Actors /\ RelayCallOK(c) /\ DocOK(doc)
  BY DEF RelayInv
<1>2. relayLock = "free" /\ relayLock' = c /\ UNCHANGED <<doc, loading, daemon>>
  BY DEF Smart!TakeSnapshot, Smart!BeginClear, Smart!DaemonStays
<1>3. \/ relayCall[c].at = "wait" /\ relayCall' = [relayCall EXCEPT ![c] = [at |-> "write", e |-> relayCall[c].e, snap |-> doc, step |-> 0]]
      \/ relayCall' = [relayCall EXCEPT ![c] = [at |-> "clear", step |-> 1, snap |-> doc]]
  BY <1>1 DEF Smart!TakeSnapshot, Smart!BeginClear
<1>4. RelayCallOK(c)' /\ DOMAIN relayCall' = Actors /\ \A o \in Actors \ {c} : relayCall'[o] = relayCall[o]
  BY <1>1, <1>2, <1>3 DEF RelayCallOK, EnteredOK, UnderLock, DocOK, OwnCredentials
<1>5. QED
  BY <1>1, <1>2, <1>4, RelayFrame DEF DocOK, OwnCredentials

LEMMA KeyWritten ==
    ASSUME RelayInv, Smart!RelayConstants, NEW c \in Actors, Smart!WriteKey(c)
    PROVE  RelayInv'
<1>1. DOMAIN relayCall = Actors /\ RelayCallOK(c) /\ DocOK(doc)
  BY DEF RelayInv
<1>2. relayCall[c].at = "write" /\ relayCall[c].step <= 6 /\ UNCHANGED <<relayLock, loading, daemon>>
  BY DEF Smart!WriteKey, Smart!DaemonStays
<1>3. /\ relayLock = c /\ DOMAIN relayCall[c] = {"at", "e", "snap", "step"} /\ EnteredOK(c) /\ relayCall[c].step \in 0..6 /\ DocOK(relayCall[c].snap)
      /\ \A i \in 0..(relayCall[c].step - 1) : doc[Smart!KeyAt(i)] = Smart!Plan(relayCall[c].e)[Smart!KeyAt(i)]
  BY <1>1, <1>2 DEF RelayCallOK, UnderLock
<1> DEFINE k == Smart!KeyAt(relayCall[c].step)
<1>4. CASE /\ doc' = [doc EXCEPT ![k] = Smart!Plan(relayCall[c].e)[k]]
           /\ relayCall' = [relayCall EXCEPT ![c] = [relayCall[c] EXCEPT !.step = relayCall[c].step + 1]]
  <2>1. /\ DOMAIN relayCall' = Actors /\ \A o \in Actors \ {c} : relayCall'[o] = relayCall[o]
        /\ relayCall'[c].at = "write" /\ relayCall'[c].step = relayCall[c].step + 1 /\ relayCall'[c].e = relayCall[c].e /\ relayCall'[c].snap = relayCall[c].snap
        /\ DOMAIN relayCall'[c] = {"at", "e", "snap", "step"}
    BY <1>1, <1>2, <1>3, <1>4
  <2>2. DOMAIN doc' = Smart!DocKeys /\ k \in Smart!DocKeys /\ doc'[k] = Smart!Plan(relayCall[c].e)[k]
        /\ (\A x \in Smart!DocKeys \ {k} : doc'[x] = doc[x]) /\ doc' = [x \in Smart!DocKeys |-> doc'[x]]
    BY <1>1, <1>3, <1>4, RelayKeys DEF DocOK
  <2>3. ASSUME NEW i \in 0..relayCall[c].step
        PROVE doc'[Smart!KeyAt(i)] = Smart!Plan(relayCall[c].e)[Smart!KeyAt(i)]
    <3>1. i \in 0..6 /\ relayCall[c].step \in 0..6 /\ Smart!KeyAt(i) \in Smart!DocKeys
      BY <1>3, RelayKeys
    <3>2. CASE i = relayCall[c].step
      BY <2>2, <3>2
    <3>3. CASE i # relayCall[c].step
      <4>1. i \in 0..(relayCall[c].step - 1)
        BY <3>1, <3>3
      <4>2. Smart!KeyAt(i) # k
        BY <3>1, <3>3, RelayKeys
      <4>3. QED
        BY <1>3, <2>2, <3>1, <4>1, <4>2
    <3>4. QED
      BY <3>2, <3>3
  <2>4. RelayCallOK(c)'
    BY <1>2, <1>3, <2>1, <2>3 DEF RelayCallOK, EnteredOK, UnderLock
  <2>5. DocOK(doc)'
    <3>1. CASE k = "credentials"
      <4>1. relayCall[c].e \in Endpoints /\ doc'["credentials"] = Smart!Plan(relayCall[c].e)["credentials"]
        BY <1>3, <2>2, <3>1 DEF EnteredOK
      <4>2. OwnCredentials(doc)'
        BY <4>1, PlanCredentials DEF OwnCredentials
      <4>3. QED
        BY <2>2, <4>2 DEF DocOK
    <3>2. CASE k # "credentials"
      BY <1>1, <2>2, <3>2, RelayKeys DEF DocOK, OwnCredentials
    <3>3. QED
      BY <3>1, <3>2
  <2>6. QED
    BY <1>2, <1>3, <2>1, <2>4, <2>5, RelayFrame
<1>5. CASE /\ relayCall' = [relayCall EXCEPT ![c] = [at |-> "rollback", e |-> relayCall[c].e, snap |-> relayCall[c].snap, step |-> 0, ok |-> TRUE]]
           /\ UNCHANGED doc
  <2>1. RelayCallOK(c)' /\ DOMAIN relayCall' = Actors /\ \A o \in Actors \ {c} : relayCall'[o] = relayCall[o]
    BY <1>1, <1>2, <1>3, <1>5 DEF RelayCallOK, EnteredOK, UnderLock
  <2>2. QED
    BY <1>1, <1>2, <1>5, <2>1, RelayFrame DEF DocOK, OwnCredentials
<1>6. QED
  BY <1>1, <1>4, <1>5 DEF Smart!WriteKey

LEMMA BackRead ==
    ASSUME RelayInv, Smart!RelayConstants, NEW c \in Actors, Smart!ReadBack(c) \/ Smart!RolledBack(c) \/ Smart!Cleared(c)
    PROVE  RelayInv'
<1>1. DOMAIN relayCall = Actors /\ RelayCallOK(c) /\ DocOK(doc)
  BY DEF RelayInv
<1>2. UNCHANGED <<doc, relayLock, loading, daemon>>
  BY DEF Smart!ReadBack, Smart!RolledBack, Smart!Cleared, Smart!DaemonStays
<1>3. SUFFICES RelayCallOK(c)' /\ DOMAIN relayCall' = Actors /\ \A o \in Actors \ {c} : relayCall'[o] = relayCall[o]
  BY <1>1, <1>2, RelayFrame DEF DocOK, OwnCredentials
<1>4. CASE Smart!ReadBack(c)
  <2>1. /\ relayCall[c].at = "write" /\ relayCall[c].step = 7
        /\ \/ relayCall' = [relayCall EXCEPT ![c] = [at |-> "answer", e |-> relayCall[c].e, snap |-> relayCall[c].snap, answer |-> "applied"]]
           \/ relayCall' = [relayCall EXCEPT ![c] = [at |-> "rollback", e |-> relayCall[c].e, snap |-> relayCall[c].snap, step |-> 0, ok |-> TRUE]]
    BY <1>1, <1>4 DEF Smart!ReadBack
  <2>2. \A k \in Smart!DocKeys : doc[k] = Smart!Plan(relayCall[c].e)[k]
    BY <1>1, <2>1, RelayKeys DEF RelayCallOK
  <2>3. EnteredOK(c) /\ relayLock = c /\ DocOK(relayCall[c].snap)
    BY <1>1, <2>1 DEF RelayCallOK, UnderLock
  <2>4. CASE relayCall' = [relayCall EXCEPT ![c] = [at |-> "answer", e |-> relayCall[c].e, snap |-> relayCall[c].snap, answer |-> "applied"]]
    <3>1. /\ DOMAIN relayCall' = Actors /\ \A o \in Actors \ {c} : relayCall'[o] = relayCall[o]
          /\ "at" \in DOMAIN relayCall'[c] /\ relayCall'[c].at = "answer" /\ relayCall'[c].answer = "applied"
          /\ relayCall'[c].e = relayCall[c].e /\ relayCall'[c].snap = relayCall[c].snap
      BY <1>1, <2>4
    <3>2. QED
      BY <1>2, <2>2, <2>3, <3>1 DEF RelayCallOK, EnteredOK, UnderLock
  <2>5. CASE relayCall' = [relayCall EXCEPT ![c] = [at |-> "rollback", e |-> relayCall[c].e, snap |-> relayCall[c].snap, step |-> 0, ok |-> TRUE]]
    BY <1>1, <1>2, <2>3, <2>5 DEF RelayCallOK, UnderLock
  <2>6. QED
    BY <2>1, <2>4, <2>5
<1>5. CASE Smart!RolledBack(c)
  <2>1. /\ relayCall[c].at = "rollback" /\ relayCall[c].step = 7
        /\ relayCall' = [relayCall EXCEPT ![c] = [at |-> "answer", e |-> relayCall[c].e, snap |-> relayCall[c].snap,
                                        answer |-> IF relayCall[c].ok THEN "rolledBack" ELSE "torn"]]
    BY <1>1, <1>5 DEF Smart!RolledBack
  <2>2. relayCall[c].ok => \A k \in Smart!DocKeys : doc[k] = relayCall[c].snap[k]
    BY <1>1, <2>1, RelayKeys DEF RelayCallOK
  <2>3. relayLock = c /\ DocOK(relayCall[c].snap) /\ relayCall[c].ok \in BOOLEAN
    BY <1>1, <2>1 DEF RelayCallOK, UnderLock
  <2>4. relayCall[c].ok => doc = relayCall[c].snap
    BY <1>1, <2>2, <2>3 DEF DocOK
  <2>5. QED
    BY <1>1, <1>2, <2>1, <2>3, <2>4 DEF RelayCallOK, EnteredOK, UnderLock
<1>6. CASE Smart!Cleared(c)
  <2>1. /\ relayCall[c].at = "clear" /\ relayCall[c].step = 8
        /\ relayCall' = [relayCall EXCEPT ![c] = [at |-> "answer", snap |-> relayCall[c].snap, answer |-> "direct"]]
    BY <1>1, <1>6 DEF Smart!Cleared
  <2>2. \A k \in Smart!DocKeys : doc[k] = Smart!Missing(k)
    BY <1>1, <2>1, RelayKeys DEF RelayCallOK
  <2>3. relayLock = c /\ DocOK(relayCall[c].snap)
    BY <1>1, <2>1 DEF RelayCallOK, UnderLock
  <2>4. doc = Smart!NoDoc
    BY <1>1, <2>2 DEF DocOK, Smart!NoDoc
  <2>5. QED
    BY <1>1, <1>2, <2>1, <2>3, <2>4 DEF RelayCallOK, EnteredOK, UnderLock
<1>7. QED
  BY <1>4, <1>5, <1>6

LEMMA KeyPutBack ==
    ASSUME RelayInv, Smart!RelayConstants, NEW c \in Actors, Smart!Rollback(c)
    PROVE  RelayInv'
<1>1. DOMAIN relayCall = Actors /\ RelayCallOK(c) /\ DocOK(doc)
  BY DEF RelayInv
<1>2. relayCall[c].at = "rollback" /\ relayCall[c].step <= 6 /\ UNCHANGED <<relayLock, loading, daemon>>
  BY DEF Smart!Rollback, Smart!DaemonStays
<1>3. /\ relayLock = c /\ DOMAIN relayCall[c] = {"at", "e", "snap", "step", "ok"} /\ relayCall[c].step \in 0..6 /\ DocOK(relayCall[c].snap)
      /\ relayCall[c].ok \in BOOLEAN
      /\ relayCall[c].ok => \A i \in 0..(relayCall[c].step - 1) : doc[Smart!KeyAt(i)] = relayCall[c].snap[Smart!KeyAt(i)]
  BY <1>1, <1>2 DEF RelayCallOK, UnderLock
<1> DEFINE k == Smart!KeyAt(relayCall[c].step)
<1>4. CASE /\ doc' = [doc EXCEPT ![k] = relayCall[c].snap[k]]
           /\ relayCall' = [relayCall EXCEPT ![c] = [relayCall[c] EXCEPT !.step = relayCall[c].step + 1]]
  <2>1. /\ DOMAIN relayCall' = Actors /\ \A o \in Actors \ {c} : relayCall'[o] = relayCall[o]
        /\ relayCall'[c].at = "rollback" /\ relayCall'[c].step = relayCall[c].step + 1 /\ relayCall'[c].snap = relayCall[c].snap
        /\ DOMAIN relayCall'[c] = {"at", "e", "snap", "step", "ok"} /\ relayCall'[c].ok = relayCall[c].ok
    BY <1>1, <1>2, <1>3, <1>4
  <2>2. DOMAIN doc' = Smart!DocKeys /\ k \in Smart!DocKeys /\ doc'[k] = relayCall[c].snap[k]
        /\ (\A x \in Smart!DocKeys \ {k} : doc'[x] = doc[x]) /\ doc' = [x \in Smart!DocKeys |-> doc'[x]]
    BY <1>1, <1>3, <1>4, RelayKeys DEF DocOK
  <2>3. ASSUME relayCall[c].ok, NEW i \in 0..relayCall[c].step
        PROVE doc'[Smart!KeyAt(i)] = relayCall[c].snap[Smart!KeyAt(i)]
    <3>1. i \in 0..6 /\ relayCall[c].step \in 0..6 /\ Smart!KeyAt(i) \in Smart!DocKeys
      BY <1>3, RelayKeys
    <3>2. CASE i = relayCall[c].step
      BY <2>2, <3>2
    <3>3. CASE i # relayCall[c].step
      <4>1. i \in 0..(relayCall[c].step - 1)
        BY <3>1, <3>3
      <4>2. Smart!KeyAt(i) # k
        BY <3>1, <3>3, RelayKeys
      <4>3. QED
        BY <1>3, <2>2, <2>3, <3>1, <4>1, <4>2
    <3>4. QED
      BY <3>2, <3>3
  <2>4. RelayCallOK(c)'
    BY <1>2, <1>3, <2>1, <2>3 DEF RelayCallOK, UnderLock
  <2>5. DocOK(doc)'
    BY <1>1, <1>3, <2>2, RelayKeys DEF DocOK, OwnCredentials
  <2>6. QED
    BY <1>2, <1>3, <2>1, <2>4, <2>5, RelayFrame
<1>5. CASE /\ relayCall' = [relayCall EXCEPT ![c] = [[relayCall[c] EXCEPT !.step = relayCall[c].step + 1] EXCEPT !.ok = FALSE]]
           /\ UNCHANGED doc
  <2>1. RelayCallOK(c)' /\ DOMAIN relayCall' = Actors /\ \A o \in Actors \ {c} : relayCall'[o] = relayCall[o]
    BY <1>1, <1>2, <1>3, <1>5 DEF RelayCallOK, UnderLock
  <2>2. QED
    BY <1>1, <1>2, <1>5, <2>1, RelayFrame DEF DocOK, OwnCredentials
<1>6. QED
  BY <1>1, <1>4, <1>5 DEF Smart!Rollback

LEMMA KeyCleared ==
    ASSUME RelayInv, Smart!RelayConstants, NEW c \in Actors, Smart!ClearKey(c)
    PROVE  RelayInv'
<1>1. DOMAIN relayCall = Actors /\ RelayCallOK(c) /\ DocOK(doc)
  BY DEF RelayInv
<1>2. relayCall[c].at = "clear" /\ relayCall[c].step <= 7 /\ UNCHANGED <<loading, daemon>>
  BY DEF Smart!ClearKey, Smart!DaemonStays
<1>3. /\ relayLock = c /\ DOMAIN relayCall[c] = {"at", "step", "snap"} /\ relayCall[c].step \in 1..7 /\ DocOK(relayCall[c].snap)
      /\ \A i \in 1..(relayCall[c].step - 1) : doc[ClearedAt(i)] = Smart!Missing(ClearedAt(i))
  BY <1>1, <1>2 DEF RelayCallOK, UnderLock
<1> DEFINE k == ClearedAt(relayCall[c].step)
<1>4. CASE /\ doc' = [doc EXCEPT ![k] = Smart!Missing(k)] /\ UNCHANGED relayLock
           /\ relayCall' = [relayCall EXCEPT ![c] = [relayCall[c] EXCEPT !.step = relayCall[c].step + 1]]
  <2>1. /\ DOMAIN relayCall' = Actors /\ \A o \in Actors \ {c} : relayCall'[o] = relayCall[o]
        /\ relayCall'[c].at = "clear" /\ relayCall'[c].step = relayCall[c].step + 1 /\ relayCall'[c].snap = relayCall[c].snap
        /\ DOMAIN relayCall'[c] = {"at", "step", "snap"}
    BY <1>1, <1>2, <1>3, <1>4
  <2>2. DOMAIN doc' = Smart!DocKeys /\ k \in Smart!DocKeys /\ doc'[k] = Smart!Missing(k)
        /\ (\A x \in Smart!DocKeys \ {k} : doc'[x] = doc[x]) /\ doc' = [x \in Smart!DocKeys |-> doc'[x]]
    BY <1>1, <1>3, <1>4, RelayKeys DEF DocOK
  <2>3. ASSUME NEW i \in 1..relayCall[c].step
        PROVE doc'[ClearedAt(i)] = Smart!Missing(ClearedAt(i))
    <3>1. i \in 1..7 /\ relayCall[c].step \in 1..7 /\ ClearedAt(i) \in Smart!DocKeys
      BY <1>3, RelayKeys
    <3>2. CASE i = relayCall[c].step
      BY <2>2, <3>2
    <3>3. CASE i # relayCall[c].step
      <4>1. i \in 1..(relayCall[c].step - 1)
        BY <3>1, <3>3
      <4>2. ClearedAt(i) # k
        BY <3>1, <3>3, RelayKeys
      <4>3. QED
        BY <1>3, <2>2, <3>1, <4>1, <4>2
    <3>4. QED
      BY <3>2, <3>3
  <2>4. RelayCallOK(c)'
    BY <1>2, <1>3, <1>4, <2>1, <2>3 DEF RelayCallOK, UnderLock
  <2>5. DocOK(doc)'
    <3>1. CASE k = "credentials"
      BY <2>2, <3>1 DEF DocOK, OwnCredentials, Smart!Missing
    <3>2. CASE k # "credentials"
      BY <1>1, <2>2, <3>2, RelayKeys DEF DocOK, OwnCredentials
    <3>3. QED
      BY <3>1, <3>2
  <2>6. QED
    BY <1>2, <1>3, <1>4, <2>1, <2>4, <2>5, RelayFrame
<1>5. CASE relayCall' = [relayCall EXCEPT ![c] = [at |-> "idle"]] /\ relayLock' = "free" /\ UNCHANGED doc
  <2>1. RelayCallOK(c)' /\ DOMAIN relayCall' = Actors /\ \A o \in Actors \ {c} : relayCall'[o] = relayCall[o]
    BY <1>1, <1>5 DEF RelayCallOK, UnderLock
  <2>2. QED
    BY <1>1, <1>2, <1>3, <1>5, <2>1, RelayFrame DEF DocOK, OwnCredentials
<1>6. QED
  BY <1>1, <1>4, <1>5 DEF Smart!ClearKey, Smart!Free, Smart!Idle, ClearedAt

LEMMA LockGiven ==
    ASSUME RelayInv, Smart!RelayConstants,
           (\E c \in Actors : Smart!Answer(c)) \/ Smart!HelperDies
    PROVE  RelayInv'
<1>1. DOMAIN relayCall = Actors /\ DocOK(doc) /\ \A c \in Actors : RelayCallOK(c)
  BY DEF RelayInv
<1>2. CASE Smart!HelperDies
  <2>1. UNCHANGED <<doc, loading, daemon>> /\ relayCall' = [c \in Actors |-> [at |-> "idle"]]
    BY <1>2 DEF Smart!HelperDies, Smart!DaemonStays, Smart!Idle
  <2>2. \A c \in Actors : RelayCallOK(c)'
    BY <2>1 DEF RelayCallOK, UnderLock
  <2>3. QED
    BY <2>1, <2>2 DEF RelayInv, DocOK, OwnCredentials, Smart!PasswordToItsRelay
<1>3. ASSUME NEW c \in Actors, Smart!Answer(c)
      PROVE RelayInv'
  <2>1. /\ relayCall[c].at = "answer" /\ UNCHANGED <<doc, loading, daemon>> /\ relayLock' = "free"
        /\ relayCall' = [relayCall EXCEPT ![c] = [at |-> "idle"]]
    BY <1>3 DEF Smart!Answer, Smart!DaemonStays, Smart!Free, Smart!Idle
  <2>2. RelayCallOK(c)' /\ relayLock = c
    BY <1>1, <2>1 DEF RelayCallOK, UnderLock
  <2>3. QED
    BY <1>1, <2>1, <2>2, RelayFrame DEF DocOK, OwnCredentials
<1>4. QED
  BY <1>2, <1>3

LEMMA DaemonStarts ==
    ASSUME RelayInv, Smart!DaemonReads
    PROVE  RelayInv'
<1>1. UNCHANGED <<doc, relayCall, relayLock>>
  BY DEF Smart!DaemonReads
<1>2. PICK S : loading \in Seq(S)
  BY DEF RelayInv
<1> DEFINE x == doc[Smart!LoadedKeys[Len(loading) + 1]]
           read == Append(loading, x)
           T == S \cup {x}
<1>3. read \in Seq(T) /\ <<>> \in Seq(T) /\ Len(read) = Len(loading) + 1 /\ Len(loading) \in Nat /\ read[Len(loading) + 1] = x
  <2>1. loading \in Seq(T)
    BY <1>2
  <2>2. QED
    BY <2>1
<1>4. \/ Len(read) = 4 /\ daemon' = Smart!Loaded(read[1], read[2], read[3], read[4]) /\ loading' = <<>>
      \/ daemon' = Smart!Running("down") /\ loading' = read
  BY DEF Smart!DaemonReads
<1>5. loading' \in Seq(T)
  BY <1>3, <1>4
<1>6. Smart!PasswordToItsRelay'
  <2>1. CASE daemon' = Smart!Running("down")
    BY <2>1 DEF Smart!PasswordToItsRelay, Smart!Running
  <2>2. CASE Len(read) = 4 /\ daemon' = Smart!Loaded(read[1], read[2], read[3], read[4])
    <3>1. read[4] = doc["credentials"]
      BY <1>3, <2>2 DEF Smart!LoadedKeys
    <3>2. OwnCredentials(doc)
      BY DEF RelayInv, DocOK
    <3>3. ASSUME daemon'.user # Smart!NoUser
          PROVE \E e \in Endpoints : daemon'.user = e.user /\ daemon'.relay = Smart!RelayHost(e)
      <4>1. /\ daemon'.relay = read[1] /\ daemon'.user = read[4].user /\ read[4].at = read[1]
        BY <2>2, <3>3 DEF Smart!Loaded, Smart!Running, Smart!MatchCredentials
      <4>2. read[4] # Smart!NoCredentials
        <5>1. Smart!NoCredentials.user = Smart!NoUser
          BY DEF Smart!NoCredentials
        <5>2. read[4].user # Smart!NoUser
          BY <3>3, <4>1
        <5>3. QED
          BY <5>1, <5>2
      <4>3. PICK e \in Endpoints : read[4] = [at |-> Smart!RelayHost(e), user |-> e.user]
        BY <3>1, <3>2, <4>2 DEF OwnCredentials
      <4>4. read[4].at = Smart!RelayHost(e) /\ read[4].user = e.user
        BY <4>3
      <4>5. QED
        BY <4>1, <4>4
    <3>4. QED
      BY <3>3 DEF Smart!PasswordToItsRelay
  <2>3. QED
    BY <1>4, <2>1, <2>2
<1>7. \A c \in Actors : RelayCallOK(c)'
  BY <1>1 DEF RelayInv, RelayCallOK, EnteredOK
<1>8. QED
  BY <1>1, <1>5, <1>6, <1>7 DEF RelayInv, DocOK, OwnCredentials

LEMMA RelayAnswers ==
    ASSUME RelayInv
    PROVE  Smart!ApplyAnswerTrue
<1>1. SUFFICES ASSUME NEW c \in Actors, relayCall[c].at = "answer", relayCall[c].answer = "applied"
               PROVE Smart!Loaded(doc.relayhost, doc.wrapper, doc.level, doc.credentials)
                       = [mode |-> "relay", relay |-> Smart!RelayHost(relayCall[c].e),
                          tls |-> IF Smart!Wrapper(relayCall[c].e) THEN "SSL/TLS" ELSE "STARTTLS", user |-> relayCall[c].e.user]
  BY DEF RelayInv, RelayCallOK, Smart!ApplyAnswerTrue
<1> DEFINE e == relayCall[c].e
           host == Smart!RelayHost(e)
<1>2. e \in Endpoints /\ Smart!Valid(e) /\ \A k \in Smart!DocKeys : doc[k] = Smart!Plan(e)[k]
  BY <1>1 DEF RelayInv, RelayCallOK, EnteredOK
<1>3. /\ doc.relayhost = host /\ doc.wrapper = (IF Smart!Wrapper(e) THEN "yes" ELSE "no") /\ doc.level = "encrypt"
      /\ doc.credentials = IF e.user = Smart!NoUser THEN Smart!NoCredentials ELSE [at |-> host, user |-> e.user]
  BY <1>2, RelayKeys DEF Smart!Plan
<1>4. host # Smart!NoHost /\ host.port = e.port
  BY <1>2 DEF Smart!Valid, Smart!RelayHost, Smart!NoHost
<1>5. Smart!TlsModeOf(doc.wrapper, host.port, doc.level) = IF Smart!Wrapper(e) THEN "SSL/TLS" ELSE "STARTTLS"
  BY <1>3, <1>4 DEF Smart!TlsModeOf, Smart!Wrapper
<1>6. Smart!MatchCredentials(doc.credentials, host) = e.user
  BY <1>3, <1>4 DEF Smart!MatchCredentials, Smart!NoCredentials
<1>7. QED
  BY <1>3, <1>4, <1>5, <1>6 DEF Smart!Loaded

\* For any number of callers and endpoints: after the answer "applied" a daemon that
\* starts uses the endpoint that passed the test, after "rolledBack" the file is what it
\* was, after "direct" no relay and no password is left; and whenever the daemon starts,
\* also between two writes of a change, it presents a password only to the relay it was
\* entered for.
THEOREM RelayAnswersTrue ==
    ASSUME Smart!RelayConstants
    PROVE  Smart!Spec => [](Smart!ApplyAnswerTrue /\ Smart!PasswordToItsRelay)
<1>1. RelayInv /\ [Smart!RelayNext]_(Smart!relayVars) => RelayInv'
  <2>1. SUFFICES ASSUME RelayInv, [Smart!RelayNext]_(Smart!relayVars) PROVE RelayInv'
    OBVIOUS
  <2>2. CASE UNCHANGED Smart!relayVars
    <3>1. UNCHANGED <<doc, relayCall, relayLock, loading, daemon>>
      BY <2>2 DEF Smart!relayVars
    <3>2. \A c \in Actors : RelayCallOK(c)'
      BY <2>1, <3>1 DEF RelayInv, RelayCallOK, EnteredOK
    <3>3. QED
      BY <2>1, <3>1, <3>2 DEF RelayInv, DocOK, OwnCredentials, Smart!PasswordToItsRelay
  <2>3. QED
    BY <2>1, <2>2, TestingRelay, LockTaken, KeyWritten, BackRead, KeyPutBack, KeyCleared, LockGiven, DaemonStarts
       DEF Smart!RelayNext
<1>2. RelayInv => Smart!ApplyAnswerTrue /\ Smart!PasswordToItsRelay
  BY RelayAnswers DEF RelayInv
<1>3. QED
  BY <1>1, <1>2, RelayInits, PTL DEF Smart!Spec

-----------------------------------------------------------------------------
(***************************************************************************)
(* Certificates (Certificates). Certificate and key are two files: they    *)
(* match, unless a call is between its two writes or two calls wrote one   *)
(* domain.                                                                 *)
(***************************************************************************)
\* A call at work has its fields, and both halves of one pair once it writes.
CertCallOK(c) ==
    /\ "at" \in DOMAIN certCall[c]
    /\ Certs!Busy(c) => DOMAIN certCall[c] = {"at", "d", "kind", "cert", "key"} /\ certCall[c].d \in CertDomains
    /\ Certs!Writing(c) => certCall[c].cert = certCall[c].key
    /\ "left" \in DOMAIN certCall[c] => certCall[c].at = "failed"

\* Between its two files, the first is there as it was written, unless the
\* domain is marked as torn.
HalfWritten(c) ==
    certCall[c].at = "second" /\ certCall[c].d \notin certTorn =>
       IF certCall[c].kind = "custom" THEN certDisk[certCall[c].d].cert = certCall[c].cert ELSE certDisk[certCall[c].d].key = certCall[c].key

\* A pair matches, is between its two writes, or is marked as torn.
PairMatched(d) ==
    certDisk[d].cert = certDisk[d].key \/ d \in certTorn \/ \E c \in Actors : certCall[c].at = "second" /\ certCall[c].d = d

\* A staged key belongs to a call at work, or to one that failed to remove it.
StagedOK(d) ==
    \A c \in stages[d] :
       /\ c \in Actors
       /\ (certCall[c].at \in {"install", "first", "second"} /\ certCall[c].d = d) \/ "left" \in DOMAIN certCall[c]

\* The inductive invariant.
CertInv ==
    /\ DOMAIN certDisk = CertDomains /\ DOMAIN stages = CertDomains
    /\ DOMAIN certCall = Actors /\ DOMAIN server = TlsServers
    /\ \A d \in CertDomains : DOMAIN certDisk[d] = {"dir", "cert", "key"} /\ PairMatched(d) /\ StagedOK(d)
    /\ \A c \in Actors : CertCallOK(c) /\ HalfWritten(c)
    /\ \A s \in TlsServers : server[s].at = "up" => server[s].cert = server[s].key

LEMMA CertInits ==
  ASSUME Certs!CertInit
  PROVE  CertInv
BY DEF Certs!CertInit, CertInv, PairMatched, StagedOK, CertCallOK, HalfWritten, Certs!Busy, Certs!Writing, Certs!IdleCall,
       Certs!Down

LEMMA CertImplies ==
  ASSUME CertInv
  PROVE  Certs!PairsMatch /\ Certs!NoStrayKey
BY DEF CertInv, Certs!PairsMatch, Certs!NoStrayKey, PairMatched, StagedOK, Certs!Busy

\* A step of one call that writes neither file and does not leave "second".
LEMMA QuietCall ==
  ASSUME CertInv, NEW c \in Actors, UNCHANGED <<server, certTorn>>,
         DOMAIN certCall' = Actors, \A o \in Actors \ {c} : certCall'[o] = certCall[o],
         certCall[c].at # "second", certCall'[c].at # "second", CertCallOK(c)',
         DOMAIN certDisk' = CertDomains,
         \A d \in CertDomains : DOMAIN certDisk'[d] = DOMAIN certDisk[d] /\ certDisk'[d].cert = certDisk[d].cert /\ certDisk'[d].key = certDisk[d].key,
         DOMAIN stages' = CertDomains,
         \A d \in CertDomains : stages'[d] \subseteq stages[d] \cup {c},
         \A d \in CertDomains : c \in stages'[d] =>
             (certCall'[c].at \in {"install", "first"} /\ certCall'[c].d = d) \/ "left" \in DOMAIN certCall'[c]
  PROVE  CertInv'
<1>1. \A o \in Actors \ {c} : CertCallOK(o)'
  BY DEF CertInv, CertCallOK, Certs!Busy, Certs!Writing
<1>2. \A o \in Actors : HalfWritten(o)'
  BY DEF CertInv, HalfWritten, CertCallOK, Certs!Busy
<1>3. \A d \in CertDomains : PairMatched(d)'
  BY DEF CertInv, PairMatched
<1>4. \A d \in CertDomains : StagedOK(d)'
  BY DEF CertInv, StagedOK
<1>5. QED
  BY <1>1, <1>2, <1>3, <1>4 DEF CertInv

LEMMA IssuingPair ==
  ASSUME CertInv, NEW c \in Actors, Certs!IssueCustom(c) \/ Certs!IssueAcme(c)
  PROVE  CertInv'
<1>1. certCall[c].at = "idle" /\ UNCHANGED <<server, certTorn, stages>> /\ DOMAIN certCall[c] = {"at"}
  BY DEF Certs!IssueCustom, Certs!IssueAcme, Certs!IdleCall
<1>2. /\ DOMAIN certDisk' = CertDomains
      /\ \A d \in CertDomains : DOMAIN certDisk'[d] = DOMAIN certDisk[d] /\ certDisk'[d].cert = certDisk[d].cert /\ certDisk'[d].key = certDisk[d].key
  BY DEF Certs!IssueCustom, Certs!IssueAcme, CertInv
<1>3. /\ DOMAIN certCall' = Actors /\ \A o \in Actors \ {c} : certCall'[o] = certCall[o]
      /\ \/ certCall'[c] = [certCall[c] EXCEPT !.at = "failed"]
         \/ \E d \in CertDomains : \E x : certCall'[c] = [at |-> "first", d |-> d, kind |-> "custom", cert |-> x, key |-> x]
         \/ \E d \in CertDomains : certCall'[c] = [at |-> "issue", d |-> d, kind |-> "acme", cert |-> Certs!NoFile, key |-> Certs!NoFile]
  <2>1. CASE Certs!IssueCustom(c)
    <3>1. PICK d \in CertDomains, u \in Certs!Uploads(issued + 1) :
             IF Certs!ValidateCustomCertificate(u)
             THEN certCall' = [certCall EXCEPT ![c] = [at |-> "first", d |-> d, kind |-> "custom", cert |-> u.cert, key |-> u.key]]
             ELSE certCall' = [certCall EXCEPT ![c].at = "failed"]
      BY <2>1 DEF Certs!IssueCustom
    <3>2. CASE Certs!ValidateCustomCertificate(u)
      <4>1. u.cert = u.key
        BY <3>2 DEF Certs!ValidateCustomCertificate
      <4>2. QED
        BY <3>1, <3>2, <4>1 DEF CertInv
    <3>3. CASE ~Certs!ValidateCustomCertificate(u)
      BY <3>1, <3>3 DEF CertInv
    <3>4. QED
      BY <3>2, <3>3
  <2>2. CASE Certs!IssueAcme(c)
    BY <2>2 DEF Certs!IssueAcme, CertInv
  <2>3. QED
    BY <2>1, <2>2
<1>4. CertCallOK(c)' /\ certCall'[c].at # "second" /\ "left" \notin DOMAIN certCall'[c]
  BY <1>1, <1>3 DEF CertCallOK, Certs!Busy, Certs!Writing
<1>5. \A d \in CertDomains : c \notin stages[d]
  BY <1>1 DEF CertInv, StagedOK
<1>6. DOMAIN stages' = CertDomains
  BY <1>1 DEF CertInv
<1>7. QED
  BY <1>1, <1>2, <1>3, <1>4, <1>5, <1>6, QuietCall

LEMMA PreparingPair ==
  ASSUME CertInv, NEW c \in Actors,
         Certs!RunIssue(c) \/ Certs!Stage(c) \/ Certs!Install(c) \/ Certs!Finish(c) \/ Certs!Renew(c)
  PROVE  CertInv'
<1>1. CertCallOK(c) /\ DOMAIN certCall = Actors /\ DOMAIN certDisk = CertDomains /\ DOMAIN stages = CertDomains
  BY DEF CertInv
<1>2. CASE Certs!RunIssue(c)
  <2>1. /\ certCall[c].at = "issue" /\ UNCHANGED <<stages, server, certTorn>>
        /\ certCall[c].d \in CertDomains /\ DOMAIN certCall[c] = {"at", "d", "kind", "cert", "key"}
    BY <1>1, <1>2 DEF Certs!RunIssue, CertCallOK, Certs!Busy
  <2>2. \E end \in {"stage", "failed"} : certCall' = [certCall EXCEPT ![c].at = end]
    BY <1>2 DEF Certs!RunIssue
  <2>3. /\ DOMAIN certDisk' = CertDomains
        /\ \A d \in CertDomains : DOMAIN certDisk'[d] = DOMAIN certDisk[d] /\ certDisk'[d].cert = certDisk[d].cert /\ certDisk'[d].key = certDisk[d].key
    BY <1>1, <1>2 DEF Certs!RunIssue, Certs!WithoutEmptyDir, CertInv
  <2>4. /\ DOMAIN certCall' = Actors /\ \A o \in Actors \ {c} : certCall'[o] = certCall[o]
        /\ DOMAIN certCall'[c] = DOMAIN certCall[c] /\ certCall'[c].at \in {"stage", "failed"} /\ certCall'[c].d = certCall[c].d
    BY <1>1, <2>1, <2>2
  <2>5. CertCallOK(c)'
    BY <2>1, <2>4 DEF CertCallOK, Certs!Busy, Certs!Writing
  <2>6. \A d \in CertDomains : c \notin stages[d]
    BY <2>1 DEF CertInv, StagedOK
  <2>7. QED
    BY <1>1, <2>1, <2>3, <2>4, <2>5, <2>6, QuietCall
<1>3. CASE Certs!Stage(c)
  <2>1. /\ certCall[c].at = "stage" /\ UNCHANGED <<certDisk, server, certTorn>>
        /\ certCall[c].d \in CertDomains /\ DOMAIN certCall[c] = {"at", "d", "kind", "cert", "key"}
    BY <1>1, <1>3 DEF Certs!Stage, CertCallOK, Certs!Busy
  <2>2. \A d \in CertDomains : c \notin stages[d]
    BY <2>1 DEF CertInv, StagedOK
  <2>3. \/ certCall' = [certCall EXCEPT ![c].at = "install"] /\ stages' = [stages EXCEPT ![certCall[c].d] = @ \cup {c}]
        \/ certCall' = [certCall EXCEPT ![c].at = "failed"] /\ UNCHANGED stages
    BY <1>3 DEF Certs!Stage
  <2>4. /\ DOMAIN certCall' = Actors /\ \A o \in Actors \ {c} : certCall'[o] = certCall[o]
        /\ DOMAIN certCall'[c] = DOMAIN certCall[c] /\ certCall'[c].d = certCall[c].d /\ certCall'[c].at \in {"install", "failed"}
        /\ DOMAIN stages' = CertDomains
        /\ \A d \in CertDomains : stages'[d] \subseteq stages[d] \cup {c}
        /\ \A d \in CertDomains : c \in stages'[d] => certCall'[c].at = "install" /\ d = certCall[c].d
    BY <1>1, <2>1, <2>2, <2>3
  <2>5. CertCallOK(c)'
    BY <2>1, <2>4 DEF CertCallOK, Certs!Busy, Certs!Writing
  <2>6. QED
    BY <1>1, <2>1, <2>4, <2>5, QuietCall
<1>4. CASE Certs!Install(c)
  <2>1. /\ certCall[c].at = "install" /\ UNCHANGED <<certDisk, server, certTorn>>
        /\ certCall[c].d \in CertDomains /\ DOMAIN certCall[c] = {"at", "d", "kind", "cert", "key"}
    BY <1>1, <1>4 DEF Certs!Install, CertCallOK, Certs!Busy
  <2>2. \/ \E x : certCall' = [certCall EXCEPT ![c].at = "first", ![c].cert = x, ![c].key = x] /\ UNCHANGED stages
        \/ certCall' = [certCall EXCEPT ![c].at = "failed"] /\ stages' = [stages EXCEPT ![certCall[c].d] = @ \ {c}]
    BY <1>4 DEF Certs!Install, Certs!DroppedStages
  <2>3. /\ DOMAIN certCall' = Actors /\ \A o \in Actors \ {c} : certCall'[o] = certCall[o]
        /\ DOMAIN certCall'[c] = DOMAIN certCall[c] /\ certCall'[c].d = certCall[c].d
        /\ (certCall'[c].at = "first" /\ certCall'[c].cert = certCall'[c].key) \/ certCall'[c].at = "failed"
    <3>1. CASE certCall' = [certCall EXCEPT ![c].at = "failed"]
      BY <1>1, <2>1, <3>1
    <3>2. CASE \E x : certCall' = [certCall EXCEPT ![c].at = "first", ![c].cert = x, ![c].key = x]
      <4>1. PICK x : certCall' = [certCall EXCEPT ![c].at = "first", ![c].cert = x, ![c].key = x]
        BY <3>2
      <4>2. certCall' = [certCall EXCEPT ![c] = [[[certCall[c] EXCEPT !.at = "first"] EXCEPT !.cert = x] EXCEPT !.key = x]]
        BY <1>1, <4>1
      <4>3. QED
        BY <1>1, <2>1, <4>2
    <3>3. QED
      BY <2>2, <3>1, <3>2
  <2>4. \A d \in CertDomains : c \in stages[d] => d = certCall[c].d
    BY <2>1 DEF CertInv, StagedOK
  <2>5. /\ DOMAIN stages' = CertDomains
        /\ \A d \in CertDomains : stages'[d] \subseteq stages[d]
        /\ \A d \in CertDomains : c \in stages'[d] => certCall'[c].at = "first" /\ d = certCall[c].d
    <3>1. CASE UNCHANGED stages /\ \E x : certCall' = [certCall EXCEPT ![c].at = "first", ![c].cert = x, ![c].key = x]
      <4>1. certCall'[c].at = "first"
        BY <1>1, <2>1, <3>1
      <4>2. QED
        BY <1>1, <2>4, <3>1, <4>1
    <3>2. CASE stages' = [stages EXCEPT ![certCall[c].d] = @ \ {c}]
      BY <1>1, <2>1, <2>4, <3>2
    <3>3. QED
      BY <2>2, <3>1, <3>2
  <2>6. CertCallOK(c)'
    BY <2>1, <2>3 DEF CertCallOK, Certs!Busy, Certs!Writing
  <2>7. QED
    BY <1>1, <2>1, <2>3, <2>5, <2>6, QuietCall
<1>5. CASE Certs!Finish(c) \/ Certs!Renew(c)
  <2>1. /\ certCall[c].at \in {"reload", "idle"} /\ UNCHANGED <<certDisk, stages, server, certTorn>>
        /\ DOMAIN certCall' = Actors /\ \A o \in Actors \ {c} : certCall'[o] = certCall[o]
        /\ "at" \in DOMAIN certCall'[c] /\ "left" \notin DOMAIN certCall'[c] /\ certCall'[c].at \in {"ok", "failed"}
    <3>1. CASE Certs!Finish(c)
      <4>1. PICK reloads, shown : certCall' = [certCall EXCEPT ![c] = [at |-> "ok", reloads |-> reloads, shown |-> shown]]
        BY <3>1 DEF Certs!Finish
      <4>2. certCall[c].at = "reload" /\ UNCHANGED <<certDisk, stages, server, certTorn>>
        BY <3>1 DEF Certs!Finish
      <4>3. QED
        BY <1>1, <4>1, <4>2
    <3>2. CASE Certs!Renew(c)
      <4>1. /\ certCall[c] = [at |-> "idle"] /\ UNCHANGED <<certDisk, stages, server, certTorn>>
            /\ \/ \E shown : certCall' = [certCall EXCEPT ![c] = [at |-> "ok", shown |-> shown]]
               \/ certCall' = [certCall EXCEPT ![c].at = "failed"]
        BY <3>2 DEF Certs!Renew, Certs!IdleCall
      <4>2. QED
        BY <1>1, <4>1
    <3>3. QED
      BY <1>5, <3>1, <3>2
  <2>2. \A d \in CertDomains : c \notin stages[d]
    BY <1>1, <2>1 DEF CertInv, StagedOK, CertCallOK
  <2>3. CertCallOK(c)'
    BY <2>1 DEF CertCallOK, Certs!Busy, Certs!Writing
  <2>4. QED
    BY <1>1, <2>1, <2>2, <2>3, QuietCall
<1>6. QED
  BY <1>2, <1>3, <1>4, <1>5

\* Writing a file of a domain while another call is at it marks the domain.
LEMMA Writing1 ==
  ASSUME CertInv, NEW c \in Actors, Certs!WriteFirst(c)
  PROVE  CertInv'
<1>. DEFINE d == certCall[c].d
<1>1. /\ certCall[c].at = "first" /\ UNCHANGED server
      /\ d \in CertDomains /\ DOMAIN certCall[c] = {"at", "d", "kind", "cert", "key"} /\ certCall[c].cert = certCall[c].key
      /\ DOMAIN certCall = Actors /\ DOMAIN certDisk = CertDomains /\ DOMAIN stages = CertDomains
  BY DEF Certs!WriteFirst, CertInv, CertCallOK, Certs!Busy, Certs!Writing
<1>2. CASE /\ certDisk' = Certs!Written(c, "first")
           /\ certCall' = [certCall EXCEPT ![c].at = "second"] /\ UNCHANGED stages
           /\ certTorn' = IF Certs!Overlaps(c) THEN certTorn \cup {d} ELSE certTorn
  <2>1. /\ DOMAIN certCall' = Actors /\ \A o \in Actors \ {c} : certCall'[o] = certCall[o]
        /\ certCall'[c] = [certCall[c] EXCEPT !.at = "second"]
    BY <1>1, <1>2
  <2>2. /\ DOMAIN certDisk' = CertDomains /\ \A e \in CertDomains : DOMAIN certDisk'[e] = DOMAIN certDisk[e]
        /\ \A e \in CertDomains \ {d} : certDisk'[e] = certDisk[e]
        /\ IF certCall[c].kind = "custom" THEN certDisk'[d].cert = certCall[c].cert ELSE certDisk'[d].key = certCall[c].key
    BY <1>1, <1>2 DEF Certs!Written, CertInv
  <2>3. CertCallOK(c)' /\ HalfWritten(c)' /\ certCall'[c].at = "second" /\ certCall'[c].d = d
    BY <1>1, <2>1, <2>2 DEF CertCallOK, HalfWritten, Certs!Busy, Certs!Writing
  <2>4. ASSUME NEW o \in Actors \ {c}
        PROVE  CertCallOK(o)' /\ HalfWritten(o)'
    <3>1. CertCallOK(o) /\ HalfWritten(o) /\ certCall'[o] = certCall[o]
      BY <2>1 DEF CertInv
    <3>2. CertCallOK(o)'
      BY <3>1 DEF CertCallOK, Certs!Busy, Certs!Writing
    <3>3. CASE certCall[o].at = "second" /\ certCall[o].d = d
      <4>1. Certs!Overlaps(c)
        BY <3>3 DEF Certs!Overlaps, Certs!Writing
      <4>2. QED
        BY <1>2, <3>1, <3>2, <3>3, <4>1 DEF HalfWritten
    <3>4. CASE certCall[o].at = "second" /\ certCall[o].d # d
      <4>1. certCall[o].d \in CertDomains
        BY <3>1, <3>4 DEF CertCallOK, Certs!Busy
      <4>2. QED
        BY <1>2, <2>2, <3>1, <3>2, <3>4, <4>1 DEF HalfWritten
    <3>5. CASE certCall[o].at # "second"
      BY <3>1, <3>2, <3>5 DEF HalfWritten
    <3>6. QED
      BY <3>3, <3>4, <3>5
  <2>5. \A e \in CertDomains : PairMatched(e)'
    BY <1>1, <1>2, <2>1, <2>2, <2>3 DEF CertInv, PairMatched
  <2>6. \A e \in CertDomains : StagedOK(e)'
    BY <1>1, <1>2, <2>1, <2>3 DEF CertInv, StagedOK
  <2>7. QED
    BY <1>1, <1>2, <2>1, <2>2, <2>3, <2>4, <2>5, <2>6 DEF CertInv
<1>3. CASE /\ certCall' = [certCall EXCEPT ![c].at = "failed"]
           /\ stages' = Certs!DroppedStages(c) /\ UNCHANGED <<certDisk, certTorn>>
  <2>1. /\ DOMAIN certCall' = Actors /\ \A o \in Actors \ {c} : certCall'[o] = certCall[o]
        /\ DOMAIN certCall'[c] = DOMAIN certCall[c] /\ certCall'[c].at = "failed"
        /\ DOMAIN stages' = CertDomains /\ \A e \in CertDomains : stages'[e] \subseteq stages[e]
        /\ c \notin stages'[d]
    BY <1>1, <1>3 DEF Certs!DroppedStages
  <2>2. \A e \in CertDomains : c \in stages[e] => e = d
    BY <1>1 DEF CertInv, StagedOK
  <2>3. CertCallOK(c)'
    BY <1>1, <2>1 DEF CertCallOK, Certs!Busy, Certs!Writing
  <2>4. \A e \in CertDomains : c \notin stages'[e]
    BY <2>1, <2>2
  <2>5. QED
    BY <1>1, <1>3, <2>1, <2>3, <2>4, QuietCall
<1>4. QED
  BY <1>2, <1>3 DEF Certs!WriteFirst

LEMMA WritingPair ==
  ASSUME CertInv, NEW c \in Actors, Certs!WriteSecond(c)
  PROVE  CertInv'
<1>. DEFINE d == certCall[c].d
<1>1. /\ certCall[c].at = "second" /\ UNCHANGED server
      /\ d \in CertDomains /\ DOMAIN certCall[c] = {"at", "d", "kind", "cert", "key"} /\ certCall[c].cert = certCall[c].key
      /\ DOMAIN certCall = Actors /\ DOMAIN certDisk = CertDomains /\ DOMAIN stages = CertDomains
      /\ stages' = Certs!DroppedStages(c)
  BY DEF Certs!WriteSecond, CertInv, CertCallOK, Certs!Busy, Certs!Writing
<1>2. \E end \in {"reload", "failed"} : certCall' = [certCall EXCEPT ![c].at = end]
  BY DEF Certs!WriteSecond
<1>3. /\ DOMAIN certCall' = Actors /\ \A o \in Actors \ {c} : certCall'[o] = certCall[o]
      /\ DOMAIN certCall'[c] = DOMAIN certCall[c] /\ certCall'[c].at \in {"reload", "failed"} /\ certCall'[c].d = d
      /\ certCall'[c].at = "reload" \/ certCall'[c].at = "failed"
  BY <1>1, <1>2
<1>4. \A e \in CertDomains : StagedOK(e)'
  <2>1. /\ DOMAIN stages' = CertDomains /\ \A e \in CertDomains : stages'[e] \subseteq stages[e]
        /\ c \notin stages'[d]
    BY <1>1 DEF Certs!DroppedStages
  <2>2. \A e \in CertDomains : c \in stages[e] => e = d
    BY <1>1 DEF CertInv, StagedOK
  <2>3. QED
    BY <1>3, <2>1, <2>2 DEF CertInv, StagedOK
<1>5. \A o \in Actors : CertCallOK(o)'
  BY <1>1, <1>3 DEF CertInv, CertCallOK, Certs!Busy, Certs!Writing
<1>6. /\ DOMAIN certDisk' = CertDomains /\ \A e \in CertDomains : DOMAIN certDisk'[e] = DOMAIN certDisk[e]
      /\ \A e \in CertDomains \ {d} : certDisk'[e] = certDisk[e] /\ (e \in certTorn' <=> e \in certTorn)
  BY <1>1 DEF Certs!WriteSecond, Certs!Written, CertInv
<1>7. d \in certTorn' \/ certDisk'[d].cert = certDisk'[d].key
  <2>1. CASE /\ certDisk' = Certs!Written(c, "second")
             /\ certTorn' = IF Certs!Overlaps(c) THEN certTorn \cup {d}
                        ELSE IF certDisk'[d].cert = certDisk'[d].key THEN certTorn \ {d} ELSE certTorn
    <3>1. CASE d \in certTorn \/ Certs!Overlaps(c)
      BY <2>1, <3>1
    <3>2. CASE d \notin certTorn
      <4>1. IF certCall[c].kind = "custom" THEN certDisk[d].cert = certCall[c].cert ELSE certDisk[d].key = certCall[c].key
        BY <1>1, <3>2 DEF CertInv, HalfWritten
      <4>2. IF certCall[c].kind = "custom" THEN certDisk'[d].key = certCall[c].key /\ certDisk'[d].cert = certDisk[d].cert
            ELSE certDisk'[d].cert = certCall[c].cert /\ certDisk'[d].key = certDisk[d].key
        BY <1>1, <2>1 DEF Certs!Written, CertInv
      <4>3. QED
        BY <1>1, <4>1, <4>2
    <3>3. QED
      BY <3>1, <3>2
  <2>2. CASE certTorn' = certTorn \cup {d}
    BY <2>2
  <2>3. QED
    BY <2>1, <2>2 DEF Certs!WriteSecond
<1>8. \A e \in CertDomains : PairMatched(e)'
  BY <1>1, <1>3, <1>6, <1>7 DEF CertInv, PairMatched
<1>9. ASSUME NEW o \in Actors
      PROVE  HalfWritten(o)'
  <2>1. CASE o = c
    BY <1>3, <2>1 DEF HalfWritten
  <2>2. CASE o # c /\ certCall[o].at = "second" /\ certCall[o].d = d
    <3>1. Certs!Overlaps(c)
      BY <2>2 DEF Certs!Overlaps, Certs!Writing
    <3>2. d \in certTorn'
      BY <3>1 DEF Certs!WriteSecond
    <3>3. QED
      BY <1>3, <2>2, <3>2 DEF HalfWritten
  <2>3. CASE o # c /\ certCall[o].at = "second" /\ certCall[o].d # d
    <3>1. HalfWritten(o) /\ certCall'[o] = certCall[o] /\ certCall[o].d \in CertDomains
      BY <1>3, <2>3 DEF CertInv, CertCallOK, Certs!Busy
    <3>2. QED
      BY <1>6, <2>3, <3>1 DEF HalfWritten
  <2>4. CASE o # c /\ certCall[o].at # "second"
    BY <1>3, <2>4 DEF HalfWritten
  <2>5. QED
    BY <2>1, <2>2, <2>3, <2>4
<1>10. DOMAIN stages' = CertDomains
  BY <1>1 DEF Certs!DroppedStages
<1>11. QED
  BY <1>1, <1>3, <1>4, <1>5, <1>6, <1>8, <1>9, <1>10 DEF CertInv

LEMMA HelperDies ==
  ASSUME CertInv, NEW c \in Actors, Certs!Crash(c)
  PROVE  CertInv'
<1>1. /\ Certs!Busy(c) /\ UNCHANGED <<certDisk, stages, server>>
      /\ certTorn' = IF certCall[c].at = "second" THEN certTorn \cup {certCall[c].d} ELSE certTorn
      /\ certCall' = [certCall EXCEPT ![c] = [at |-> "failed", left |-> TRUE]]
  BY DEF Certs!Crash
<1>2. /\ DOMAIN certCall' = Actors /\ \A o \in Actors \ {c} : certCall'[o] = certCall[o]
      /\ DOMAIN certCall'[c] = {"at", "left"} /\ certCall'[c].at = "failed"
  BY <1>1 DEF CertInv
<1>3. \A o \in Actors : CertCallOK(o)'
  BY <1>2 DEF CertInv, CertCallOK, Certs!Busy, Certs!Writing
<1>4. \A o \in Actors : HalfWritten(o)'
  BY <1>1, <1>2 DEF CertInv, HalfWritten
<1>5. \A d \in CertDomains : PairMatched(d)'
  BY <1>1, <1>2 DEF CertInv, PairMatched
<1>6. \A d \in CertDomains : StagedOK(d)'
  BY <1>1, <1>2 DEF CertInv, StagedOK
<1>7. QED
  BY <1>1, <1>2, <1>3, <1>4, <1>5, <1>6 DEF CertInv

LEMMA ServingPair ==
  ASSUME CertInv,
         \/ \E s \in TlsServers : Certs!ReadChain(s) \/ Certs!ReadKey(s) \/ Certs!Stop(s)
         \/ UNCHANGED Certs!certVars
  PROVE  CertInv'
<1>1. UNCHANGED <<certDisk, stages, certCall, certTorn>>
  BY DEF Certs!ReadChain, Certs!ReadKey, Certs!Stop, Certs!certVars
<1>2. DOMAIN server' = TlsServers /\ \A s \in TlsServers : server'[s].at = "up" => server'[s].cert = server'[s].key
  <2>1. ASSUME NEW s \in TlsServers, Certs!ReadChain(s)
        PROVE  /\ DOMAIN server' = TlsServers /\ \A u \in TlsServers \ {s} : server'[u] = server[u]
               /\ server'[s].at # "up"
    BY <2>1 DEF Certs!ReadChain, CertInv
  <2>2. ASSUME NEW s \in TlsServers, Certs!ReadKey(s)
        PROVE  /\ DOMAIN server' = TlsServers /\ \A u \in TlsServers \ {s} : server'[u] = server[u]
               /\ server'[s].at = "up" => server'[s].cert = server'[s].key
    BY <2>2 DEF Certs!ReadKey, Certs!KeysMatch, CertInv
  <2>3. ASSUME NEW s \in TlsServers, Certs!Stop(s)
        PROVE  /\ DOMAIN server' = TlsServers /\ \A u \in TlsServers \ {s} : server'[u] = server[u]
               /\ server'[s].at # "up"
    BY <2>3 DEF Certs!Stop, Certs!Down, CertInv
  <2>4. QED
    BY <2>1, <2>2, <2>3 DEF CertInv, Certs!certVars
<1>3. QED
  BY <1>1, <1>2 DEF CertInv, PairMatched, StagedOK, CertCallOK, HalfWritten, Certs!Busy, Certs!Writing

LEMMA CertSteps ==
  ASSUME CertInv, [Certs!CertNext]_Certs!certVars
  PROVE  CertInv'
BY IssuingPair, PreparingPair, Writing1, WritingPair, HelperDies, ServingPair DEF Certs!CertNext

\* For any number of callers, domains and servers: chain and key of a domain belong
\* together unless a call is writing them, broke off between them or overlapped with
\* another; a server that runs serves a pair, whatever was being written as it read; and
\* no copy of a private key stays in a staging directory once its call has ended, unless
\* the helper died.
THEOREM CertificatesMatch ==
  Certs!Spec => [](Certs!PairsMatch /\ Certs!NoStrayKey)
<1>1. Certs!CertInit => CertInv
  BY CertInits
<1>2. CertInv /\ [Certs!CertNext]_Certs!certVars => CertInv'
  BY CertSteps
<1>3. CertInv => Certs!PairsMatch /\ Certs!NoStrayKey
  BY CertImplies
<1>4. QED
  BY <1>1, <1>2, <1>3, PTL DEF Certs!Spec

-----------------------------------------------------------------------------
(***************************************************************************)
(* Lookup tables and services (Tables). A call holds the locks of the      *)
(* tables it changes from its read to its last write, so its copy is the   *)
(* table on disk.                                                          *)
(***************************************************************************)
\* The tables a call changes.
TablesOf(c) == {Maps!Kinds[c.kind][i] : i \in DOMAIN Maps!Kinds[c.kind]}
\* The stages of a call.
TableStages == {"lock", "read", "write", "sync"}
CallShape(c) ==
    /\ DOMAIN c = {"at", "kind", "arg", "next", "copy", "answer"}
    /\ c.kind \in DOMAIN Maps!Kinds
    /\ c.next \in DOMAIN Maps!Kinds[c.kind]

\* A call holds the locks of its tables from the last one taken to its end.
HoldsTableLocks(o) ==
    /\ tableOp[o].at = "lock" => \A i \in DOMAIN Maps!Kinds[tableOp[o].kind] :
                               i < tableOp[o].next => locks[Maps!Kinds[tableOp[o].kind][i]] = o
    /\ tableOp[o].at \in {"read", "write", "sync"} => \A t \in TablesOf(tableOp[o]) : locks[t] = o

\* What it still has to write, it has as it is on disk.
CopyCurrent(o) ==
    \A i \in DOMAIN Maps!Kinds[tableOp[o].kind] :
       (tableOp[o].at = "write" /\ i <= tableOp[o].next) \/ (tableOp[o].at = "sync" /\ i < tableOp[o].next)
          => tableOp[o].copy[Maps!Kinds[tableOp[o].kind][i]] = table[Maps!Kinds[tableOp[o].kind][i]]

\* A compiled table differs from the text only between write and postmap.
CompiledUnlessSyncing ==
    broken = 0 /\ "postmap" \in programs =>
       \A t \in Maps!Tables :
          \/ compiled[t] = table[t]
          \/ \E o \in Actors : tableOp[o].at = "sync" /\ Maps!Kinds[tableOp[o].kind][tableOp[o].next] = t

\* The inductive invariant.
TablesInv ==
    /\ DOMAIN tableOp = Actors /\ broken \in Nat
    /\ DOMAIN table = Maps!Tables /\ DOMAIN compiled = Maps!Tables
    /\ DOMAIN intended = Maps!Tables /\ DOMAIN locks = Maps!Tables /\ DOMAIN running = Maps!Units
    /\ \A o \in Actors : "at" \in DOMAIN tableOp[o]
    /\ \A o \in Actors : tableOp[o].at \in TableStages => CallShape(tableOp[o]) /\ HoldsTableLocks(o) /\ CopyCurrent(o)
    /\ table = intended
    /\ CompiledUnlessSyncing

LEMMA KindsFacts ==
  \A k \in DOMAIN Maps!Kinds :
     /\ DOMAIN Maps!Kinds[k] = 1..Len(Maps!Kinds[k]) /\ Len(Maps!Kinds[k]) \in Nat
     /\ \A i \in DOMAIN Maps!Kinds[k] : i \in 1..2 /\ Maps!Kinds[k][i] \in Maps!Tables
     /\ \A i, j \in DOMAIN Maps!Kinds[k] : Maps!Kinds[k][i] = Maps!Kinds[k][j] => i = j
BY DEF Maps!Kinds, Maps!Tables

LEMMA TablesInits ==
  ASSUME Maps!TablesConstants, Maps!TablesInit
  PROVE  TablesInv
BY DEF Maps!TablesInit, TablesInv, TableStages, CompiledUnlessSyncing, Maps!Tables, Maps!Units, Maps!Idle

LEMMA TablesImplies ==
  ASSUME Maps!TablesConstants, TablesInv
  PROVE  Maps!NoChangeLost
<1>1. ASSUME NEW t \in Maps!Tables, NEW o \in Actors, tableOp[o].at = "sync",
             Maps!Kinds[tableOp[o].kind][tableOp[o].next] = t
      PROVE  locks[t] = o
  BY <1>1, KindsFacts DEF TablesInv, TableStages, CallShape, HoldsTableLocks, TablesOf
<1>2. QED
  BY <1>1 DEF TablesInv, Maps!NoChangeLost, CompiledUnlessSyncing, Maps!TablesConstants

\* What a call's step leaves of the others.
LEMMA OtherCallsKept ==
  ASSUME Maps!TablesConstants, TablesInv, NEW o \in Actors,
         \A p \in Actors \ {o} : tableOp'[p] = tableOp[p],
         \A t \in Maps!Tables : locks'[t] = locks[t] \/ locks[t] \in {"none", o},
         \A t \in Maps!Tables : table'[t] = table[t] \/ locks[t] = o,
         NEW p \in Actors \ {o}, tableOp'[p].at \in TableStages
  PROVE  CallShape(tableOp'[p]) /\ HoldsTableLocks(p)' /\ CopyCurrent(p)'
<1>1. tableOp'[p] = tableOp[p] /\ CallShape(tableOp[p]) /\ HoldsTableLocks(p) /\ CopyCurrent(p) /\ p # o /\ p # "none"
  BY DEF TablesInv, Maps!TablesConstants
<1>2. \A i \in DOMAIN Maps!Kinds[tableOp[p].kind] : Maps!Kinds[tableOp[p].kind][i] \in Maps!Tables
  BY <1>1, KindsFacts DEF CallShape
<1>3. HoldsTableLocks(p)'
  BY <1>1, <1>2 DEF HoldsTableLocks, TablesOf
<1>4. CopyCurrent(p)'
  <2>1. ASSUME NEW i \in DOMAIN Maps!Kinds[tableOp[p].kind],
               (tableOp[p].at = "write" /\ i <= tableOp[p].next) \/ (tableOp[p].at = "sync" /\ i < tableOp[p].next)
        PROVE  tableOp[p].copy[Maps!Kinds[tableOp[p].kind][i]] = table'[Maps!Kinds[tableOp[p].kind][i]]
    BY <2>1, <1>1, <1>2 DEF HoldsTableLocks, CopyCurrent, TablesOf
  <2>2. QED
    BY <2>1, <1>1 DEF CopyCurrent
<1>5. QED
  BY <1>1, <1>3, <1>4

\* A step that writes no table and compiles none leaves the pending ones.
LEMMA StillCompiled ==
  ASSUME TablesInv, NEW o \in Actors,
         broken' = 0 => broken = 0, UNCHANGED <<table, compiled, programs>>,
         \A p \in Actors \ {o} : tableOp'[p] = tableOp[p],
         tableOp[o].at # "sync"
  PROVE  CompiledUnlessSyncing'
<1>1. \A p \in Actors : tableOp[p].at = "sync" => tableOp'[p] = tableOp[p]
  OBVIOUS
<1>2. QED
  BY <1>1 DEF TablesInv, CompiledUnlessSyncing

LEMMA FaultCounts ==
  ASSUME broken \in Nat, Maps!Fault \/ Maps!NoFault
  PROVE  broken' \in Nat /\ (broken' = 0 => broken = 0 /\ Maps!NoFault)
BY DEF Maps!Fault, Maps!NoFault

\* finish gives back the locks of the call and no other's.
LEMMA FinishFacts ==
  ASSUME Maps!TablesConstants, TablesInv, NEW o \in Actors, NEW told, Maps!Finish(o, told)
  PROVE  /\ DOMAIN tableOp' = Actors /\ DOMAIN locks' = Maps!Tables
         /\ \A p \in Actors \ {o} : tableOp'[p] = tableOp[p]
         /\ "at" \in DOMAIN tableOp'[o] /\ tableOp'[o].at = "done"
         /\ \A t \in Maps!Tables : locks'[t] = locks[t] \/ locks[t] \in {"none", o}
BY DEF Maps!Finish, Maps!Unlocked, TablesInv

LEMMA TablesSteps ==
  ASSUME Maps!TablesConstants, TablesInv, [Maps!TablesNext]_Maps!tableVars
  PROVE  TablesInv'
<1>1. ASSUME NEW o \in Actors, Maps!ServiceAction(o)
      PROVE  TablesInv'
  <2>1. /\ UNCHANGED <<table, compiled, intended, locks, programs>>
        /\ DOMAIN tableOp' = Actors /\ \A p \in Actors \ {o} : tableOp'[p] = tableOp[p]
        /\ "at" \in DOMAIN tableOp'[o] /\ tableOp'[o].at = "done" /\ tableOp[o].at = "idle"
        /\ DOMAIN running' = DOMAIN running
        /\ Maps!Fault \/ Maps!NoFault
    BY <1>1 DEF Maps!ServiceAction, Maps!Does, Maps!Idle, TablesInv
  <2>2. CompiledUnlessSyncing'
    BY <2>1, StillCompiled, FaultCounts DEF TablesInv
  <2>3. \A p \in Actors \ {o} : tableOp'[p].at \in TableStages => CallShape(tableOp'[p]) /\ HoldsTableLocks(p)' /\ CopyCurrent(p)'
    BY <2>1, OtherCallsKept
  <2>4. QED
    BY <2>1, <2>2, <2>3, FaultCounts DEF TablesInv, TableStages
<1>2. ASSUME NEW o \in Actors, Maps!Call(o)
      PROVE  TablesInv'
  <2>1. /\ UNCHANGED <<table, compiled, intended, locks, programs, running, broken>>
        /\ DOMAIN tableOp' = Actors /\ \A p \in Actors \ {o} : tableOp'[p] = tableOp[p]
        /\ tableOp[o].at = "idle"
    BY <1>2 DEF Maps!Call, Maps!Idle, TablesInv
  <2>2. PICK k \in DOMAIN Maps!Kinds : \E x :
           tableOp'[o] = [at |-> "lock", kind |-> k, arg |-> x, next |-> 1, copy |-> table, answer |-> "none"]
    BY <1>2 DEF Maps!Call, TablesInv
  <2>3. 1 \in DOMAIN Maps!Kinds[k] /\ \A i \in DOMAIN Maps!Kinds[k] : ~(i < 1)
    BY DEF Maps!Kinds
  <2>4. CallShape(tableOp'[o]) /\ HoldsTableLocks(o)' /\ CopyCurrent(o)'
    BY <2>2, <2>3 DEF CallShape, HoldsTableLocks, CopyCurrent
  <2>5. CompiledUnlessSyncing'
    BY <2>1, StillCompiled
  <2>6. \A p \in Actors \ {o} : tableOp'[p].at \in TableStages => CallShape(tableOp'[p]) /\ HoldsTableLocks(p)' /\ CopyCurrent(p)'
    BY <2>1, OtherCallsKept
  <2>7. QED
    BY <2>1, <2>2, <2>4, <2>5, <2>6 DEF TablesInv, TableStages
<1>3. ASSUME NEW o \in Actors, Maps!TakeLock(o)
      PROVE  TablesInv'
  <2>. DEFINE k == tableOp[o].kind
              n == tableOp[o].next
              t == Maps!Kinds[k][n]
  <2>1. /\ tableOp[o].at = "lock" /\ CallShape(tableOp[o]) /\ HoldsTableLocks(o)
        /\ locks[t] = "none" /\ locks' = [locks EXCEPT ![t] = o]
        /\ UNCHANGED <<table, compiled, intended, programs, running, broken>>
        /\ DOMAIN tableOp' = Actors /\ \A p \in Actors \ {o} : tableOp'[p] = tableOp[p]
        /\ tableOp'[o] = IF n < Len(Maps!Kinds[k]) THEN [tableOp[o] EXCEPT !.next = @ + 1] ELSE [tableOp[o] EXCEPT !.at = "read"]
    BY <1>3 DEF Maps!TakeLock, Maps!FreeLock, TablesInv, TableStages
  <2>2. /\ t \in Maps!Tables /\ k \in DOMAIN Maps!Kinds /\ n \in DOMAIN Maps!Kinds[k] /\ n \in Nat
        /\ DOMAIN Maps!Kinds[k] = 1..Len(Maps!Kinds[k]) /\ Len(Maps!Kinds[k]) \in Nat
        /\ \A i \in DOMAIN Maps!Kinds[k] : Maps!Kinds[k][i] \in Maps!Tables
        /\ \A i, j \in DOMAIN Maps!Kinds[k] : Maps!Kinds[k][i] = Maps!Kinds[k][j] => i = j
    BY <2>1, KindsFacts DEF CallShape
  <2>3. \A i \in DOMAIN Maps!Kinds[k] : i <= n => locks'[Maps!Kinds[k][i]] = o
    <3>1. SUFFICES ASSUME NEW i \in DOMAIN Maps!Kinds[k], i <= n
                   PROVE  locks'[Maps!Kinds[k][i]] = o
      OBVIOUS
    <3>2. i = n \/ i < n
      BY <2>2, <3>1
    <3>3. DOMAIN locks = Maps!Tables
      BY DEF TablesInv
    <3>4. QED
      BY <2>1, <2>2, <3>1, <3>2, <3>3 DEF HoldsTableLocks
  <2>4. CallShape(tableOp'[o]) /\ HoldsTableLocks(o)' /\ CopyCurrent(o)' /\ tableOp'[o].at \in {"lock", "read"}
    <3>1. CASE n < Len(Maps!Kinds[k])
      <4>1. /\ tableOp'[o].at = "lock" /\ tableOp'[o].kind = k /\ tableOp'[o].next = n + 1
            /\ DOMAIN tableOp'[o] = {"at", "kind", "arg", "next", "copy", "answer"}
        BY <2>1, <3>1 DEF CallShape
      <4>2. n + 1 \in DOMAIN Maps!Kinds[k]
        BY <2>2, <3>1
      <4>3. \A i \in DOMAIN Maps!Kinds[k] : i < n + 1 => i <= n
        BY <2>2
      <4>4. HoldsTableLocks(o)'
        BY <4>1, <4>3, <2>3 DEF HoldsTableLocks
      <4>5. QED
        BY <4>1, <4>2, <4>4, <2>2 DEF CallShape, CopyCurrent
    <3>2. CASE ~(n < Len(Maps!Kinds[k]))
      <4>1. /\ tableOp'[o].at = "read" /\ tableOp'[o].kind = k /\ tableOp'[o].next = n
            /\ DOMAIN tableOp'[o] = {"at", "kind", "arg", "next", "copy", "answer"}
        BY <2>1, <3>2 DEF CallShape
      <4>2. \A i \in DOMAIN Maps!Kinds[k] : i <= n
        BY <2>2, <3>2
      <4>3. HoldsTableLocks(o)'
        BY <4>1, <4>2, <2>3 DEF HoldsTableLocks, TablesOf
      <4>4. QED
        BY <4>1, <4>3, <2>2 DEF CallShape, CopyCurrent
    <3>3. QED
      BY <3>1, <3>2
  <2>5. CompiledUnlessSyncing'
    BY <2>1, StillCompiled
  <2>6. DOMAIN locks' = Maps!Tables /\ \A u \in Maps!Tables : locks'[u] = locks[u] \/ locks[u] \in {"none", o}
    BY <2>1 DEF TablesInv
  <2>7. \A p \in Actors \ {o} : tableOp'[p].at \in TableStages => CallShape(tableOp'[p]) /\ HoldsTableLocks(p)' /\ CopyCurrent(p)'
    BY <2>1, <2>6, OtherCallsKept
  <2>8. QED
    BY <2>1, <2>4, <2>5, <2>6, <2>7 DEF TablesInv, CallShape
<1>4. ASSUME NEW o \in Actors, Maps!Read(o)
      PROVE  TablesInv'
  <2>1. /\ tableOp[o].at = "read" /\ CallShape(tableOp[o]) /\ HoldsTableLocks(o)
        /\ UNCHANGED <<table, compiled, intended, programs, running>>
        /\ Maps!Fault \/ Maps!NoFault
    BY <1>4 DEF Maps!Read, TablesInv, TableStages
  <2>2. CASE tableOp' = [tableOp EXCEPT ![o] = [tableOp[o] EXCEPT !.at = "write", !.copy = table]] /\ UNCHANGED locks
    <3>1. /\ DOMAIN tableOp' = Actors /\ \A p \in Actors \ {o} : tableOp'[p] = tableOp[p]
          /\ tableOp'[o] = [tableOp[o] EXCEPT !.at = "write", !.copy = table]
      BY <2>2 DEF TablesInv
    <3>2. /\ tableOp'[o].at = "write" /\ tableOp'[o].kind = tableOp[o].kind /\ tableOp'[o].next = tableOp[o].next /\ tableOp'[o].copy = table
          /\ DOMAIN tableOp'[o] = {"at", "kind", "arg", "next", "copy", "answer"}
      BY <3>1, <2>1 DEF CallShape
    <3>3. CallShape(tableOp'[o]) /\ HoldsTableLocks(o)' /\ CopyCurrent(o)'
      BY <2>1, <2>2, <3>2 DEF CallShape, HoldsTableLocks, TablesOf, CopyCurrent
    <3>4. CompiledUnlessSyncing' /\ broken' \in Nat
      BY <2>1, <3>1, StillCompiled, FaultCounts DEF TablesInv
    <3>5. \A p \in Actors \ {o} : tableOp'[p].at \in TableStages => CallShape(tableOp'[p]) /\ HoldsTableLocks(p)' /\ CopyCurrent(p)'
      BY <2>1, <2>2, <3>1, OtherCallsKept
    <3>6. QED
      BY <2>1, <2>2, <3>1, <3>2, <3>3, <3>4, <3>5 DEF TablesInv
  <2>3. CASE Maps!Finish(o, "error")
    <3>1. CompiledUnlessSyncing' /\ broken' \in Nat
      BY <2>1, <2>3, FinishFacts, StillCompiled, FaultCounts DEF TablesInv
    <3>2. \A p \in Actors \ {o} : tableOp'[p].at \in TableStages => CallShape(tableOp'[p]) /\ HoldsTableLocks(p)' /\ CopyCurrent(p)'
      BY <2>1, <2>3, FinishFacts, OtherCallsKept
    <3>3. QED
      BY <2>1, <2>3, <3>1, <3>2, FinishFacts DEF TablesInv, TableStages
  <2>4. QED
    BY <1>4, <2>2, <2>3 DEF Maps!Read
<1>5. ASSUME NEW o \in Actors, Maps!Again(o)
      PROVE  TablesInv'
  <2>1. /\ tableOp[o].at = "done" /\ DOMAIN tableOp' = Actors /\ \A p \in Actors \ {o} : tableOp'[p] = tableOp[p]
        /\ tableOp'[o].at = "idle" /\ "at" \in DOMAIN tableOp'[o]
        /\ UNCHANGED <<table, compiled, intended, locks, programs, running, broken>>
    BY <1>5 DEF Maps!Again, Maps!Idle, TablesInv
  <2>2. CompiledUnlessSyncing'
    BY <2>1, StillCompiled
  <2>3. \A p \in Actors \ {o} : tableOp'[p].at \in TableStages => CallShape(tableOp'[p]) /\ HoldsTableLocks(p)' /\ CopyCurrent(p)'
    BY <2>1, OtherCallsKept
  <2>4. QED
    BY <2>1, <2>2, <2>3 DEF TablesInv, TableStages
<1>6. ASSUME UNCHANGED <<table, compiled, intended, locks, tableOp, programs, running>>, Maps!Fault \/ Maps!NoFault
      PROVE  TablesInv'
  BY <1>6, FaultCounts DEF TablesInv, CompiledUnlessSyncing, HoldsTableLocks, CopyCurrent
<1>7. ASSUME NEW o \in Actors, Maps!Write(o)
      PROVE  TablesInv'
  <2>. DEFINE k == tableOp[o].kind
              n == tableOp[o].next
              t == Maps!Kinds[k][n]
  <2>1. /\ tableOp[o].at = "write" /\ CallShape(tableOp[o]) /\ HoldsTableLocks(o) /\ CopyCurrent(o)
        /\ UNCHANGED <<compiled, programs, running>>
        /\ Maps!Fault \/ Maps!NoFault
    BY <1>7 DEF Maps!Write, TablesInv, TableStages
  <2>2. /\ t \in Maps!Tables /\ k \in DOMAIN Maps!Kinds /\ n \in DOMAIN Maps!Kinds[k] /\ n \in Nat
        /\ DOMAIN Maps!Kinds[k] = 1..Len(Maps!Kinds[k]) /\ Len(Maps!Kinds[k]) \in Nat
        /\ \A i \in DOMAIN Maps!Kinds[k] : Maps!Kinds[k][i] \in Maps!Tables
        /\ \A i, j \in DOMAIN Maps!Kinds[k] : Maps!Kinds[k][i] = Maps!Kinds[k][j] => i = j
    BY <2>1, KindsFacts DEF CallShape
  <2>3. locks[t] = o /\ tableOp[o].copy[t] = table[t]
    <3>1. n <= n /\ t \in TablesOf(tableOp[o])
      BY <2>2 DEF TablesOf
    <3>2. locks[t] = o
      BY <2>1, <3>1 DEF HoldsTableLocks
    <3>3. QED
      BY <2>1, <2>2, <3>1, <3>2 DEF CopyCurrent
  <2>4. CASE /\ table' = [table EXCEPT ![t] = Maps!Changed(tableOp[o], t, tableOp[o].copy[t])]
             /\ intended' = [intended EXCEPT ![t] = Maps!Changed(tableOp[o], t, @)]
             /\ tableOp' = [tableOp EXCEPT ![o].at = "sync"]
             /\ UNCHANGED locks
    <3>1. /\ DOMAIN tableOp' = Actors /\ \A p \in Actors \ {o} : tableOp'[p] = tableOp[p]
          /\ tableOp'[o] = [tableOp[o] EXCEPT !.at = "sync"]
      BY <2>4 DEF TablesInv
    <3>2. /\ tableOp'[o].at = "sync" /\ tableOp'[o].kind = k /\ tableOp'[o].next = n /\ tableOp'[o].copy = tableOp[o].copy
          /\ DOMAIN tableOp'[o] = {"at", "kind", "arg", "next", "copy", "answer"}
      BY <3>1, <2>1 DEF CallShape
    <3>3. /\ table' = intended' /\ DOMAIN table' = Maps!Tables
          /\ \A u \in Maps!Tables \ {t} : table'[u] = table[u]
      BY <2>3, <2>4 DEF TablesInv
    <3>4. CallShape(tableOp'[o]) /\ HoldsTableLocks(o)'
      BY <2>1, <2>2, <2>4, <3>2 DEF CallShape, HoldsTableLocks, TablesOf
    <3>5. CopyCurrent(o)'
      <4>1. ASSUME NEW i \in DOMAIN Maps!Kinds[k], i < n
            PROVE  tableOp[o].copy[Maps!Kinds[k][i]] = table'[Maps!Kinds[k][i]]
        <5>1. Maps!Kinds[k][i] # t /\ i <= n
          BY <2>2, <4>1
        <5>2. QED
          BY <2>1, <2>2, <3>3, <4>1, <5>1 DEF CopyCurrent
      <4>2. QED
        BY <3>2, <4>1 DEF CopyCurrent
    <3>6. CompiledUnlessSyncing'
      <4>1. SUFFICES ASSUME broken' = 0, "postmap" \in programs', NEW u \in Maps!Tables
                     PROVE  \/ compiled'[u] = table'[u]
                            \/ \E p \in Actors : tableOp'[p].at = "sync" /\ Maps!Kinds[tableOp'[p].kind][tableOp'[p].next] = u
        BY DEF CompiledUnlessSyncing
      <4>2. CASE u = t
        BY <4>2, <3>2
      <4>3. CASE u # t
        <5>1. \/ compiled[u] = table[u]
              \/ \E p \in Actors : tableOp[p].at = "sync" /\ Maps!Kinds[tableOp[p].kind][tableOp[p].next] = u
          BY <4>1, <2>1, FaultCounts DEF TablesInv, CompiledUnlessSyncing
        <5>2. \A p \in Actors : tableOp[p].at = "sync" => tableOp'[p] = tableOp[p]
          BY <2>1, <3>1
        <5>3. QED
          BY <5>1, <5>2, <4>3, <3>3, <2>1
      <4>4. QED
        BY <4>2, <4>3
    <3>7. \A p \in Actors \ {o} : tableOp'[p].at \in TableStages => CallShape(tableOp'[p]) /\ HoldsTableLocks(p)' /\ CopyCurrent(p)'
      <4>1. \A u \in Maps!Tables : locks'[u] = locks[u] /\ (table'[u] = table[u] \/ locks[u] = o)
        BY <2>3, <2>4, <3>3
      <4>2. QED
        BY <3>1, <4>1, OtherCallsKept
    <3>8. DOMAIN intended' = Maps!Tables /\ broken' \in Nat
      BY <2>1, <2>4, FaultCounts DEF TablesInv
    <3>9. QED
      BY <2>1, <2>4, <3>1, <3>2, <3>3, <3>4, <3>5, <3>6, <3>7, <3>8 DEF TablesInv
  <2>5. CASE Maps!Finish(o, "error") /\ UNCHANGED <<table, intended>>
    <3>1. CompiledUnlessSyncing' /\ broken' \in Nat
      BY <2>1, <2>5, FinishFacts, StillCompiled, FaultCounts DEF TablesInv
    <3>2. \A p \in Actors \ {o} : tableOp'[p].at \in TableStages => CallShape(tableOp'[p]) /\ HoldsTableLocks(p)' /\ CopyCurrent(p)'
      BY <2>1, <2>5, FinishFacts, OtherCallsKept
    <3>3. QED
      BY <2>1, <2>5, <3>1, <3>2, FinishFacts DEF TablesInv, TableStages
  <2>6. QED
    BY <1>7, <2>4, <2>5 DEF Maps!Write
<1>8. ASSUME NEW o \in Actors, Maps!Sync(o)
      PROVE  TablesInv'
  <2>. DEFINE k == tableOp[o].kind
              n == tableOp[o].next
              t == Maps!Kinds[k][n]
  <2>1. /\ tableOp[o].at = "sync" /\ CallShape(tableOp[o]) /\ HoldsTableLocks(o) /\ CopyCurrent(o)
        /\ UNCHANGED <<table, intended, programs>>
    BY <1>8 DEF Maps!Sync, TablesInv, TableStages
  <2>2. /\ t \in Maps!Tables /\ k \in DOMAIN Maps!Kinds /\ n \in DOMAIN Maps!Kinds[k] /\ n \in Nat
        /\ DOMAIN Maps!Kinds[k] = 1..Len(Maps!Kinds[k]) /\ Len(Maps!Kinds[k]) \in Nat
        /\ \A i \in DOMAIN Maps!Kinds[k] : Maps!Kinds[k][i] \in Maps!Tables
    BY <2>1, KindsFacts DEF CallShape
  <2>3. /\ Maps!Fault \/ Maps!NoFault
        /\ DOMAIN running' = DOMAIN running
        /\ compiled' = compiled \/ compiled' = [compiled EXCEPT ![t] = table[t]]
        /\ broken' = 0 /\ "postmap" \in programs => compiled' = [compiled EXCEPT ![t] = table[t]]
    <3>1. CASE "postmap" \notin programs
      BY <1>8, <3>1 DEF Maps!Sync
    <3>2. CASE "postmap" \in programs
      <4>1. PICK postmap \in {"ok", "bad", "late"}, check \in {"ok", "bad"}, end \in {"ok", "bad", "gone"} : \E b :
               /\ Maps!Does("postfix", b, end)
               /\ IF postmap = "ok" /\ check = "ok" THEN Maps!Cost(b, end) ELSE Maps!Fault
               /\ compiled' = IF postmap = "ok" THEN [compiled EXCEPT ![t] = table[t]] ELSE compiled
        BY <1>8, <3>2 DEF Maps!Sync
      <4>2. Maps!Fault \/ Maps!NoFault
        BY <4>1 DEF Maps!Cost
      <4>3. broken' = 0 => postmap = "ok"
        BY <4>1 DEF Maps!Fault, TablesInv
      <4>4. DOMAIN running' = DOMAIN running
        BY <4>1 DEF Maps!Does
      <4>5. QED
        BY <4>1, <4>2, <4>3, <4>4
    <3>3. QED
      BY <3>1, <3>2
  <2>4. \/ \E told : Maps!Finish(o, told)
        \/ n > 1 /\ tableOp' = [tableOp EXCEPT ![o].at = "write", ![o].next = @ - 1] /\ UNCHANGED locks
    BY <1>8 DEF Maps!Sync
  <2>5. /\ DOMAIN tableOp' = Actors /\ DOMAIN locks' = Maps!Tables
        /\ \A p \in Actors \ {o} : tableOp'[p] = tableOp[p]
        /\ \A u \in Maps!Tables : locks'[u] = locks[u] \/ locks[u] \in {"none", o}
    BY <2>4, FinishFacts DEF TablesInv
  <2>6. "at" \in DOMAIN tableOp'[o] /\ (tableOp'[o].at \in TableStages => CallShape(tableOp'[o]) /\ HoldsTableLocks(o)' /\ CopyCurrent(o)')
    <3>1. CASE \E told : Maps!Finish(o, told)
      BY <3>1, FinishFacts DEF TableStages
    <3>2. CASE n > 1 /\ tableOp' = [tableOp EXCEPT ![o].at = "write", ![o].next = @ - 1] /\ UNCHANGED locks
      <4>1. /\ tableOp'[o].at = "write" /\ tableOp'[o].kind = k /\ tableOp'[o].next = n - 1 /\ tableOp'[o].copy = tableOp[o].copy
            /\ DOMAIN tableOp'[o] = {"at", "kind", "arg", "next", "copy", "answer"}
        BY <3>2, <2>1 DEF CallShape, TablesInv
      <4>2. n - 1 \in DOMAIN Maps!Kinds[k] /\ \A i \in DOMAIN Maps!Kinds[k] : i <= n - 1 => i < n
        BY <2>2, <3>2
      <4>3. CopyCurrent(o)'
        BY <2>1, <4>1, <4>2 DEF CopyCurrent
      <4>4. HoldsTableLocks(o)'
        <5>1. TablesOf(tableOp[o])' = TablesOf(tableOp[o]) /\ locks' = locks
          BY <3>2, <4>1 DEF TablesOf
        <5>2. QED
          BY <2>1, <4>1, <5>1 DEF HoldsTableLocks
      <4>5. QED
        BY <2>2, <4>1, <4>2, <4>3, <4>4 DEF CallShape
    <3>3. QED
      BY <2>4, <3>1, <3>2
  <2>7. CompiledUnlessSyncing'
    <3>1. SUFFICES ASSUME broken' = 0, "postmap" \in programs', NEW u \in Maps!Tables
                   PROVE  \/ compiled'[u] = table'[u]
                          \/ \E p \in Actors : tableOp'[p].at = "sync" /\ Maps!Kinds[tableOp'[p].kind][tableOp'[p].next] = u
      BY DEF CompiledUnlessSyncing
    <3>2. compiled' = [compiled EXCEPT ![t] = table[t]] /\ table' = table /\ DOMAIN compiled = Maps!Tables
      BY <2>1, <2>3, <3>1 DEF TablesInv
    <3>3. CASE u = t
      BY <3>2, <3>3, <2>2
    <3>4. CASE u # t
      <4>1. \/ compiled[u] = table[u]
            \/ \E p \in Actors : tableOp[p].at = "sync" /\ Maps!Kinds[tableOp[p].kind][tableOp[p].next] = u
        BY <3>1, <2>1, <2>3, FaultCounts DEF TablesInv, CompiledUnlessSyncing
      <4>2. QED
        BY <4>1, <3>4, <3>2, <2>5
    <3>5. QED
      BY <3>3, <3>4
  <2>8. \A p \in Actors \ {o} : tableOp'[p].at \in TableStages => CallShape(tableOp'[p]) /\ HoldsTableLocks(p)' /\ CopyCurrent(p)'
    BY <2>1, <2>5, OtherCallsKept
  <2>9. broken' \in Nat /\ DOMAIN compiled' = Maps!Tables
    BY <2>3, FaultCounts DEF TablesInv
  <2>10. QED
    BY <2>1, <2>3, <2>5, <2>6, <2>7, <2>8, <2>9 DEF TablesInv
<1>9. ASSUME Maps!Rcpt \/ Maps!Deliver \/ UNCHANGED Maps!tableVars
      PROVE  TablesInv'
  <2>1. UNCHANGED <<table, compiled, intended, locks, tableOp, programs, running>> /\ (Maps!Fault \/ Maps!NoFault)
    BY <1>9 DEF Maps!Rcpt, Maps!Deliver, Maps!tableVars, Maps!NoFault
  <2>2. QED
    BY <2>1, <1>6
<1>10. QED
  BY <1>1, <1>2, <1>3, <1>4, <1>5, <1>7, <1>8, <1>9 DEF Maps!TablesNext

\* For any number of operators: the tables hold what all the written changes together
\* made of them, so none is lost to another call's older copy (locked_with, write_rows),
\* and while postmap works the compiled table equals the text whenever no call holds its
\* lock (require_postfix_sync).
THEOREM NoTableChangeLost ==
  ASSUME Maps!TablesConstants
  PROVE  Maps!Spec => []Maps!NoChangeLost
<1>1. Maps!TablesInit => TablesInv
  BY TablesInits
<1>2. TablesInv /\ [Maps!TablesNext]_Maps!tableVars => TablesInv'
  BY TablesSteps
<1>3. TablesInv => Maps!NoChangeLost
  BY TablesImplies
<1>4. QED
  BY <1>1, <1>2, <1>3, PTL DEF Maps!Spec

\* A step that answers a service action.
LEMMA ServiceSteps ==
  ASSUME TablesInv, [Maps!TablesNext]_Maps!tableVars
  PROVE  Maps!ServiceAnswer
<1>1. SUFFICES ASSUME NEW o \in Actors, tableOp[o] = Maps!Idle, tableOp'[o].at = "done", tableOp'[o].kind = "service",
                      tableOp'[o].answer = "ok", tableOp'[o].with # "noop"
               PROVE  running'[tableOp'[o].arg] = (tableOp'[o].verb # "stop")
  BY DEF Maps!ServiceAnswer
<1>2. tableOp[o].at = "idle"
  BY <1>1 DEF Maps!Idle
<1>3. Maps!ServiceAction(o)
  <2>1. tableOp'[o] # tableOp[o]
    BY <1>1, <1>2
  <2>2. ~UNCHANGED tableOp
    BY <2>1
  <2>3. PICK p \in Actors : \/ Maps!ServiceAction(p) \/ Maps!Call(p) \/ Maps!TakeLock(p) \/ Maps!Read(p)
                                \/ Maps!Write(p) \/ Maps!Sync(p) \/ Maps!Again(p)
    BY <2>2 DEF Maps!TablesNext, Maps!tableVars, Maps!Rcpt, Maps!Deliver
  <2>4. p = o
    <3>1. \E x : tableOp' = [tableOp EXCEPT ![p] = x]
      BY <2>3 DEF Maps!ServiceAction, Maps!Call, Maps!TakeLock, Maps!Read, Maps!Write, Maps!Sync, Maps!Again, Maps!Finish
    <3>2. QED
      BY <2>1, <3>1 DEF TablesInv
  <2>5. ~Maps!Call(o)
    <3>1. SUFFICES ASSUME Maps!Call(o) PROVE FALSE
      OBVIOUS
    <3>2. tableOp'[o].at = "lock"
      BY <3>1 DEF Maps!Call, TablesInv
    <3>3. QED
      BY <3>2, <1>1
  <2>6. QED
    BY <2>3, <2>4, <2>5, <1>2 DEF Maps!TakeLock, Maps!Read, Maps!Write, Maps!Sync, Maps!Again
<1>4. PICK unit \in Maps!Units, verb \in {"start", "stop", "restart", "reload"}, end \in Maps!Ends :
         /\ Maps!Does(unit, Maps!Backend(unit, verb), end)
         /\ tableOp' = [tableOp EXCEPT ![o] = [at |-> "done", kind |-> "service", arg |-> unit, verb |-> verb,
                                     with |-> Maps!Backend(unit, verb).with,
                                     answer |-> IF Maps!Success(Maps!Backend(unit, verb).with, end) THEN "ok" ELSE "error"]]
  BY <1>3 DEF Maps!ServiceAction
<1>5. /\ tableOp'[o].arg = unit /\ tableOp'[o].verb = verb /\ tableOp'[o].with = Maps!Backend(unit, verb).with
      /\ tableOp'[o].answer = IF Maps!Success(Maps!Backend(unit, verb).with, end) THEN "ok" ELSE "error"
  BY <1>4 DEF TablesInv
<1>6. end = "ok" /\ Maps!Backend(unit, verb).with # "noop"
  BY <1>1, <1>5 DEF Maps!Success
<1>7. PICK w : Maps!Backend(unit, verb) = [with |-> w, verb |-> Maps!Mapped(w, verb)]
  BY DEF Maps!Backend
<1>8. (Maps!Mapped(w, verb) # "stop") = (verb # "stop")
  BY DEF Maps!Mapped
<1>9. running' = [running EXCEPT ![unit] = Maps!Mapped(w, verb) # "stop"]
  BY <1>4, <1>6, <1>7 DEF Maps!Does
<1>10. QED
  BY <1>5, <1>8, <1>9 DEF TablesInv

\* A service action that answers success on a host with a service manager left the
\* service as asked: a command that never started, or was killed at its deadline, is not
\* a success (ServiceCtlOutcome::success).
THEOREM ServiceAnswersTrue ==
  ASSUME Maps!TablesConstants
  PROVE  Maps!Spec => Maps!ServiceAnswerTrue
<1>1. Maps!TablesInit => TablesInv
  BY TablesInits
<1>2. TablesInv /\ [Maps!TablesNext]_Maps!tableVars => TablesInv'
  BY TablesSteps
<1>3. TablesInv /\ [Maps!TablesNext]_Maps!tableVars => [Maps!ServiceAnswer]_Maps!tableVars
  BY ServiceSteps
<1>4. QED
  BY <1>1, <1>2, <1>3, PTL DEF Maps!Spec, Maps!ServiceAnswerTrue

-----------------------------------------------------------------------------
(***************************************************************************)
(* The audit log (AuditLog). Under the lock every record is chained to the *)
(* one before it, and the head file names the last one unless a writer is  *)
(* between the two files.                                                  *)
(***************************************************************************)
\* A line of the log.
AuditLine == [is : {"record", "junk"}, id : Nat, prev : Nat]

\* Only the holder of the lock is at work.
AuditType ==
    /\ log \in Seq(AuditLine) /\ last \in Nat /\ head \in Nat /\ cuts \in Nat /\ done \in BOOLEAN
    /\ DOMAIN writer = Actors
    /\ \A w \in Actors : DOMAIN writer[w] = {"at", "prev"} /\ (writer[w].at # "idle" => auditLock = w)

\* The hash of the last line.
EndHash == IF Len(log) = 0 THEN 0 ELSE log[Len(log)].id

\* Every line is a record chained to the one before.
LogChained ==
    /\ ~tail
    /\ \A i \in 1..Len(log) : log[i].is = "record" /\ log[i].prev = IF i = 1 THEN 0 ELSE log[i - 1].id

\* A writer at work knows the last line.
AppendingOK ==
    \A w \in Actors :
        /\ writer[w].at = "append" => writer[w].prev = EndHash
        /\ writer[w].at = "head" => writer[w].prev = last /\ last > 0 /\ Len(log) > 0 /\ EndHash = last

\* No writer is between the log and the head file.
NoneAtHead == \A w \in Actors : writer[w].at # "head"

\* The head file names the last record.
HeadRight ==
    /\ Len(log) > 0 \/ cuts > 0 => last > 0
    /\ done /\ NoneAtHead /\ cuts = 0 => head = EndHash
    /\ done /\ NoneAtHead /\ last > 0 => head > 0

\* Nothing that was written is gone unless the log was cut.
KeptInLog == cuts = 0 => \A id \in kept : \E i \in 1..Len(log) : log[i].id = id

\* The inductive invariant; a write that was cut short ends what it says.
AuditInv == auditTorn \/ (AuditType /\ LogChained /\ AppendingOK /\ HeadRight /\ KeptInLog)

LEMMA HashOfAll ==
    ASSUME AuditType, LogChained, NEW n \in 0..Len(log)
    PROVE Audit!HashAt(n) = (IF n = 0 THEN 0 ELSE log[n].id) /\ Audit!RecordsTo(n) = 1..n
<1>1. Audit!RecordsTo(n) = 1..n
  BY DEF AuditType, LogChained, Audit!RecordsTo, Audit!IsRecord
<1>2. n # 0 => Audit!Max(1..n) = n
  <2>1. SUFFICES ASSUME n # 0 PROVE Audit!Max(1..n) = n
    OBVIOUS
  <2>2. n \in 1..n /\ \A y \in 1..n : n >= y
    BY <2>1
  <2>3. \A x \in 1..n : (\A y \in 1..n : x >= y) => x = n
    BY <2>1
  <2>4. QED
    BY <2>2, <2>3 DEF Audit!Max
<1>3. CASE n = 0
  BY <1>1, <1>3 DEF Audit!HashAt, Audit!Genesis
<1>4. CASE n # 0
  BY <1>1, <1>2, <1>4 DEF Audit!HashAt, Audit!Genesis
<1>5. QED
  BY <1>3, <1>4

LEMMA AuditInits == Audit!AuditInit => AuditInv
BY DEF Audit!AuditInit, Audit!Genesis, Audit!Free, AuditInv, AuditType, LogChained, AppendingOK, HeadRight,
       KeptInLog, EndHash, NoneAtHead

LEMMA LastHash ==
    ASSUME AuditType, LogChained
    PROVE Audit!LastAuditHash = EndHash /\ ~Audit!Unreadable
<1>1. Len(log) \in 0..Len(log) /\ (Len(log) = 0 => log = <<>>)
  BY DEF AuditType
<1>2. Audit!HashAt(Len(log)) = EndHash /\ Audit!Records = 1..Len(log)
  BY <1>1, HashOfAll DEF EndHash, Audit!Records
<1>3. Audit!Records = {} => log = <<>>
  BY <1>1, <1>2 DEF AuditType
<1>4. QED
  BY <1>2, <1>3 DEF Audit!LastAuditHash, Audit!Unreadable, LogChained

LEMMA LineAppended ==
    ASSUME AuditInv, ~auditTorn, NEW w \in Actors, Audit!AppendLine(w)
    PROVE AuditInv'
<1>1. AuditType /\ LogChained /\ AppendingOK /\ HeadRight /\ KeptInLog
  BY DEF AuditInv
<1> DEFINE new == [is |-> "record", id |-> last + 1, prev |-> EndHash]
<1>2. /\ log' = Append(log, new) /\ last' = last + 1 /\ tail' = FALSE /\ auditLock = w
      /\ writer' = [writer EXCEPT ![w] = [@ EXCEPT !.at = "head", !.prev = last + 1]]
      /\ UNCHANGED <<head, auditLock, kept, done, cuts, auditTorn>>
  BY <1>1 DEF Audit!AppendLine, LogChained, AppendingOK, AuditType
<1>3. EndHash \in Nat /\ new \in AuditLine
  <2>1. Len(log) \in Nat /\ (Len(log) # 0 => log[Len(log)] \in AuditLine)
    BY <1>1 DEF AuditType
  <2>2. EndHash \in Nat
    BY <2>1 DEF EndHash, AuditLine
  <2>3. QED
    BY <1>1, <2>2 DEF AuditLine, AuditType
<1>4. /\ log' \in Seq(AuditLine) /\ Len(log') = Len(log) + 1 /\ Len(log) \in Nat /\ log'[Len(log) + 1] = new
      /\ \A i \in 1..Len(log) : log'[i] = log[i]
  BY <1>1, <1>2, <1>3 DEF AuditType
<1>5. /\ DOMAIN writer' = Actors /\ writer'[w].at = "head" /\ writer'[w].prev = last + 1
      /\ DOMAIN writer'[w] = {"at", "prev"} /\ \A o \in Actors \ {w} : writer'[o] = writer[o] /\ writer[o].at = "idle"
  BY <1>1, <1>2 DEF AuditType
<1>6. AuditType'
  BY <1>1, <1>2, <1>4, <1>5 DEF AuditType
<1>7. LogChained'
  <2>1. new.prev = IF Len(log) + 1 = 1 THEN 0 ELSE log'[Len(log) + 1 - 1].id
    BY <1>4 DEF EndHash
  <2>2. ASSUME NEW i \in 1..Len(log')
        PROVE log'[i].is = "record" /\ log'[i].prev = IF i = 1 THEN 0 ELSE log'[i - 1].id
    <3>1. CASE i = Len(log) + 1
      BY <1>4, <2>1, <3>1
    <3>2. CASE i \in 1..Len(log)
      <4>1. log'[i] = log[i] /\ (i # 1 => i - 1 \in 1..Len(log) /\ log'[i - 1] = log[i - 1])
        BY <1>4, <3>2
      <4>2. QED
        BY <1>1, <3>2, <4>1 DEF LogChained
    <3>3. QED
      BY <1>4, <3>1, <3>2
  <2>3. QED
    BY <1>2, <2>2 DEF LogChained
<1>8. EndHash' = last + 1
  BY <1>4 DEF EndHash
<1>9. AppendingOK'
  BY <1>1, <1>2, <1>4, <1>5, <1>8 DEF AppendingOK, AuditType
<1>10. HeadRight'
  BY <1>1, <1>2, <1>5 DEF HeadRight, NoneAtHead, AuditType
<1>11. KeptInLog'
  BY <1>1, <1>2, <1>4 DEF KeptInLog
<1>12. QED
  BY <1>6, <1>7, <1>9, <1>10, <1>11 DEF AuditInv

LEMMA HeadWritten ==
    ASSUME AuditInv, ~auditTorn, NEW w \in Actors, Audit!WriteHead(w)
    PROVE AuditInv'
<1>1. AuditType /\ LogChained /\ AppendingOK /\ HeadRight /\ KeptInLog
  BY DEF AuditInv
<1>2. /\ writer[w].at = "head" /\ head' = last /\ kept' = kept \cup {last} /\ done' = TRUE /\ auditLock' = Audit!Nobody
      /\ writer' = [writer EXCEPT ![w] = [at |-> "idle", prev |-> 0]] /\ auditLock = w
      /\ UNCHANGED <<log, tail, last, cuts, auditTorn>> /\ EndHash = last /\ last > 0 /\ Len(log) > 0
  BY <1>1 DEF Audit!WriteHead, Audit!Release, Audit!Free, Audit!Genesis, AppendingOK, AuditType
<1>3. \A o \in Actors : writer'[o].at = "idle" /\ DOMAIN writer'[o] = {"at", "prev"}
  BY <1>1, <1>2 DEF AuditType
<1>4. AuditType' /\ LogChained' /\ AppendingOK'
  BY <1>1, <1>2, <1>3 DEF AuditType, LogChained, AppendingOK, EndHash
<1>5. HeadRight'
  BY <1>1, <1>2 DEF HeadRight, EndHash, NoneAtHead
<1>6. KeptInLog'
  BY <1>1, <1>2 DEF KeptInLog, EndHash, AuditType
<1>7. QED
  BY <1>4, <1>5, <1>6 DEF AuditInv

LEMMA LogCut ==
    ASSUME AuditInv, ~auditTorn, Audit!AuditConstants, Audit!Cut
    PROVE AuditInv'
<1>1. AuditType /\ LogChained /\ AppendingOK /\ HeadRight /\ KeptInLog
  BY DEF AuditInv
<1>2. /\ auditLock = Audit!Nobody /\ tail' = FALSE /\ cuts' = cuts + 1 /\ log # <<>>
      /\ UNCHANGED <<head, auditLock, writer, last, kept, done, auditTorn>>
  BY DEF Audit!Cut
<1>3. PICK n \in 0..(Len(log) - 1) : log' = SubSeq(log, 1, n)
  BY DEF Audit!Cut
<1>4. log' \in Seq(AuditLine) /\ Len(log') = n /\ Len(log) \in Nat /\ \A i \in 1..n : log'[i] = log[i]
  BY <1>1, <1>3 DEF AuditType
<1>5. Len(log) > 0 /\ \A w \in Actors : writer[w].at = "idle"
  BY <1>1, <1>2 DEF AuditType, Audit!AuditConstants
<1>6. AuditType' /\ AppendingOK'
  BY <1>1, <1>2, <1>4, <1>5 DEF AuditType, AppendingOK
<1>7. LogChained'
  <2>1. ASSUME NEW i \in 1..n
        PROVE log'[i].is = "record" /\ log'[i].prev = IF i = 1 THEN 0 ELSE log'[i - 1].id
    <3>1. i \in 1..Len(log) /\ log'[i] = log[i] /\ (i # 1 => i - 1 \in 1..n /\ log'[i - 1] = log[i - 1])
      BY <1>4
    <3>2. QED
      BY <1>1, <3>1 DEF LogChained
  <2>2. QED
    BY <1>2, <1>4, <2>1 DEF LogChained
<1>8. HeadRight' /\ KeptInLog'
  BY <1>1, <1>2, <1>5 DEF HeadRight, NoneAtHead, KeptInLog, AuditType
<1>9. QED
  BY <1>6, <1>7, <1>8 DEF AuditInv

LEMMA AuditSteps ==
    ASSUME AuditInv, Audit!AuditConstants, [Audit!AuditNext]_(Audit!auditVars)
    PROVE AuditInv'
<1>1. CASE auditTorn
  BY <1>1 DEF AuditInv, Audit!AuditNext, Audit!auditVars, Audit!Acquire, Audit!ReadLast, Audit!AppendLine, Audit!WriteHead,
              Audit!Dies, Audit!DiesAppending, Audit!Cut
<1>2. CASE ~auditTorn
  <2>1. AuditType /\ LogChained /\ AppendingOK /\ HeadRight /\ KeptInLog
    BY <1>2 DEF AuditInv
  <2>2. ASSUME NEW w \in Actors, Audit!Acquire(w)
        PROVE AuditInv'
    BY <2>1, <2>2 DEF AuditInv, AuditType, LogChained, AppendingOK, HeadRight, KeptInLog, EndHash, NoneAtHead, Audit!Acquire,
                     Audit!AuditConstants
  <2>3. ASSUME NEW w \in Actors, Audit!ReadLast(w)
        PROVE AuditInv'
    <3>1. /\ writer' = [writer EXCEPT ![w] = [at |-> "append", prev |-> EndHash]] /\ writer[w].at = "locked"
          /\ UNCHANGED <<log, tail, head, last, kept, done, cuts, auditTorn, auditLock>>
      BY <2>1, <2>3, LastHash DEF Audit!ReadLast
    <3>2. QED
      BY <2>1, <3>1 DEF AuditInv, AuditType, LogChained, AppendingOK, HeadRight, KeptInLog, EndHash, NoneAtHead
  <2>4. ASSUME NEW w \in Actors, Audit!Dies(w)
        PROVE AuditInv'
    BY <2>1, <2>4 DEF AuditInv, AuditType, LogChained, AppendingOK, HeadRight, KeptInLog, EndHash, NoneAtHead, Audit!Dies,
                     Audit!Release, Audit!Free, Audit!Genesis
  <2>5. ASSUME NEW w \in Actors, Audit!DiesAppending(w)
        PROVE AuditInv'
    BY <2>5 DEF AuditInv, Audit!DiesAppending
  <2>6. CASE UNCHANGED Audit!auditVars
    BY <2>1, <2>6 DEF AuditInv, AuditType, LogChained, AppendingOK, HeadRight, KeptInLog, EndHash, NoneAtHead, Audit!auditVars
  <2>7. QED
    BY <1>2, <2>2, <2>3, <2>4, <2>5, <2>6, LineAppended, HeadWritten, LogCut DEF Audit!AuditNext
<1>3. QED
  BY <1>1, <1>2

LEMMA AuditHolds ==
    ASSUME AuditInv, Audit!AuditConstants
    PROVE Audit!VerdictTrue /\ Audit!RecordKept
<1>1. SUFFICES ASSUME ~auditTorn PROVE Audit!VerdictTrue /\ Audit!RecordKept
  BY DEF Audit!VerdictTrue, Audit!RecordKept
<1>2. AuditType /\ LogChained /\ AppendingOK /\ HeadRight /\ KeptInLog
  BY <1>1 DEF AuditInv
<1>3. /\ Len(log) \in Nat /\ DOMAIN log = 1..Len(log) /\ Audit!Records = 1..Len(log)
      /\ \A n \in 0..Len(log) : Audit!HashAt(n) = IF n = 0 THEN 0 ELSE log[n].id
  <2>1. Len(log) \in 0..Len(log) /\ DOMAIN log = 1..Len(log)
    BY <1>2 DEF AuditType
  <2>2. QED
    BY <1>2, <2>1, HashOfAll DEF Audit!Records
<1>4. Audit!RecordKept
  BY <1>2, <1>3 DEF KeptInLog, Audit!RecordKept
<1>5. ASSUME done, auditLock = Audit!Nobody
      PROVE IF cuts = 0 THEN Audit!AuditVerify ELSE head \in {log[i].id : i \in Audit!Records} \/ ~Audit!AuditVerify
  <2>1. NoneAtHead
    BY <1>2, <1>5 DEF AuditType, Audit!AuditConstants, NoneAtHead
  <2>2. CASE cuts = 0
    <3>1. Audit!Linked
      BY <1>2, <1>3 DEF Audit!Linked, LogChained
    <3>2. Audit!Anchored
      <4>1. head = EndHash
        BY <1>2, <1>5, <2>1, <2>2 DEF HeadRight
      <4>2. QED
        BY <1>3, <4>1 DEF Audit!Anchored, Audit!LastAuditHash, Audit!Genesis, EndHash
    <3>3. QED
      BY <1>2, <1>3, <2>2, <3>1, <3>2 DEF Audit!AuditVerify, Audit!IsRecord, LogChained
  <2>3. CASE cuts # 0
    <3>1. head # 0
      BY <1>2, <1>5, <2>1, <2>3 DEF HeadRight, AuditType
    <3>2. Audit!Anchored => head \in {log[i].id : i \in Audit!Records}
      BY <1>3, <3>1 DEF Audit!Anchored, Audit!LastAuditHash, Audit!Genesis
    <3>3. QED
      BY <2>3, <3>2 DEF Audit!AuditVerify
  <2>4. QED
    BY <2>2, <2>3
<1>6. QED
  BY <1>4, <1>5 DEF Audit!VerdictTrue

\* For any number of writers and records: after an audit call that returned Ok the chain
\* verifies, also when writers died before it between the record and the head, while a
\* log cut behind the head does not; and a record whose call returned Ok is in the log
\* until the log is cut. A write that died in the middle of a line is excepted from both.
THEOREM VerdictsTrue ==
    ASSUME Audit!AuditConstants
    PROVE Audit!Spec => [](Audit!VerdictTrue /\ Audit!RecordKept)
<1>1. AuditInv /\ [Audit!AuditNext]_(Audit!auditVars) => AuditInv'
  BY AuditSteps
<1>2. AuditInv => Audit!VerdictTrue /\ Audit!RecordKept
  BY AuditHolds
<1>3. QED
  BY <1>1, <1>2, AuditInits, PTL DEF Audit!Spec
-----------------------------------------------------------------------------
(***************************************************************************)
(* The results in the form in which MCHost states them, for the            *)
(* composition of its parts. A behaviour stays in the part it begins in    *)
(* and takes that component's steps, so what was proved of a component's   *)
(* specification holds of the composition while the component is in play.  *)
(***************************************************************************)
\* The component in play.
InPart(p) == part = p

\* Each part begins as its component does.
LEMMA PartsBegin ==
    Init =>
        /\ part = "accounts" => Staff!AccountsInit
        /\ part = "helper" => Helper!HelperInit
        /\ part = "backup" => Archive!BackupInit
        /\ part = "relay" => Smart!RelayInit
        /\ part = "certs" => Certs!CertInit
        /\ part = "tables" => Maps!TablesInit
        /\ part = "audit" => Audit!AuditInit
BY DEF Init, StopInit, QueueInit, ImapdInit, ProcessInit, HelperInit, ArchiveInit, AuditInit, StaffInit,
       SmartInit, MapsInit, CertsInit, MonitorInit, ChecksInit

\* Each part takes its component's steps, and stays in play.
LEMMA PartsStep ==
    Next =>
        /\ part' = part
        /\ part = "accounts" => Staff!AccountsNext
        /\ part = "helper" => Helper!HelperNext
        /\ part = "backup" => Archive!BackupNext
        /\ part = "relay" => Smart!RelayNext
        /\ part = "certs" => Certs!CertNext
        /\ part = "tables" => Maps!TablesNext
        /\ part = "audit" => Audit!AuditNext
BY DEF Next, StopStep, QueueStep, ImapdStep, ProcessStep, HelperStep, ArchiveStep, AuditStep, StaffStep,
       SmartStep, MapsStep, CertsStep, MonitorStep, ChecksStep

\* Mailbox accounts: the composition implements the component while it is in play.
LEMMA AccountsPart ==
    /\ Init /\ InPart("accounts") => Staff!AccountsInit
    /\ [Next]_vars /\ InPart("accounts") => [Staff!AccountsNext]_(Staff!accountVars)
    /\ [Next]_vars => (InPart("accounts") <=> InPart("accounts")')
<1>1. UNCHANGED vars => UNCHANGED Staff!accountVars /\ part' = part
  BY DEF vars, StaffVars, Staff!accountVars, Staff!systemVars, Staff!fileVars, Staff!webVars
<1>. QED
  BY <1>1, PartsBegin, PartsStep DEF InPart

\* Calls of the helper: the composition implements the component while it is in play.
LEMMA HelperPart ==
    /\ Init /\ InPart("helper") => Helper!HelperInit
    /\ [Next]_vars /\ InPart("helper") => [Helper!HelperNext]_(Helper!helperVars)
    /\ [Next]_vars => (InPart("helper") <=> InPart("helper")')
<1>1. UNCHANGED vars => UNCHANGED Helper!helperVars /\ part' = part
  BY DEF vars, HelperVars, Helper!helperVars
<1>. QED
  BY <1>1, PartsBegin, PartsStep DEF InPart

\* Backup and restore: the composition implements the component while it is in play.
LEMMA BackupPart ==
    /\ Init /\ InPart("backup") => Archive!BackupInit
    /\ [Next]_vars /\ InPart("backup") => [Archive!BackupNext]_(Archive!backupVars)
    /\ [Next]_vars => (InPart("backup") <=> InPart("backup")')
<1>1. UNCHANGED vars => UNCHANGED Archive!backupVars /\ part' = part
  BY DEF vars, ArchiveVars, Archive!backupVars
<1>. QED
  BY <1>1, PartsBegin, PartsStep DEF InPart

\* The relay: the composition implements the component while it is in play.
LEMMA RelayPart ==
    /\ Init /\ InPart("relay") => Smart!RelayInit
    /\ [Next]_vars /\ InPart("relay") => [Smart!RelayNext]_(Smart!relayVars)
    /\ [Next]_vars => (InPart("relay") <=> InPart("relay")')
<1>1. UNCHANGED vars => UNCHANGED Smart!relayVars /\ part' = part
  BY DEF vars, SmartVars, Smart!relayVars
<1>. QED
  BY <1>1, PartsBegin, PartsStep DEF InPart

\* Certificates: the composition implements the component while it is in play.
LEMMA CertificatesPart ==
    /\ Init /\ InPart("certs") => Certs!CertInit
    /\ [Next]_vars /\ InPart("certs") => [Certs!CertNext]_(Certs!certVars)
    /\ [Next]_vars => (InPart("certs") <=> InPart("certs")')
<1>1. UNCHANGED vars => UNCHANGED Certs!certVars /\ part' = part
  BY DEF vars, CertsVars, Certs!certVars
<1>. QED
  BY <1>1, PartsBegin, PartsStep DEF InPart

\* Lookup tables and services: the composition implements the component while it is in play.
LEMMA TablesPart ==
    /\ Init /\ InPart("tables") => Maps!TablesInit
    /\ [Next]_vars /\ InPart("tables") => [Maps!TablesNext]_(Maps!tableVars)
    /\ [Next]_vars => (InPart("tables") <=> InPart("tables")')
<1>1. UNCHANGED vars => UNCHANGED Maps!tableVars /\ part' = part
  BY DEF vars, MapsVars, Maps!tableVars
<1>. QED
  BY <1>1, PartsBegin, PartsStep DEF InPart

\* The audit log: the composition implements the component while it is in play.
LEMMA AuditPart ==
    /\ Init /\ InPart("audit") => Audit!AuditInit
    /\ [Next]_vars /\ InPart("audit") => [Audit!AuditNext]_(Audit!auditVars)
    /\ [Next]_vars => (InPart("audit") <=> InPart("audit")')
<1>1. UNCHANGED vars => UNCHANGED Audit!auditVars /\ part' = part
  BY DEF vars, AuditVars, Audit!auditVars
<1>. QED
  BY <1>1, PartsBegin, PartsStep DEF InPart

\* One mailbox per address and answers that agree with the files (users.rs), and no
\* action that runs twice because its first attempt timed out (client.rs, server.rs), for
\* every value of the constants.
THEOREM AccountsAlwaysTrue == Spec => []AccountsTrue
<1>1. Staff!Spec => [](Staff!OneMailboxPerAddress /\ Staff!AnswerTrue)
  BY AccountsAnswerTrue, ServiceAssumptions
<1>2. Helper!Spec => [](Helper!RunsAtMostOnce)
  BY AlwaysRunsAtMostOnce, ServiceAssumptions
<1>3. /\ InPart("accounts") => Staff!OneMailboxPerAddress /\ Staff!AnswerTrue
      /\ InPart("helper") => Helper!RunsAtMostOnce
      => AccountsTrue
  BY DEF AccountsTrue, InPart
<1>. QED
  BY <1>1, <1>2, AccountsPart, HelperPart, <1>3, PTL
     DEF Spec, Staff!Spec, Helper!Spec

\* A change of several files is all or nothing for whoever reads its answer: a restore
\* (backup.rs), a relay with its password (setup.relay.apply), a certificate with its
\* key, for every value of the constants.
THEOREM AlwaysAllOrNothing == Spec => []AllOrNothing
<1>1. Archive!Spec => [](Archive!RestoreExact)
  BY RestoresExact, ServiceAssumptions
<1>2. Smart!Spec => [](Smart!ApplyAnswerTrue /\ Smart!PasswordToItsRelay)
  BY RelayAnswersTrue, ServiceAssumptions
<1>3. Certs!Spec => [](Certs!PairsMatch /\ Certs!NoStrayKey)
  BY CertificatesMatch, ServiceAssumptions
<1>4. /\ InPart("backup") => Archive!RestoreExact
      /\ InPart("relay") => Smart!ApplyAnswerTrue /\ Smart!PasswordToItsRelay
      /\ InPart("certs") => Certs!PairsMatch /\ Certs!NoStrayKey
      => AllOrNothing
  BY DEF AllOrNothing, InPart
<1>. QED
  BY <1>1, <1>2, <1>3, BackupPart, RelayPart, CertificatesPart, <1>4, PTL
     DEF Spec, Archive!Spec, Smart!Spec, Certs!Spec

\* No operator's change of a table is lost to another's (write_rows under locked_with),
\* and the audit log's verdict is true of the records written (audit, audit_verify), for
\* every value of the constants.
THEOREM RecordsAlwaysKept == Spec => []RecordsKept
<1>1. Maps!Spec => [](Maps!NoChangeLost)
  BY NoTableChangeLost, ServiceAssumptions
<1>2. Audit!Spec => [](Audit!VerdictTrue /\ Audit!RecordKept)
  BY VerdictsTrue, ServiceAssumptions
<1>3. /\ InPart("tables") => Maps!NoChangeLost
      /\ InPart("audit") => Audit!VerdictTrue /\ Audit!RecordKept
      => RecordsKept
  BY DEF RecordsKept, InPart
<1>. QED
  BY <1>1, <1>2, TablesPart, AuditPart, <1>3, PTL
     DEF Spec, Maps!Spec, Audit!Spec

\* A service action that answers success left the service as asked (setup_service), whichever service
\* manager the host has and for every value of the constants.
THEOREM ServiceAlwaysAnswersTrue == Spec => ServiceAnswerTrue
<1>1. Maps!TablesInit => TablesInv
  BY TablesInits, ServiceAssumptions
<1>2. TablesInv /\ [Maps!TablesNext]_(Maps!tableVars) => TablesInv'
  BY TablesSteps, ServiceAssumptions
<1>3. TablesInv /\ [Maps!TablesNext]_(Maps!tableVars) => Maps!ServiceAnswer
  BY ServiceSteps
<1>4. [Next]_vars /\ (InPart("tables") => TablesInv) => [part = "tables" => Maps!ServiceAnswer]_vars
  BY <1>3, TablesPart DEF InPart
<1>. QED
  BY <1>1, <1>2, <1>4, TablesPart, PTL DEF Spec, ServiceAnswerTrue
=============================================================================
