------------------------ MODULE OutboundQueueProofs ------------------------
(***************************************************************************)
(* What the outbound queue guarantees for every number of runners, queue   *)
(* ids, recipients and mishaps, every retry policy and every claim TTL.    *)
(***************************************************************************)
EXTENDS OutboundQueue, TLAPS

USE DEF LesserOf, GreaterOf

(* The delays are bounded by the cap of the policy, whatever the loop of   *)
(* nominal_delay_secs computes.                                            *)
LEMMA DelaysAreNat == \A a : Delays(Policy, a) \subseteq Nat
  BY PolicyTyped DEF Delays, Policies

(* Moving a deadline to the end of the clock keeps it a time. *)
LEMMA DeadlineIsNat == ASSUME NEW t \in Nat PROVE Deadline(t) \in Nat
  BY NumbersTyped DEF Deadline

LEMMA NothingTyped == NoFile \in Entries /\ NoTask \in Tasks /\ NoMsg \in Messages /\ NoCopies \in [Ids -> Entries]
  BY DEF NoFile, NoTask, NoMsg, NoCopies, Entries, Tasks, Messages, Stages

LEMMA MishapTyped ==
  ASSUME Type, NEW k \in Mishaps, Happens(k) PROVE mishap' \in [Mishaps -> Nat]
  BY DEF Type, Happens

LEMMA TasksTyped ==
  ASSUME NEW t \in Tasks, NEW group \in SUBSET Rcpts, NEW accepted \in SUBSET group,
         NEW class, NEW at \in Nat, NEW stage \in Stages
  PROVE  /\ Done(t, group, stage) \in Tasks
         /\ Failed(t, group, class, accepted, at, stage) \in Tasks
         /\ AtStage(t, stage) \in Tasks
  <1>1. Done(t, group, stage) \in Tasks
    BY DEF Done, Tasks
  <1>2. Failed(t, group, class, accepted, at, stage) \in Tasks
    BY DEF Failed, Tasks
  <1>3. AtStage(t, stage) \in Tasks
    BY DEF AtStage, Tasks
  <1> QED
    BY <1>1, <1>2, <1>3

LEMMA AfterTyped ==
  ASSUME NEW t \in Tasks, NEW at \in Nat, NEW class
  PROVE  /\ \A acc \in SUBSET LocalOf(t)  : AfterLocal(t, class, acc, at) \in Tasks
         /\ \A acc \in SUBSET RemoteOf(t) : AfterRemote(t, class, acc, at) \in Tasks
  <1>1. LocalOf(t) \in SUBSET Rcpts /\ RemoteOf(t) \in SUBSET Rcpts
    BY DEF LocalOf, RemoteOf, Tasks
  <1>2. {"end", "gate", "persist", "writeback"} \subseteq Stages
    BY DEF Stages, SyncTail
  <1> QED
    BY <1>1, <1>2, TasksTyped DEF AfterLocal, AfterRemote

LEMMA AnsweredTyped ==
  ASSUME Type, NEW group \in SUBSET Rcpts, NEW class, NEW accepted, NEW reached,
         Answered(group, class, accepted, reached)
  PROVE  mishap' \in [Mishaps -> Nat]
  BY MishapTyped DEF Answered, Type, Mishaps

LEMMA InitType == Init => Type
  BY NothingTyped DEF Init, Type, Verbs

LEMMA RequeuedTyped ==
  ASSUME Type, NEW e \in Entries, NEW a \in Nat PROVE Requeued(e, a) \in Entries
  BY DEF Type, Requeued, Entries

LEMMA TaskUpdate ==
  ASSUME Type, NEW r \in Runners, NEW m \in Ids, NEW t \in Tasks,
         task' = [task EXCEPT ![r][m] = t]
  PROVE  task' \in [Runners -> [Ids -> Tasks]]
  BY DEF Type

LEMMA LiveTask ==
  ASSUME Type, NEW r \in Runners, NEW m \in Live(r)
  PROVE  m \in Ids /\ task[r][m] \in Tasks
  BY DEF Type, Live

LEMMA StageUpdate ==
  ASSUME Type, NEW r \in Runners, NEW m \in Live(r),
         \E stage \in Stages : task' = [task EXCEPT ![r][m] = AtStage(task[r][m], stage)]
  PROVE  task' \in [Runners -> [Ids -> Tasks]]
  <1>1. PICK stage \in Stages : task' = [task EXCEPT ![r][m] = AtStage(task[r][m], stage)]
    OBVIOUS
  <1>2. AtStage(task[r][m], stage) \in Tasks
    BY LiveTask DEF AtStage, Tasks
  <1> QED
    BY <1>1, <1>2, LiveTask, TaskUpdate

LEMMA FileOfTyped == ASSUME NEW t \in Tasks PROVE FileOf(t) \in Entries
  BY DEF FileOf, Tasks, Entries

THEOREM TypeStep == Type /\ [Next]_vars => Type'
  <1> SUFFICES ASSUME Type, [Next]_vars PROVE Type'
    OBVIOUS
  <1> USE NothingTyped
  <1>1. ASSUME NEW m \in Ids, NEW env \in Envelopes, Enqueue(m, env) PROVE Type'
    BY <1>1, EnvelopesTyped DEF Type, Enqueue, NewEntry, Entries, Messages, runner, history
  <1>2. ASSUME NEW r \in Runners, StartRound(r) PROVE Type'
    BY <1>2 DEF Type, StartRound, history
  <1>3. ASSUME NEW r \in Runners, NEW m \in Ids, ClaimEntry(r, m) PROVE Type'
    <2>1. due[r][m].file => Spawned(due[r][m]) \in Tasks
      BY DEF Type, Spawned, Tasks, Entries, Stages
    <2>2. task' \in [Runners -> [Ids -> Tasks]]
      <3>1. CASE UNCHANGED task
        BY <3>1 DEF Type
      <3>2. CASE task' = [task EXCEPT ![r][m] = Spawned(due[r][m])]
        BY <1>3, <2>1, <3>2, TaskUpdate DEF ClaimEntry
      <3> QED
        BY <1>3, <3>1, <3>2 DEF ClaimEntry
    <2> QED
      BY <1>3, <2>2, MishapTyped DEF Type, ClaimEntry, Mishaps, history
  <1>4. ASSUME NEW r \in Runners, EndRound(r) PROVE Type'
    BY <1>4, MishapTyped DEF Type, EndRound, store, history, Mishaps
  <1>5. ASSUME NEW r \in Runners, NEW m \in Ids, AcquirePermit(r, m) PROVE Type'
    <2>1. m \in Live(r) /\ FileOf(task[r][m]) \in Entries
      BY <1>5, LiveTask, FileOfTyped DEF AcquirePermit
    <2>2. \E stage \in Stages : task' = [task EXCEPT ![r][m] = AtStage(task[r][m], stage)]
      BY <1>5 DEF AcquirePermit, Stages, SyncTail
    <2>3. task' \in [Runners -> [Ids -> Tasks]]
      BY <2>1, <2>2, StageUpdate
    <2> QED
      BY <1>5, <2>3 DEF Type, AcquirePermit, store, runner, history
  <1>6. ASSUME NEW r \in Runners, NEW m \in Ids, DeliverLocal(r, m) PROVE Type'
    <2>1. task[r][m] \in Tasks /\ LocalOf(task[r][m]) \in SUBSET Rcpts
      BY <1>6, LiveTask DEF DeliverLocal, LocalOf, Tasks
    <2>2. task' \in [Runners -> [Ids -> Tasks]]
      <3>1. PICK class \in {"ok", "transient", "permanent", "short"},
                 accepted \in SUBSET LocalOf(task[r][m]),
                 delay \in Delays(Policy, task[r][m].attempts + 1) :
              task' = [task EXCEPT ![r][m] = AfterLocal(task[r][m], class, accepted,
                                                   Deadline(roundNow[r] + delay))]
        BY <1>6 DEF DeliverLocal
      <3>2. Deadline(roundNow[r] + delay) \in Nat
        BY DelaysAreNat, DeadlineIsNat DEF Type
      <3> QED
        BY <2>1, <3>1, <3>2, TaskUpdate, AfterTyped
    <2>3. /\ mishap' \in [Mishaps -> Nat]
          /\ delivered' \subseteq Ids \X Rcpts /\ again' \subseteq Ids \X Rcpts
          /\ UNCHANGED <<reported, rereported, discarded, deleted, dropped>>
      BY <1>6, <2>1, AnsweredTyped, MishapTyped DEF Type, DeliverLocal, Receive, Mishaps
    <2> QED
      BY <1>6, <2>2, <2>3 DEF Type, DeliverLocal, store, runner
  <1>7. ASSUME NEW r \in Runners, NEW m \in Ids, Gate(r, m) PROVE Type'
    <2>1. m \in Live(r) /\ FileOf(task[r][m]) \in Entries
      BY <1>7, LiveTask, FileOfTyped DEF Gate
    <2>2. \E stage \in Stages : task' = [task EXCEPT ![r][m] = AtStage(task[r][m], stage)]
      BY <1>7 DEF Gate, Stages, SyncTail
    <2>3. task' \in [Runners -> [Ids -> Tasks]]
      BY <2>1, <2>2, StageUpdate
    <2> QED
      BY <1>7, <2>3 DEF Type, Gate, Blocked, store, history
  <1>8. ASSUME NEW r \in Runners, NEW m \in Ids, DeliverRemote(r, m) PROVE Type'
    <2>1. task[r][m] \in Tasks /\ RemoteOf(task[r][m]) \in SUBSET Rcpts
      BY <1>8, LiveTask DEF DeliverRemote, RemoteOf, Tasks
    <2>2. task' \in [Runners -> [Ids -> Tasks]]
      <3>1. PICK class \in {"ok", "transient", "permanent", "short"},
                 accepted \in SUBSET RemoteOf(task[r][m]),
                 delay \in Delays(Policy, task[r][m].attempts + 1) :
              task' = [task EXCEPT ![r][m] = AfterRemote(task[r][m], class, accepted,
                                                   Deadline(roundNow[r] + delay))]
        BY <1>8 DEF DeliverRemote
      <3>2. Deadline(roundNow[r] + delay) \in Nat
        BY DelaysAreNat, DeadlineIsNat DEF Type
      <3> QED
        BY <2>1, <3>1, <3>2, TaskUpdate, AfterTyped
    <2>3. /\ mishap' \in [Mishaps -> Nat]
          /\ delivered' \subseteq Ids \X Rcpts /\ again' \subseteq Ids \X Rcpts
          /\ UNCHANGED <<reported, rereported, discarded, deleted, dropped>>
      BY <1>8, <2>1, AnsweredTyped, MishapTyped DEF Type, DeliverRemote, Receive, Mishaps
    <2> QED
      BY <1>8, <2>2, <2>3, NumbersTyped DEF Type, DeliverRemote, store, RecordHealth
  <1>9. ASSUME NEW r \in Runners, NEW m \in Ids, Persist(r, m) PROVE Type'
    <2>1. m \in Live(r) /\ FileOf(task[r][m]) \in Entries
      BY <1>9, LiveTask, FileOfTyped DEF Persist
    <2>2. \E stage \in Stages : task' = [task EXCEPT ![r][m] = AtStage(task[r][m], stage)]
      BY <1>9 DEF Persist, Stages, SyncTail
    <2>3. task' \in [Runners -> [Ids -> Tasks]]
      BY <2>1, <2>2, StageUpdate
    <2>4. mishap' \in [Mishaps -> Nat]
      BY <1>9, MishapTyped DEF Type, Persist, Mishaps
    <2>5. spool' \in [Ids -> Entries] /\ claims' \in [Ids -> Nat \cup {-1}]
      <3>1. spool' = spool \/ spool' = [spool EXCEPT ![m] = FileOf(task[r][m])]
        BY <1>9 DEF Persist
      <3>2. claims' = claims \/ claims' = [claims EXCEPT ![m] = -1]
        BY <1>9 DEF Persist
      <3>3. spool' \in [Ids -> Entries]
        BY <2>1, <3>1 DEF Type
      <3>4. claims' \in [Ids -> Nat \cup {-1}]
        BY <3>2 DEF Type
      <3> QED
        BY <3>3, <3>4
    <2> QED
      BY <1>9, <2>3, <2>4, <2>5 DEF Type, Persist, runner, history
  <1>10. ASSUME NEW r \in Runners, NEW m \in Ids, Unlink(r, m) PROVE Type'
    <2>1. m \in Live(r) /\ FileOf(task[r][m]) \in Entries
      BY <1>10, LiveTask, FileOfTyped DEF Unlink
    <2>2. \E stage \in Stages : task' = [task EXCEPT ![r][m] = AtStage(task[r][m], stage)]
      BY <1>10 DEF Unlink, Stages, SyncTail
    <2>3. task' \in [Runners -> [Ids -> Tasks]]
      BY <2>1, <2>2, StageUpdate
    <2>4. mishap' \in [Mishaps -> Nat]
      BY <1>10, MishapTyped DEF Type, Unlink, Mishaps
    <2>5. spool' \in [Ids -> Entries] /\ claims' \in [Ids -> Nat \cup {-1}]
      BY <1>10, <2>1 DEF Type, Unlink
    <2> QED
      BY <1>10, <2>3, <2>4, <2>5 DEF Type, Unlink, runner, history
  <1>11. ASSUME NEW r \in Runners, NEW m \in Ids, WriteBack(r, m) PROVE Type'
    <2>1. m \in Live(r) /\ FileOf(task[r][m]) \in Entries
      BY <1>11, LiveTask, FileOfTyped DEF WriteBack
    <2>2. \E stage \in Stages : task' = [task EXCEPT ![r][m] = AtStage(task[r][m], stage)]
      BY <1>11 DEF WriteBack, Stages, SyncTail
    <2>3. task' \in [Runners -> [Ids -> Tasks]]
      BY <2>1, <2>2, StageUpdate
    <2>4. mishap' \in [Mishaps -> Nat]
      BY <1>11, MishapTyped DEF Type, WriteBack, Mishaps
    <2>5. spool' \in [Ids -> Entries] /\ claims' \in [Ids -> Nat \cup {-1}]
      BY <1>11, <2>1 DEF Type, WriteBack
    <2> QED
      BY <1>11, <2>3, <2>4, <2>5 DEF Type, WriteBack, runner, history
  <1>12. ASSUME NEW r \in Runners, NEW m \in Ids, FlushBounce(r, m) PROVE Type'
    <2>1. /\ task[r][m] \in Tasks
          /\ NextBounce(task[r][m]) \in SUBSET Rcpts
      BY <1>12, LiveTask DEF FlushBounce, NextBounce, Tasks
    <2>2. \E back \in SUBSET Rcpts, e \in BOOLEAN :
            task' = [task EXCEPT ![r][m] = Flushed(task[r][m], back, e)]
      BY <1>12, <2>1 DEF FlushBounce
    <2>3. \A back \in SUBSET Rcpts, e \in BOOLEAN : Flushed(task[r][m], back, e) \in Tasks
      BY <2>1 DEF Flushed, Tasks, Stages, SyncTail
    <2>4. task' \in [Runners -> [Ids -> Tasks]]
      BY <2>2, <2>3, TaskUpdate
    <2>5. mishap' \in [Mishaps -> Nat]
      BY <1>12, MishapTyped DEF Type, FlushBounce, Mishaps
    <2>6. spool' \in [Ids -> Entries] /\ msg' \in [Ids -> Messages]
      <3>1. CASE UNCHANGED <<msg, spool>>
        BY <3>1 DEF Type
      <3>2. CASE /\ msg[m].from # Null
                 /\ \E d \in Ids :
                      /\ msg' = [msg EXCEPT ![d] = [kind |-> "bounce", from |-> Null,
                                                    rcpts |-> {msg[m].from}]]
                      /\ spool' = [spool EXCEPT ![d] = NewEntry({msg[m].from}, roundNow[r])]
        <4>1. msg[m].from \in Rcpts
          BY <3>2 DEF Type, Messages
        <4>2. /\ [kind |-> "bounce", from |-> Null, rcpts |-> {msg[m].from}] \in Messages
              /\ NewEntry({msg[m].from}, roundNow[r]) \in Entries
          BY <4>1 DEF Type, Messages, Entries, NewEntry
        <4> QED
          BY <3>2, <4>2 DEF Type
      <3> QED
        BY <1>12, <3>1, <3>2 DEF FlushBounce
    <2>7. {m} \X NextBounce(task[r][m]) \subseteq Ids \X Rcpts
      BY <2>1
    <2> QED
      BY <1>12, <2>4, <2>5, <2>6, <2>7
         DEF Type, FlushBounce, runner
  <1>13. ASSUME NEW r \in Runners, NEW m \in Ids, FlushEnd(r, m) PROVE Type'
    <2>1. m \in Live(r) /\ FileOf(task[r][m]) \in Entries
      BY <1>13, LiveTask, FileOfTyped DEF FlushEnd
    <2>2. \E stage \in Stages : task' = [task EXCEPT ![r][m] = AtStage(task[r][m], stage)]
      BY <1>13 DEF FlushEnd, Stages, SyncTail
    <2>3. task' \in [Runners -> [Ids -> Tasks]]
      BY <2>1, <2>2, StageUpdate
    <2>4. mishap' \in [Mishaps -> Nat]
      BY <1>13, MishapTyped DEF Type, FlushEnd, Mishaps
    <2>5. spool' \in [Ids -> Entries] /\ claims' \in [Ids -> Nat \cup {-1}]
      <3>1. spool' = spool \/ spool' = [spool EXCEPT ![m] = FileOf(task[r][m])]
        BY <1>13 DEF FlushEnd
      <3>2. claims' = claims \/ claims' = [claims EXCEPT ![m] = -1]
        BY <1>13 DEF FlushEnd
      <3>3. spool' \in [Ids -> Entries]
        BY <2>1, <3>1 DEF Type
      <3>4. claims' \in [Ids -> Nat \cup {-1}]
        BY <3>2 DEF Type
      <3> QED
        BY <3>3, <3>4
    <2> QED
      BY <1>13, <2>3, <2>4, <2>5 DEF Type, FlushEnd, runner, history
  <1>14. ASSUME NEW r \in Runners, NEW m \in Ids, TaskEnd(r, m) PROVE Type'
    BY <1>14, TaskUpdate DEF Type, TaskEnd, runner, history
  <1>15. ASSUME ConsoleFlush PROVE Type'
    <2>1. \A m \in Ids : spool[m].file => Requeued(spool[m], spool[m].attempts) \in Entries
      BY RequeuedTyped DEF Type, Entries
    <2> QED
      BY <1>15, <2>1, MishapTyped
         DEF Type, ConsoleFlush, ConsoleRead, Verbs, Mishaps, store, runner, history
  <1>16. ASSUME NEW m \in Ids, ConsoleRetry(m) PROVE Type'
    <2>1. Requeued(spool[m], 0) \in Entries
      BY <1>16, RequeuedTyped DEF Type, ConsoleRetry
    <2> QED
      BY <1>16, <2>1, MishapTyped
         DEF Type, ConsoleRetry, ConsoleRead, Verbs, Mishaps, store, runner, history
  <1>17. ASSUME NEW m \in Ids, ConsoleWrite(m) PROVE Type'
    BY <1>17 DEF Type, ConsoleWrite, ConsoleForgets, runner, history
  <1>18. ASSUME NEW m \in Ids, ConsoleDelete(m) PROVE Type'
    BY <1>18, MishapTyped DEF Type, ConsoleDelete, NewEntry, Entries, Verbs, Mishaps,
       runner, history
  <1>19. ASSUME NEW m \in Ids, ConsoleUnlink(m) PROVE Type'
    BY <1>19 DEF Type, ConsoleUnlink, ConsoleForgets, runner, history
  <1>20. ASSUME ConsoleDone PROVE Type'
    BY <1>20 DEF Type, ConsoleDone, Verbs, store, runner, history
  <1>21. ASSUME NEW r \in Runners, Crash(r) PROVE Type'
    BY <1>21, MishapTyped DEF Type, Crash, Stopped, store, Mishaps
  <1>22. ASSUME NEW r \in Runners, Abort(r) PROVE Type'
    BY <1>22, MishapTyped DEF Type, Abort, Stopped, Receive, InTransit, Mishaps
  <1>23. ASSUME NEW r \in Runners, Restart(r) PROVE Type'
    BY <1>23 DEF Type, Restart, store, history
  <1>24. ASSUME Tick PROVE Type'
    BY <1>24 DEF Type, Tick, store, runner, history
  <1>25. ASSUME UNCHANGED vars PROVE Type'
    BY <1>25 DEF Type, vars, store, runner, history
  <1>26. ASSUME ConsoleFails PROVE Type'
    BY <1>26, MishapTyped DEF Type, ConsoleFails, Mishaps, Verbs, store, runner, history
  <1> QED
    BY <1>1, <1>2, <1>3, <1>4, <1>5, <1>6, <1>7, <1>8, <1>9, <1>10, <1>11, <1>12, <1>13, <1>14,
       <1>15, <1>16, <1>17, <1>18, <1>19, <1>20, <1>21, <1>22, <1>23, <1>24, <1>25, <1>26
       DEF Next, RunnerStep, TaskStep, ConsoleStep

(* The queue's state has the shape the code's types give it, in every      *)
(* reachable state.                                                        *)
THEOREM TypeCorrect == Spec => []Type
  BY InitType, TypeStep, PTL DEF Spec

-----------------------------------------------------------------------------
(* Nothing vanishes.  A settled recipient stays settled as long as no DSN  *)
(* write fails, and an envelope never changes once it is there; so a copy  *)
(* that covers its message keeps covering it however old it gets.          *)

SettledGrows == \A m \in Ids, x \in Rcpts : Settled(m, x) => Settled(m, x)'
EnvelopeKept == \A m \in Ids : ~Unused(m) => msg'[m] = msg[m]

LEMMA CoversKept ==
  ASSUME Type, SettledGrows, EnvelopeKept, NEW m \in Ids, ~Unused(m), NEW S, Covers(m, S)
  PROVE  ~Unused(m)' /\ Covers(m, S)'
  BY DEF Type, SettledGrows, EnvelopeKept, Covers, Unused, Messages

(* The recipients S, as they are before the step, cover m after it. *)
StillCovers(m, S) == \A x \in msg'[m].rcpts : x \in S \/ Settled(m, x)'

LEMMA StillCovered ==
  ASSUME Type, SettledGrows, EnvelopeKept, NEW m \in Ids, ~Unused(m), NEW STATE S, Covers(m, S)
  PROVE  ~Unused(m)' /\ StillCovers(m, S)
  BY DEF Type, SettledGrows, EnvelopeKept, Covers, StillCovers, Unused, Messages

LEMMA CopyKept ==
  ASSUME Type, SettledGrows, EnvelopeKept, NEW m \in Ids, NEW e, CopyCovers(m, e)
  PROVE  CopyCovers(m, e)'
  BY CoversKept DEF CopyCovers

LEMMA CoversMore ==
  ASSUME NEW m, NEW S, NEW T, Covers(m, S), \A x \in S : x \in T \/ Settled(m, x)
  PROVE  Covers(m, T)
  BY DEF Covers

(* The parts of the invariant whose variables a step leaves alone. *)
LEMMA SpoolKept ==
  ASSUME Type, SettledGrows, EnvelopeKept, SpoolCovered, UNCHANGED <<spool, msg>>
  PROVE  SpoolCovered'
  BY CoversKept DEF SpoolCovered, Waiting, Unused, Type

LEMMA DueKept ==
  ASSUME Type, SettledGrows, EnvelopeKept, DueCovered, UNCHANGED due
  PROVE  DueCovered'
  BY CopyKept DEF DueCovered

LEMMA ConsoleKept ==
  ASSUME Type, SettledGrows, EnvelopeKept, ConsoleCovered, UNCHANGED console
  PROVE  ConsoleCovered'
  BY CopyKept DEF ConsoleCovered

TaskCovered(r, m) ==
    /\ ~Unused(m)
    /\ task[r][m].stage # "end" => Covers(m, Held(task[r][m]))
    /\ task[r][m].stage = "unlink" => task[r][m].rcpts = {}
    /\ task[r][m].bounceError => task[r][m].stage \in {"flush", "end"}

LEMMA TaskKept ==
  ASSUME Type, SettledGrows, EnvelopeKept, TasksCovered, NEW r \in Runners, NEW m \in Live(r),
         task'[r][m] = task[r][m]
  PROVE  TaskCovered(r, m)'
  <1>1. m \in Ids /\ TaskCovered(r, m)
    BY DEF TasksCovered, TaskCovered, Live
  <1>2. ~Unused(m)'
    BY <1>1 DEF EnvelopeKept, Unused, TaskCovered
  <1>3. task[r][m].stage # "end" => Covers(m, Held(task[r][m]))'
    BY <1>1, CoversKept DEF TaskCovered
  <1> QED
    BY <1>1, <1>2, <1>3 DEF TaskCovered

LEMMA TasksKept ==
  ASSUME Type, SettledGrows, EnvelopeKept, TasksCovered, UNCHANGED task
  PROVE  TasksCovered'
  BY TaskKept DEF TasksCovered, TaskCovered, Live

(* A step of one task needs to be looked at for that task only. *)
LEMMA OtherTasksKept ==
  ASSUME Type, SettledGrows, EnvelopeKept, TasksCovered,
         NEW r \in Runners, NEW m \in Ids, NEW t, task' = [task EXCEPT ![r][m] = t],
         t.stage # "none" => TaskCovered(r, m)'
  PROVE  TasksCovered'
  <1> SUFFICES ASSUME NEW q \in Runners, NEW n \in Ids, task'[q][n].stage # "none"
               PROVE  TaskCovered(q, n)'
    BY DEF TasksCovered, TaskCovered, Live
  <1>1. CASE q = r /\ n = m
    BY <1>1 DEF Type
  <1>2. CASE ~(q = r /\ n = m)
    BY <1>2, TaskKept DEF Type, Live
  <1> QED
    BY <1>1, <1>2

(* A task outside the flush, or with nothing left to flush, holds no       *)
(* pending recipient, so its step cannot unsettle any.                     *)
LEMMA FlushKept ==
  ASSUME Type, NEW r \in Runners, NEW m \in Ids, NEW t, task' = [task EXCEPT ![r][m] = t],
         Pending(r, m) = {}, NEW n \in Ids, NEW x, InFlush(n, x)
  PROVE  InFlush(n, x)'
  <1>1. PICK q \in Runners : x \in Pending(q, n)
    BY DEF InFlush
  <1>2. task'[q][n] = task[q][n]
    BY <1>1 DEF Type
  <1> QED
    BY <1>1, <1>2 DEF InFlush, Pending

HistoryGrows ==
    /\ delivered \subseteq delivered' /\ reported \subseteq reported'
    /\ discarded \subseteq discarded' /\ dropped \subseteq dropped' /\ deleted \subseteq deleted'

LEMMA TaskStepSettles ==
  ASSUME Type, NEW r \in Runners, NEW m \in Ids, NEW t, task' = [task EXCEPT ![r][m] = t],
         Pending(r, m) = {}, HistoryGrows
  PROVE  SettledGrows
  BY FlushKept DEF SettledGrows, Settled, HistoryGrows

LEMMA IdleTaskSettles ==
  ASSUME UNCHANGED task, HistoryGrows
  PROVE  SettledGrows
  BY DEF SettledGrows, Settled, HistoryGrows, InFlush, Pending

Copies == SpoolCovered /\ DueCovered /\ TasksCovered /\ ConsoleCovered

(* A task's step that touches no file. *)
LEMMA QuietTaskStep ==
  ASSUME Type, Copies, SettledGrows, EnvelopeKept,
         NEW r \in Runners, NEW m \in Ids, NEW t, task' = [task EXCEPT ![r][m] = t],
         t.stage # "none" => TaskCovered(r, m)', UNCHANGED <<msg, spool, due, console>>
  PROVE  Copies'
  BY SpoolKept, DueKept, ConsoleKept, OtherTasksKept DEF Copies

LEMMA AtStageFields ==
  ASSUME NEW t \in Tasks, NEW stage
  PROVE  /\ AtStage(t, stage).stage = stage
         /\ AtStage(t, stage).rcpts = t.rcpts
         /\ AtStage(t, stage).pendLocal = t.pendLocal
         /\ AtStage(t, stage).pendRemote = t.pendRemote
         /\ AtStage(t, stage).bounceError = t.bounceError
         /\ Held(AtStage(t, stage)) = Held(t)
  BY DEF AtStage, Tasks, Held

(* A task that moves on to another stage still covers its message. *)
LEMMA MovedTaskCovered ==
  ASSUME Type, TasksCovered, SettledGrows, EnvelopeKept,
         NEW r \in Runners, NEW m \in Live(r), NEW stage \in Stages,
         task' = [task EXCEPT ![r][m] = AtStage(task[r][m], stage)],
         task[r][m].stage # "end", stage = "unlink" => task[r][m].rcpts = {},
         task[r][m].stage = "flush" => stage = "end"
  PROVE  TaskCovered(r, m)'
  <1>1. m \in Ids /\ task[r][m] \in Tasks /\ task'[r][m] = AtStage(task[r][m], stage)
    BY LiveTask DEF Type
  <1>2. /\ ~Unused(m) /\ Covers(m, Held(task[r][m]))
        /\ task[r][m].bounceError => task[r][m].stage = "flush"
    BY DEF TasksCovered
  <1>3. ~Unused(m)' /\ StillCovers(m, Held(task[r][m]))
    BY <1>1, <1>2, StillCovered
  <1>4. Covers(m, Held(task[r][m]))'
    BY <1>1, <1>3, AtStageFields DEF Covers, StillCovers
  <1> QED
    BY <1>1, <1>2, <1>3, <1>4, AtStageFields DEF TaskCovered

(* The task's outcome reaches the file: what it names no more is pending   *)
(* in the flush that follows.                                              *)
LEMMA WriteThenFlush ==
  ASSUME Type, Copies, HistoryGrows, NEW r \in Runners, NEW m \in Live(r),
         task[r][m].stage \notin {"end", "flush"},
         task' = [task EXCEPT ![r][m] = AtStage(task[r][m], "flush")],
         NEW e \in Entries, spool' = [spool EXCEPT ![m] = e],
         IF e.file THEN e.rcpts = task[r][m].rcpts ELSE task[r][m].rcpts = {},
         UNCHANGED <<msg, due, console>>
  PROVE  Copies'
  <1> DEFINE t == task[r][m]
  <1>1. m \in Ids /\ t \in Tasks /\ task'[r][m] = AtStage(t, "flush")
    BY LiveTask DEF Type
  <1>2. SettledGrows /\ EnvelopeKept
    BY <1>1, TaskStepSettles DEF Pending, EnvelopeKept
  <1>3. "flush" \in Stages
    BY DEF Stages, SyncTail
  <1>4. TasksCovered'
    BY <1>1, <1>2, <1>3, MovedTaskCovered, OtherTasksKept, AtStageFields DEF Copies
  <1>5. ~Unused(m)' /\ StillCovers(m, Held(t))
    BY <1>1, <1>2, StillCovered DEF Copies, TasksCovered
  <1>6. \A x \in t.pendLocal \cup t.pendRemote : Settled(m, x)'
    <2> SUFFICES ASSUME NEW x \in t.pendLocal \cup t.pendRemote PROVE InFlush(m, x)'
      BY DEF Settled
    <2>1. x \in Pending(r, m)'
      BY <1>1, AtStageFields DEF Pending
    <2> QED
      BY <2>1 DEF InFlush
  <1>7. Waiting(m)' = t.rcpts
    BY <1>1 DEF Waiting, Type
  <1>8. Covers(m, Waiting(m))'
    BY <1>5, <1>6, <1>7 DEF Held, Covers, StillCovers
  <1>9. SpoolCovered'
    <2> SUFFICES ASSUME NEW n \in Ids
                 PROVE  /\ spool'[n].file => ~Unused(n)'
                        /\ ~Unused(n)' => Covers(n, Waiting(n))'
      BY DEF SpoolCovered
    <2>1. CASE n = m
      BY <2>1, <1>5, <1>8
    <2>2. CASE n # m
      BY <2>2, <1>1, <1>2, CoversKept DEF Copies, SpoolCovered, Waiting, Unused, Type
    <2> QED
      BY <2>1, <2>2
  <1> QED
    BY <1>2, <1>4, <1>9, DueKept, ConsoleKept DEF Copies

LEMMA NoHistory == UNCHANGED history => HistoryGrows
  BY DEF history, HistoryGrows

(* An answer takes a recipient off the entry only into a mailbox or into   *)
(* the pending bounces.                                                    *)
LEMMA FailedHolds ==
  ASSUME NEW t \in Tasks, t.stage \in {"local", "remote"}, NEW group \in SUBSET t.rcpts,
         NEW class, NEW accepted \in SUBSET group, NEW at, NEW stage
  PROVE  /\ Held(t) \subseteq Held(Failed(t, group, class, accepted, at, stage)) \cup accepted
         /\ Failed(t, group, class, accepted, at, stage).stage = stage
         /\ Failed(t, group, class, accepted, at, stage).bounceError = t.bounceError
  BY DEF Failed, Held, Tasks

LEMMA DoneHolds ==
  ASSUME NEW t \in Tasks, NEW group \in SUBSET t.rcpts, NEW stage
  PROVE  /\ Held(t) \subseteq Held(Done(t, group, stage)) \cup group
         /\ Done(t, group, stage).stage = stage
         /\ Done(t, group, stage).bounceError = t.bounceError
  BY DEF Done, Held, Tasks

Reached(class, group, accepted) == IF class = "ok" THEN group ELSE accepted

LEMMA AfterLocalHolds ==
  ASSUME NEW t \in Tasks, t.stage = "local", NEW class, NEW at,
         NEW accepted \in SUBSET LocalOf(t)
  PROVE  LET u == AfterLocal(t, class, accepted, at) IN
         /\ Held(t) \subseteq Held(u) \cup Reached(class, LocalOf(t), accepted)
         /\ u.stage \notin {"unlink", "none"}
         /\ u.bounceError = t.bounceError
  <1>1. LocalOf(t) \in SUBSET t.rcpts
    BY DEF LocalOf
  <1>2. CASE class = "short"
    BY <1>2, AtStageFields DEF AfterLocal, Reached
  <1>3. CASE class = "ok"
    BY <1>1, <1>3, DoneHolds DEF AfterLocal, Reached
  <1>4. CASE class \notin {"short", "ok"}
    BY <1>1, <1>4, FailedHolds DEF AfterLocal, Reached
  <1> QED
    BY <1>2, <1>3, <1>4

LEMMA AfterRemoteHolds ==
  ASSUME NEW t \in Tasks, t.stage = "remote", NEW class, NEW at,
         NEW accepted \in SUBSET RemoteOf(t)
  PROVE  LET u == AfterRemote(t, class, accepted, at) IN
         /\ Held(t) \subseteq Held(u) \cup Reached(class, RemoteOf(t), accepted)
         /\ u.stage \notin {"unlink", "none"}
         /\ u.bounceError = t.bounceError
  <1>1. RemoteOf(t) \in SUBSET t.rcpts
    BY DEF RemoteOf
  <1>2. CASE class = "short"
    BY <1>2, AtStageFields DEF AfterRemote, Reached
  <1>3. CASE class = "ok"
    BY <1>1, <1>3, DoneHolds DEF AfterRemote, Reached
  <1>4. CASE class \notin {"short", "ok"}
    BY <1>1, <1>4, FailedHolds DEF AfterRemote, Reached
  <1> QED
    BY <1>2, <1>3, <1>4

(* A delivery step of a task that held t and goes on as u. *)
LEMMA DeliveryStep ==
  ASSUME Type, Copies, NEW r \in Runners, NEW m \in Live(r),
         task[r][m].stage \in {"local", "remote"},
         NEW u \in Tasks, task' = [task EXCEPT ![r][m] = u],
         NEW reached, Receive({m} \X reached),
         Held(task[r][m]) \subseteq Held(u) \cup reached,
         u.stage \notin {"unlink", "none"}, u.bounceError = task[r][m].bounceError,
         UNCHANGED <<msg, spool, due, console>>
  PROVE  Copies'
  <1> DEFINE t == task[r][m]
  <1>1. m \in Ids /\ t \in Tasks /\ task'[r][m] = u
    BY LiveTask DEF Type
  <1>2. HistoryGrows /\ EnvelopeKept
    BY DEF HistoryGrows, Receive, EnvelopeKept
  <1>3. Pending(r, m) = {}
    BY DEF Pending
  <1>4. SettledGrows
    BY <1>1, <1>2, <1>3, TaskStepSettles
  <1>5. ~Unused(m) /\ ~t.bounceError /\ Covers(m, Held(t))
    BY DEF Copies, TasksCovered
  <1>6. ~Unused(m)' /\ StillCovers(m, Held(t))
    BY <1>1, <1>2, <1>4, <1>5, StillCovered
  <1>7. \A x \in reached : Settled(m, x)'
    BY DEF Settled, Receive
  <1>8. Covers(m, Held(task[r][m]))'
    BY <1>1, <1>6, <1>7 DEF StillCovers, Covers
  <1>9. TaskCovered(r, m)'
    BY <1>1, <1>5, <1>6, <1>8 DEF TaskCovered
  <1> QED
    BY <1>1, <1>2, <1>4, <1>9, QuietTaskStep

(* What the report of a transport names was reached. *)
LEMMA AnswerHonest ==
  ASSUME NEW group, NEW class, NEW accepted, NEW reached \in SUBSET group,
         Answered(group, class, accepted, reached)
  PROVE  Reached(class, group, accepted) \subseteq reached
  BY DEF Answered, Answers, Reached

(* A runner has tasks only while its round runs, and an entry of the       *)
(* snapshot waits for its task or has it, never both.                      *)
SnapshotOrTask == \A r \in Runners, m \in Ids :
    m \in Live(r) => round[r] = "running" /\ ~due[r][m].file

LEMMA InitSnapshotOrTask == Init => SnapshotOrTask
  BY DEF Init, SnapshotOrTask, Live, NoTask

LEMMA TaskStepKeepsLive ==
  ASSUME Type, SnapshotOrTask, NEW r \in Runners, NEW m \in Live(r), NEW t,
         task' = [task EXCEPT ![r][m] = t], UNCHANGED <<round, due>>
  PROVE  SnapshotOrTask'
  BY LiveTask DEF SnapshotOrTask, Live, Type

LEMMA TaskStepSnapshot ==
  ASSUME Type, SnapshotOrTask, NEW r \in Runners, NEW m \in Ids, TaskStep(r, m)
  PROVE  SnapshotOrTask'
  <1>1. m \in Live(r) /\ UNCHANGED <<round, due>>
    BY DEF TaskStep, AcquirePermit, DeliverLocal, Gate, DeliverRemote, Persist, Unlink,
           WriteBack, FlushBounce, FlushEnd, TaskEnd, runner
  <1>2. \E t : task' = [task EXCEPT ![r][m] = t]
    <2>1. CASE AcquirePermit(r, m) \/ Gate(r, m) \/ TaskEnd(r, m)
      BY <2>1 DEF AcquirePermit, Gate, TaskEnd
    <2>2. CASE DeliverLocal(r, m)
      BY <2>2 DEF DeliverLocal
    <2>3. CASE DeliverRemote(r, m)
      BY <2>3 DEF DeliverRemote
    <2>4. CASE Persist(r, m) \/ Unlink(r, m) \/ WriteBack(r, m)
      BY <2>4 DEF Persist, Unlink, WriteBack
    <2>5. CASE FlushBounce(r, m) \/ FlushEnd(r, m)
      BY <2>5 DEF FlushBounce, FlushEnd
    <2> QED
      BY <2>1, <2>2, <2>3, <2>4, <2>5 DEF TaskStep
  <1> QED
    BY <1>1, <1>2, TaskStepKeepsLive

LEMMA SnapshotStep == Type /\ SnapshotOrTask /\ [Next]_vars => SnapshotOrTask'
  <1> SUFFICES ASSUME Type, SnapshotOrTask, [Next]_vars PROVE SnapshotOrTask'
    OBVIOUS
  <1>1. ASSUME UNCHANGED <<round, due, task>> PROVE SnapshotOrTask'
    BY <1>1 DEF SnapshotOrTask, Live
  <1>2. ASSUME NEW r \in Runners, StartRound(r) PROVE SnapshotOrTask'
    BY <1>2 DEF StartRound, SnapshotOrTask, Live, Type
  <1>3. ASSUME NEW r \in Runners, NEW m \in Ids, ClaimEntry(r, m) PROVE SnapshotOrTask'
    <2>1. \A q \in Runners, n \in Ids : ~(q = r /\ n = m) =>
            task'[q][n] = task[q][n] /\ due'[q][n] = due[q][n]
      BY <1>3 DEF ClaimEntry, Type
    <2>2. round' = round /\ round[r] = "running" /\ ~due'[r][m].file
      BY <1>3 DEF ClaimEntry, NoFile, Type
    <2> QED
      BY <2>1, <2>2 DEF SnapshotOrTask, Live
  <1>4. ASSUME NEW r \in Runners, EndRound(r) PROVE SnapshotOrTask'
    BY <1>4 DEF EndRound, SnapshotOrTask, Live, Type
  <1>5. ASSUME NEW r \in Runners, Restart(r) PROVE SnapshotOrTask'
    BY <1>5 DEF Restart, SnapshotOrTask, Live, Type
  <1>6. ASSUME NEW r \in Runners, Stopped(r) PROVE SnapshotOrTask'
    BY <1>6 DEF Stopped, SnapshotOrTask, Live, NoTask, Type
  <1>7. ASSUME ConsoleStep PROVE UNCHANGED <<round, due, task>>
    BY <1>7 DEF ConsoleStep, ConsoleFlush, ConsoleRetry, ConsoleRead, ConsoleWrite,
                ConsoleDelete, ConsoleUnlink, ConsoleFails, ConsoleDone, runner
  <1>8. ASSUME NEW m \in Ids, NEW env \in Envelopes, Enqueue(m, env)
        PROVE  UNCHANGED <<round, due, task>>
    BY <1>8 DEF Enqueue, runner
  <1>9. ASSUME Tick \/ UNCHANGED vars PROVE UNCHANGED <<round, due, task>>
    BY <1>9 DEF Tick, vars, runner
  <1> QED
    BY <1>1, <1>2, <1>3, <1>4, <1>5, <1>6, <1>7, <1>8, <1>9, TaskStepSnapshot
       DEF Next, RunnerStep, Crash, Abort

LEMMA DeliverLocalCopies ==
  ASSUME Type, Copies, NEW r \in Runners, NEW m \in Ids, DeliverLocal(r, m)
  PROVE  Copies'
  <1> DEFINE t == task[r][m]
  <1>1. m \in Live(r) /\ t \in Tasks /\ t.stage = "local" /\ UNCHANGED <<msg, spool, due, console>>
    BY LiveTask DEF DeliverLocal, store, runner
  <1>2. PICK class \in {"ok", "transient", "permanent", "short"}, reached \in SUBSET LocalOf(t) :
        \E accepted \in {{}, reached} :
          /\ Answered(LocalOf(t), class, accepted, reached)
          /\ Receive({m} \X reached)
          /\ \E delay \in Delays(Policy, t.attempts + 1) :
               task' = [task EXCEPT ![r][m] =
                           AfterLocal(t, class, accepted, Deadline(roundNow[r] + delay))]
    BY DEF DeliverLocal
  <1>3. PICK accepted \in {{}, reached}, delay \in Delays(Policy, t.attempts + 1) :
          /\ Answered(LocalOf(t), class, accepted, reached)
          /\ Receive({m} \X reached)
          /\ task' = [task EXCEPT ![r][m] =
                         AfterLocal(t, class, accepted, Deadline(roundNow[r] + delay))]
    BY <1>2
  <1> DEFINE u == AfterLocal(t, class, accepted, Deadline(roundNow[r] + delay))
  <1>4. u \in Tasks
    <2>1. Deadline(roundNow[r] + delay) \in Nat
      BY DelaysAreNat, DeadlineIsNat DEF Type
    <2> QED
      BY <1>1, <2>1, AfterTyped
  <1>5. /\ Held(t) \subseteq Held(u) \cup Reached(class, LocalOf(t), accepted)
        /\ u.stage \notin {"unlink", "none"} /\ u.bounceError = t.bounceError
    BY <1>1, AfterLocalHolds
  <1>6. Held(t) \subseteq Held(u) \cup reached
    BY <1>3, <1>5, AnswerHonest
  <1> QED
    BY <1>1, <1>3, <1>4, <1>5, <1>6, DeliveryStep

LEMMA DeliverRemoteCopies ==
  ASSUME Type, Copies, NEW r \in Runners, NEW m \in Ids, DeliverRemote(r, m)
  PROVE  Copies'
  <1> DEFINE t == task[r][m]
  <1>1. /\ m \in Live(r) /\ t \in Tasks /\ t.stage = "remote"
        /\ UNCHANGED <<msg, spool, due, console>>
    BY LiveTask DEF DeliverRemote, store
  <1>2. PICK class \in {"ok", "transient", "permanent", "short"}, reached \in SUBSET RemoteOf(t) :
        \E accepted \in {{}, reached}, localFault \in BOOLEAN :
          /\ IF localFault THEN class = "transient" /\ reached = {} /\ Happens("sign")
                           ELSE Answered(RemoteOf(t), class, accepted, reached)
          /\ Receive({m} \X reached)
          /\ RecordHealth(r, class, localFault)
          /\ \E delay \in Delays(Policy, t.attempts + 1) :
               task' = [task EXCEPT ![r][m] =
                           AfterRemote(t, class, accepted, Deadline(roundNow[r] + delay))]
    BY DEF DeliverRemote
  <1>3. PICK accepted \in {{}, reached}, delay \in Delays(Policy, t.attempts + 1) :
          /\ \/ class = "transient" /\ reached = {}
             \/ Answered(RemoteOf(t), class, accepted, reached)
          /\ Receive({m} \X reached)
          /\ task' = [task EXCEPT ![r][m] =
                         AfterRemote(t, class, accepted, Deadline(roundNow[r] + delay))]
    BY <1>2
  <1> DEFINE u == AfterRemote(t, class, accepted, Deadline(roundNow[r] + delay))
  <1>4. u \in Tasks
    <2>1. Deadline(roundNow[r] + delay) \in Nat
      BY DelaysAreNat, DeadlineIsNat DEF Type
    <2> QED
      BY <1>1, <2>1, AfterTyped
  <1>5. /\ Held(t) \subseteq Held(u) \cup Reached(class, RemoteOf(t), accepted)
        /\ u.stage \notin {"unlink", "none"} /\ u.bounceError = t.bounceError
    BY <1>1, AfterRemoteHolds
  <1>6. Reached(class, RemoteOf(t), accepted) \subseteq reached
    BY <1>3, AnswerHonest DEF Reached
  <1>7. Held(t) \subseteq Held(u) \cup reached
    BY <1>5, <1>6
  <1> QED
    BY <1>1, <1>3, <1>4, <1>5, <1>7, DeliveryStep

(* The steps of a task that only move it on. *)
LEMMA MoveOnCopies ==
  ASSUME Type, Copies, NEW r \in Runners, NEW m \in Live(r),
         task[r][m].stage \notin {"end", "flush"}, NEW stage \in Stages \ {"none"},
         task' = [task EXCEPT ![r][m] = AtStage(task[r][m], stage)],
         stage = "unlink" => task[r][m].rcpts = {},
         UNCHANGED <<msg, spool, due, console, history>>
  PROVE  Copies'
  <1>1. m \in Ids /\ task[r][m] \in Tasks
    BY LiveTask
  <1>2. HistoryGrows /\ EnvelopeKept /\ SettledGrows
    BY <1>1, NoHistory, TaskStepSettles DEF Pending, EnvelopeKept
  <1>3. TaskCovered(r, m)'
    BY <1>2, MovedTaskCovered DEF Copies
  <1> QED
    BY <1>1, <1>2, <1>3, QuietTaskStep

LEMMA AcquireCopies ==
  ASSUME Type, Copies, NEW r \in Runners, NEW m \in Ids, AcquirePermit(r, m) PROVE Copies'
  <1>1. PICK stage \in {"local", "gate"} :
          task' = [task EXCEPT ![r][m] = AtStage(task[r][m], stage)]
    BY DEF AcquirePermit
  <1> QED
    BY <1>1, MoveOnCopies DEF AcquirePermit, Stages, store, runner

LEMMA GateCopies ==
  ASSUME Type, Copies, NEW r \in Runners, NEW m \in Ids, Gate(r, m) PROVE Copies'
  <1>1. PICK stage \in {"persist", "remote"} :
          task' = [task EXCEPT ![r][m] = AtStage(task[r][m], stage)]
    BY DEF Gate
  <1> QED
    BY <1>1, MoveOnCopies DEF Gate, Stages, SyncTail, store

LEMMA PersistCopies ==
  ASSUME Type, Copies, NEW r \in Runners, NEW m \in Ids, Persist(r, m) PROVE Copies'
  <1> DEFINE t == task[r][m]
  <1>1. /\ m \in Live(r) /\ t \in Tasks /\ t.stage = "persist"
        /\ UNCHANGED <<msg, due, console, history>>
    BY LiveTask DEF Persist, runner
  <1>2. CASE /\ UNCHANGED spool
             /\ \E stage \in {"unlink", "flush", "end"} :
                  /\ task' = [task EXCEPT ![r][m] = AtStage(t, stage)]
                  /\ stage = "unlink" => t.rcpts = {}
    BY <1>1, <1>2, MoveOnCopies DEF Stages, SyncTail
  <1>3. CASE /\ spool' = [spool EXCEPT ![m] = FileOf(t)]
             /\ task' = [task EXCEPT ![r][m] = AtStage(t, "flush")]
    <2>1. FileOf(t) \in Entries /\ FileOf(t).file /\ FileOf(t).rcpts = t.rcpts
      BY <1>1, FileOfTyped DEF FileOf
    <2> QED
      BY <1>1, <1>3, <2>1, NoHistory, WriteThenFlush
  <1> QED
    BY <1>2, <1>3 DEF Persist

LEMMA UnlinkCopies ==
  ASSUME Type, Copies, NEW r \in Runners, NEW m \in Ids, Unlink(r, m) PROVE Copies'
  <1> DEFINE t == task[r][m]
  <1>1. /\ m \in Live(r) /\ t \in Tasks /\ t.stage = "unlink"
        /\ UNCHANGED <<msg, due, console, history>>
    BY LiveTask DEF Unlink, runner
  <1>2. t.rcpts = {}
    BY <1>1 DEF Copies, TasksCovered
  <1>3. CASE UNCHANGED spool /\ task' = [task EXCEPT ![r][m] = AtStage(t, "end")]
    <2>1. "end" \in Stages \ {"none"}
      BY DEF Stages, SyncTail
    <2> QED
      BY <1>1, <1>3, <2>1, MoveOnCopies
  <1>4. CASE /\ spool' = [spool EXCEPT ![m] = NoFile]
             /\ task' = [task EXCEPT ![r][m] = AtStage(t, "flush")]
    <2>1. NoFile \in Entries /\ ~NoFile.file
      BY NothingTyped DEF NoFile
    <2> QED
      BY <1>1, <1>2, <1>4, <2>1, NoHistory, WriteThenFlush
  <1> QED
    BY <1>3, <1>4 DEF Unlink

LEMMA WriteBackCopies ==
  ASSUME Type, Copies, NEW r \in Runners, NEW m \in Ids, WriteBack(r, m) PROVE Copies'
  <1> DEFINE t == task[r][m]
  <1>1. /\ m \in Live(r) /\ t \in Tasks /\ t.stage = "writeback"
        /\ UNCHANGED <<msg, due, console, history>>
        /\ task' = [task EXCEPT ![r][m] = AtStage(t, "flush")]
    BY LiveTask DEF WriteBack, runner
  <1>2. CASE UNCHANGED spool
    <2>1. "flush" \in Stages \ {"none"}
      BY DEF Stages, SyncTail
    <2> QED
      BY <1>1, <1>2, <2>1, MoveOnCopies
  <1>3. CASE spool' = [spool EXCEPT ![m] = FileOf(t)]
    <2>1. FileOf(t) \in Entries /\ FileOf(t).file /\ FileOf(t).rcpts = t.rcpts
      BY <1>1, FileOfTyped DEF FileOf
    <2> QED
      BY <1>1, <1>3, <2>1, NoHistory, WriteThenFlush
  <1> QED
    BY <1>2, <1>3 DEF WriteBack

(* One pending group leaves the flush, with a fate of its own or back to   *)
(* the recipients of the entry.                                            *)
LEMMA FlushedHolds ==
  ASSUME NEW t \in Tasks, NEW back, NEW e \in BOOLEAN
  PROVE  LET u == Flushed(t, back, e) IN
         /\ Held(t) \subseteq Held(u) \cup NextBounce(t)
         /\ t.pendLocal \cup t.pendRemote \subseteq u.pendLocal \cup u.pendRemote \cup NextBounce(t)
         /\ u.rcpts = t.rcpts \cup back
         /\ u.stage = "flush" /\ (u.bounceError <=> t.bounceError \/ e)
  BY DEF Flushed, NextBounce, Held, Tasks

LEMMA FlushTaskCovered ==
  ASSUME Type, TasksCovered, NEW r \in Runners, NEW m \in Live(r), task[r][m].stage = "flush",
         NEW back, NEW e \in BOOLEAN,
         task' = [task EXCEPT ![r][m] = Flushed(task[r][m], back, e)],
         HistoryGrows, EnvelopeKept,
         \A x \in NextBounce(task[r][m]) :
            <<m, x>> \in reported' \cup discarded' \/ (e /\ x \in back)
  PROVE  SettledGrows /\ TasksCovered'
  <1> DEFINE t == task[r][m]
             u == Flushed(t, back, e)
  <1>1. m \in Ids /\ t \in Tasks /\ task'[r][m] = u
    BY LiveTask DEF Type
  <1>2. ~Unused(m) /\ Covers(m, Held(t))
    BY DEF TasksCovered
  <1>a. ASSUME NEW x, x \in u.pendLocal \cup u.pendRemote \/ (u.bounceError /\ x \in u.rcpts)
        PROVE  Settled(m, x)'
    <2>1. x \in Pending(r, m)'
      BY <1>1, <1>a, FlushedHolds DEF Pending
    <2> QED
      BY <2>1 DEF Settled, InFlush
  <1>3. \A x \in NextBounce(t) : Settled(m, x)'
    BY <1>1, <1>a, FlushedHolds DEF Settled
  <1>4. \A x \in Pending(r, m) : Settled(m, x)'
    <2> SUFFICES ASSUME NEW x \in Pending(r, m), x \notin NextBounce(t) PROVE Settled(m, x)'
      BY <1>3
    <2>1. x \in t.pendLocal \cup t.pendRemote \/ (t.bounceError /\ x \in t.rcpts)
      BY DEF Pending
    <2>2. x \in u.pendLocal \cup u.pendRemote \/ (u.bounceError /\ x \in u.rcpts)
      BY <1>1, <2>1, FlushedHolds
    <2> QED
      BY <1>a, <2>2
  <1>5. ASSUME NEW n \in Ids, NEW x, InFlush(n, x) PROVE Settled(n, x)'
    <2>1. PICK q \in Runners : x \in Pending(q, n)
      BY <1>5 DEF InFlush
    <2>2. CASE q = r /\ n = m
      BY <1>4, <2>1, <2>2
    <2>3. CASE ~(q = r /\ n = m)
      <3>1. task'[q][n] = task[q][n]
        BY <1>1, <2>3 DEF Type
      <3> QED
        BY <2>1, <3>1 DEF Settled, InFlush, Pending
    <2> QED
      BY <2>2, <2>3
  <1>6. SettledGrows
    BY <1>5 DEF SettledGrows, Settled, HistoryGrows
  <1>7. ~Unused(m)' /\ StillCovers(m, Held(t))
    BY <1>1, <1>2, <1>6, StillCovered
  <1>8. Covers(m, Held(task[r][m]))'
    BY <1>1, <1>3, <1>7, FlushedHolds DEF StillCovers, Covers
  <1>9. TaskCovered(r, m)'
    BY <1>1, <1>2, <1>7, <1>8, FlushedHolds DEF TaskCovered
  <1> QED
    BY <1>1, <1>6, <1>9, OtherTasksKept

(* A message that enters the spool under a fresh id is covered by its own  *)
(* file.                                                                   *)
LEMMA NewEntryCovered ==
  ASSUME Type, SpoolCovered, SettledGrows, EnvelopeKept, NEW d \in Ids, Unused(d),
         NEW M \in Messages, M.kind # "none", NEW at,
         msg' = [msg EXCEPT ![d] = M], spool' = [spool EXCEPT ![d] = NewEntry(M.rcpts, at)]
  PROVE  SpoolCovered'
  <1> SUFFICES ASSUME NEW n \in Ids
               PROVE  /\ spool'[n].file => ~Unused(n)'
                      /\ ~Unused(n)' => Covers(n, Waiting(n))'
    BY DEF SpoolCovered
  <1>1. CASE n = d
    BY <1>1 DEF Type, Unused, Covers, Waiting, NewEntry
  <1>2. CASE n # d
    <2>1. msg'[n] = msg[n] /\ spool'[n] = spool[n]
      BY <1>2 DEF Type
    <2>2. Waiting(n)' = Waiting(n)
      BY <2>1 DEF Waiting
    <2>3. ~Unused(n) => StillCovers(n, Waiting(n))
      BY StillCovered DEF SpoolCovered
    <2> QED
      BY <2>1, <2>2, <2>3 DEF SpoolCovered, Unused, Covers, StillCovers
  <1> QED
    BY <1>1, <1>2

LEMMA FlushBounceCopies ==
  ASSUME Type, Copies, NEW r \in Runners, NEW m \in Ids, FlushBounce(r, m)
  PROVE  Copies'
  <1> DEFINE t == task[r][m]
             failed == NextBounce(t)
  <1>1. /\ m \in Live(r) /\ t \in Tasks /\ t.stage = "flush" /\ failed \subseteq Rcpts
        /\ UNCHANGED <<due, console, delivered, deleted, dropped>>
    <2>1. m \in Live(r) /\ t \in Tasks /\ failed \subseteq Rcpts
      BY LiveTask DEF FlushBounce, NextBounce, Tasks
    <2> QED
      BY <2>1 DEF FlushBounce, runner
  <1>2. CASE /\ discarded' = discarded \cup ({m} \X failed) /\ UNCHANGED <<msg, spool, reported>>
             /\ task' = [task EXCEPT ![r][m] = Flushed(t, {}, FALSE)]
    <2>1. HistoryGrows /\ EnvelopeKept
      BY <1>1, <1>2 DEF HistoryGrows, EnvelopeKept
    <2>2. SettledGrows /\ TasksCovered'
      BY <1>1, <1>2, <2>1, FlushTaskCovered DEF Copies
    <2> QED
      BY <1>1, <1>2, <2>1, <2>2, SpoolKept, DueKept, ConsoleKept DEF Copies
  <1>3. ASSUME NEW d \in Ids, Unused(d), msg[m].from # Null,
               msg' = [msg EXCEPT ![d] = [kind |-> "bounce", from |-> Null,
                                          rcpts |-> {msg[m].from}]],
               spool' = [spool EXCEPT ![d] = NewEntry({msg[m].from}, roundNow[r])],
               reported' = reported \cup ({m} \X failed), UNCHANGED discarded,
               task' = [task EXCEPT ![r][m] = Flushed(t, {}, FALSE)]
        PROVE  Copies'
    <2> DEFINE M == [kind |-> "bounce", from |-> Null, rcpts |-> {msg[m].from}]
    <2>1. HistoryGrows
      BY <1>1, <1>3 DEF HistoryGrows
    <2>2. EnvelopeKept
      BY <1>3 DEF EnvelopeKept, Unused, Type
    <2>3. SettledGrows /\ TasksCovered'
      BY <1>1, <1>3, <2>1, <2>2, FlushTaskCovered DEF Copies
    <2>4. M \in Messages /\ M.kind # "none" /\ M.rcpts = {msg[m].from}
      BY <1>3 DEF Type, Messages
    <2>5. SpoolCovered'
      BY <1>3, <2>2, <2>3, <2>4, NewEntryCovered DEF Copies
    <2> QED
      BY <1>1, <2>2, <2>3, <2>5, DueKept, ConsoleKept DEF Copies
  <1>4. CASE /\ UNCHANGED <<msg, spool, reported, discarded>>
             /\ task' = [task EXCEPT ![r][m] = Flushed(t, failed, TRUE)]
    <2>1. HistoryGrows /\ EnvelopeKept
      BY <1>1, <1>4 DEF HistoryGrows, EnvelopeKept
    <2>2. SettledGrows /\ TasksCovered'
      BY <1>1, <1>4, <2>1, FlushTaskCovered DEF Copies
    <2> QED
      BY <1>1, <1>4, <2>1, <2>2, SpoolKept, DueKept, ConsoleKept DEF Copies
  <1> QED
    BY <1>2, <1>3, <1>4 DEF FlushBounce

(* Recipients that a failed DSN gave back are written back, and nobody     *)
(* else holds a copy of the entry to overwrite it with.                    *)
Alone(r, m) ==
    /\ \A q \in Runners : q = r
    /\ ~due[r][m].file
    /\ console.verb = "delete" \/ ~console.copies[m].file

LEMMA GivenBackCopies ==
  ASSUME Type, Copies, NEW r \in Runners, NEW m \in Live(r), Alone(r, m),
         task[r][m].stage = "flush", task[r][m].pendLocal = {}, task[r][m].pendRemote = {},
         task' = [task EXCEPT ![r][m] = AtStage(task[r][m], "end")],
         spool' = [spool EXCEPT ![m] = FileOf(task[r][m])],
         UNCHANGED <<msg, due, console, history>>
  PROVE  Copies'
  <1> DEFINE t == task[r][m]
  <1>1. /\ m \in Ids /\ t \in Tasks /\ task'[r][m] = AtStage(t, "end")
        /\ \A q \in Runners, n \in Ids : n # m => task'[q][n] = task[q][n]
    BY LiveTask DEF Type
  <1>2. ASSUME NEW n \in Ids, n # m, NEW x, Settled(n, x) PROVE Settled(n, x)'
    <2>1. \A q \in Runners : Pending(q, n)' = Pending(q, n)
      BY <1>1, <1>2 DEF Pending
    <2> QED
      BY <1>2, <2>1 DEF Settled, InFlush, history
  <1>3. ASSUME NEW n \in Ids, n # m, NEW S, Covers(n, S) PROVE Covers(n, S)'
    BY <1>2, <1>3 DEF Covers
  <1>4. \A n \in Ids : Unused(n)' = Unused(n)
    BY DEF Unused
  <1>5. ~Unused(m) /\ Covers(m, t.rcpts)
    BY DEF Copies, TasksCovered, Held
  <1>6. \A x : x \notin t.rcpts /\ Settled(m, x) => Settled(m, x)'
    <2> SUFFICES ASSUME NEW x, x \notin t.rcpts, Settled(m, x) PROVE Settled(m, x)'
      OBVIOUS
    <2>1. ~InFlush(m, x)
      BY DEF InFlush, Pending, Alone
    <2> QED
      BY <2>1 DEF Settled, history
  <1>7. /\ spool'[m].file /\ Waiting(m)' = t.rcpts
        /\ \A n \in Ids : n # m => spool'[n] = spool[n] /\ Waiting(n)' = Waiting(n)
    BY <1>1 DEF Type, Waiting, FileOf
  <1>8. Covers(m, Waiting(m))'
    BY <1>5, <1>6, <1>7 DEF Covers
  <1>9. SpoolCovered'
    BY <1>3, <1>4, <1>5, <1>7, <1>8 DEF Copies, SpoolCovered
  <1>10. DueCovered'
    BY <1>3, <1>4 DEF Copies, DueCovered, CopyCovers, Alone
  <1>11. ConsoleCovered'
    BY <1>3, <1>4 DEF Copies, ConsoleCovered, CopyCovers, Alone
  <1>12. ASSUME NEW q \in Runners, NEW n \in Ids, task'[q][n].stage # "none"
         PROVE  TaskCovered(q, n)'
    <2>1. CASE n = m
      <3>1. q = r /\ AtStage(t, "end").stage = "end"
        BY <1>1, AtStageFields DEF Alone
      <3> QED
        BY <1>1, <1>4, <1>5, <2>1, <3>1 DEF TaskCovered
    <2>2. CASE n # m
      <3>1. task'[q][n] = task[q][n] /\ TaskCovered(q, n)
        BY <1>1, <1>12, <2>2 DEF Copies, TasksCovered, TaskCovered, Live
      <3>2. task[q][n].stage # "end" => Covers(n, Held(task[q][n]))'
        BY <1>3, <2>2, <3>1 DEF TaskCovered
      <3> QED
        BY <1>4, <3>1, <3>2 DEF TaskCovered
    <2> QED
      BY <2>1, <2>2
  <1>13. TasksCovered'
    BY <1>12 DEF TasksCovered, TaskCovered, Live
  <1> QED
    BY <1>9, <1>10, <1>11, <1>13 DEF Copies

LEMMA FlushEndCopies ==
  ASSUME Type, Copies, NEW r \in Runners, NEW m \in Ids, FlushEnd(r, m),
         task[r][m].bounceError => Alone(r, m) /\ ~Happens("write")
  PROVE  Copies'
  <1> DEFINE t == task[r][m]
  <1>1. /\ m \in Live(r) /\ t \in Tasks /\ t.stage = "flush"
        /\ t.pendLocal = {} /\ t.pendRemote = {} /\ UNCHANGED <<msg, due, console, history>>
        /\ task' = [task EXCEPT ![r][m] = AtStage(t, "end")]
    BY LiveTask DEF FlushEnd, runner
  <1>2. CASE ~t.bounceError
    <2>1. UNCHANGED spool
      BY <1>2 DEF FlushEnd
    <2>2. Pending(r, m) = {}
      BY <1>1, <1>2 DEF Pending
    <2>3. SettledGrows /\ EnvelopeKept
      BY <1>1, <2>2, NoHistory, TaskStepSettles DEF EnvelopeKept
    <2>4. "end" \in Stages
      BY DEF Stages, SyncTail
    <2>5. TaskCovered(r, m)'
      BY <1>1, <2>3, <2>4, MovedTaskCovered DEF Copies
    <2> QED
      BY <1>1, <2>1, <2>3, <2>5, QuietTaskStep
  <1>3. CASE t.bounceError
    <2>1. spool' = [spool EXCEPT ![m] = FileOf(t)]
      BY <1>3 DEF FlushEnd
    <2> QED
      BY <1>1, <1>3, <2>1, GivenBackCopies
  <1> QED
    BY <1>2, <1>3

LEMMA TaskEndCopies ==
  ASSUME Type, Copies, NEW r \in Runners, NEW m \in Ids, TaskEnd(r, m) PROVE Copies'
  <1>1. Pending(r, m) = {}
    BY DEF TaskEnd, Pending
  <1>2. SettledGrows /\ EnvelopeKept
    BY <1>1, NoHistory, TaskStepSettles DEF TaskEnd, EnvelopeKept
  <1>3. NoTask.stage = "none"
    BY DEF NoTask
  <1> QED
    BY <1>2, <1>3, QuietTaskStep DEF TaskEnd, runner

(* Steps that leave every copy and every fate alone. *)
LEMMA IdleCopies ==
  ASSUME Type, Copies, UNCHANGED <<msg, spool, due, task, console, history>> PROVE Copies'
  <1>1. SettledGrows /\ EnvelopeKept
    BY NoHistory, IdleTaskSettles DEF EnvelopeKept
  <1> QED
    BY <1>1, SpoolKept, DueKept, TasksKept, ConsoleKept DEF Copies

LEMMA EnqueueCopies ==
  ASSUME Type, Copies, NEW m \in Ids, NEW env \in Envelopes, Enqueue(m, env) PROVE Copies'
  <1> DEFINE M == [kind |-> "outbound", from |-> env.from, rcpts |-> env.rcpts]
  <1>1. SettledGrows
    BY NoHistory, IdleTaskSettles DEF Enqueue
  <1>2. EnvelopeKept
    BY DEF Enqueue, EnvelopeKept, Unused, Type
  <1>3. M \in Messages /\ M.kind # "none" /\ M.rcpts = env.rcpts
    BY EnvelopesTyped DEF Messages
  <1>4. SpoolCovered'
    BY <1>1, <1>2, <1>3, NewEntryCovered DEF Enqueue, Copies
  <1> QED
    BY <1>1, <1>2, <1>4, DueKept, TasksKept, ConsoleKept DEF Enqueue, Copies, runner

(* A copy read from the spool covers its message, as the file does. *)
LEMMA FileCovers ==
  ASSUME SpoolCovered, NEW m \in Ids, NEW e, e.file => spool[m].file /\ e.rcpts = spool[m].rcpts
  PROVE  CopyCovers(m, e)
  BY DEF SpoolCovered, CopyCovers, Waiting

LEMMA StartRoundCopies ==
  ASSUME Type, Copies, NEW r \in Runners, StartRound(r) PROVE Copies'
  <1>1. SettledGrows /\ EnvelopeKept
    BY NoHistory, IdleTaskSettles DEF StartRound, EnvelopeKept
  <1>2. ASSUME NEW q \in Runners, NEW m \in Ids PROVE CopyCovers(m, due[q][m])'
    <2>1. CASE due'[q][m] = due[q][m]
      BY <1>1, <2>1, CopyKept DEF Copies, DueCovered
    <2>2. CASE ~due'[q][m].file
      BY <2>2 DEF CopyCovers
    <2>3. CASE due'[q][m] = spool[m]
      <3>1. CopyCovers(m, spool[m])
        BY FileCovers DEF Copies
      <3>2. spool' = spool
        BY DEF StartRound
      <3>3. CopyCovers(m, spool[m])'
        BY <1>1, <3>1, <3>2, CopyKept
      <3> QED
        BY <2>3, <3>2, <3>3
    <2> QED
      BY <2>1, <2>2, <2>3 DEF StartRound, Type, NoFile
  <1>3. DueCovered'
    BY <1>2 DEF DueCovered
  <1> QED
    BY <1>1, <1>3, SpoolKept, TasksKept, ConsoleKept DEF StartRound, Copies

LEMMA ClaimEntryCopies ==
  ASSUME Type, Copies, SnapshotOrTask, NEW r \in Runners, NEW m \in Ids, ClaimEntry(r, m)
  PROVE  Copies'
  <1> DEFINE e == due[r][m]
  <1>1. /\ e \in Entries /\ e.file /\ UNCHANGED <<msg, spool, console, history>>
        /\ due' = [due EXCEPT ![r][m] = NoFile]
    BY DEF ClaimEntry, Type
  <1>2. ~Unused(m) /\ Covers(m, e.rcpts)
    BY <1>1 DEF Copies, DueCovered, CopyCovers
  <1>3. EnvelopeKept /\ HistoryGrows
    BY <1>1, NoHistory DEF EnvelopeKept
  <1>4. SettledGrows /\ TasksCovered'
    <2>1. CASE UNCHANGED task
      BY <1>3, <2>1, IdleTaskSettles, TasksKept DEF Copies
    <2>2. CASE task' = [task EXCEPT ![r][m] = Spawned(e)]
      <3>1. m \notin Live(r) /\ Pending(r, m) = {}
        BY <1>1 DEF SnapshotOrTask, Live, Pending
      <3>2. SettledGrows
        BY <1>3, <2>2, <3>1, TaskStepSettles
      <3>3. /\ task'[r][m] = Spawned(e) /\ Spawned(e).stage = "permit"
            /\ ~Spawned(e).bounceError /\ Held(Spawned(e)) = e.rcpts
        BY <1>1, <2>2 DEF Type, Spawned, Held, Entries
      <3>4. ~Unused(m)' /\ StillCovers(m, e.rcpts)
        BY <1>2, <1>3, <3>2, StillCovered
      <3>5. TaskCovered(r, m)'
        BY <3>3, <3>4 DEF TaskCovered, Covers, StillCovers
      <3> QED
        BY <1>3, <2>2, <3>2, <3>5, OtherTasksKept DEF Copies
    <2> QED
      BY <2>1, <2>2 DEF ClaimEntry
  <1>5. ASSUME NEW q \in Runners, NEW n \in Ids PROVE CopyCovers(n, due[q][n])'
    <2>1. CASE due'[q][n] = due[q][n]
      BY <1>3, <1>4, <2>1, CopyKept DEF Copies, DueCovered
    <2>2. CASE ~due'[q][n].file
      BY <2>2 DEF CopyCovers
    <2> QED
      BY <1>1, <2>1, <2>2 DEF Type, NoFile
  <1>6. DueCovered'
    BY <1>5 DEF DueCovered
  <1> QED
    BY <1>1, <1>3, <1>4, <1>6, SpoolKept, ConsoleKept DEF Copies

(* The console. *)

LEMMA ConsoleReadCopies ==
  ASSUME Type, Copies, NEW verb \in Verbs, NEW copies \in [Ids -> Entries],
         \A m \in Ids : copies[m].file => spool[m].file /\ copies[m].rcpts = spool[m].rcpts,
         console' = [verb |-> verb, copies |-> copies],
         UNCHANGED <<msg, spool, due, task, history>>
  PROVE  Copies'
  <1>1. SettledGrows /\ EnvelopeKept
    BY NoHistory, IdleTaskSettles DEF EnvelopeKept
  <1>2. ASSUME NEW m \in Ids PROVE CopyCovers(m, console.copies[m])'
    <2>1. CopyCovers(m, copies[m])
      BY FileCovers DEF Copies
    <2>2. CopyCovers(m, copies[m])'
      BY <1>1, <2>1, CopyKept
    <2> QED
      BY <2>2
  <1>3. ConsoleCovered'
    BY <1>2 DEF ConsoleCovered
  <1> QED
    BY <1>1, <1>3, SpoolKept, DueKept, TasksKept DEF Copies

LEMMA ConsoleFlushCopies == ASSUME Type, Copies, ConsoleFlush PROVE Copies'
  <1> DEFINE copies == [m \in Ids |-> IF spool[m].file /\ ~is_due(spool[m], now)
                                      THEN Requeued(spool[m], spool[m].attempts) ELSE NoFile]
  <1>1. \A m \in Ids : spool[m].file => Requeued(spool[m], spool[m].attempts) \in Entries
    BY RequeuedTyped DEF Type, Entries
  <1>2. copies \in [Ids -> Entries]
    BY <1>1, NothingTyped
  <1>3. \A m \in Ids : copies[m].file => spool[m].file /\ copies[m].rcpts = spool[m].rcpts
    BY DEF Requeued, NoFile
  <1>4. console' = [verb |-> "flush", copies |-> copies] /\ UNCHANGED <<msg, spool, due, task, history>>
    BY DEF ConsoleFlush, ConsoleRead, store, runner
  <1>5. "flush" \in Verbs
    BY DEF Verbs
  <1> HIDE DEF copies
  <1> QED
    BY <1>2, <1>3, <1>4, <1>5, ConsoleReadCopies

LEMMA ConsoleRetryCopies == ASSUME Type, Copies, NEW m \in Ids, ConsoleRetry(m) PROVE Copies'
  <1> DEFINE copies == [i \in Ids |-> IF i = m THEN Requeued(spool[m], 0) ELSE NoFile]
  <1>1. Requeued(spool[m], 0) \in Entries
    BY RequeuedTyped DEF Type
  <1>2. copies \in [Ids -> Entries]
    BY <1>1, NothingTyped
  <1>3. \A i \in Ids : copies[i].file => spool[i].file /\ copies[i].rcpts = spool[i].rcpts
    BY DEF Requeued, NoFile, ConsoleRetry
  <1>4. console' = [verb |-> "retry", copies |-> copies] /\ UNCHANGED <<msg, spool, due, task, history>>
    BY DEF ConsoleRetry, ConsoleRead, store, runner
  <1>5. "retry" \in Verbs
    BY DEF Verbs
  <1> HIDE DEF copies
  <1> QED
    BY <1>2, <1>3, <1>4, <1>5, ConsoleReadCopies

(* Dropping one of the console's copies leaves the others covered. *)
LEMMA ConsoleShrinks ==
  ASSUME Type, ConsoleCovered, SettledGrows, EnvelopeKept, NEW m \in Ids,
         ConsoleForgets(m)
  PROVE  ConsoleCovered'
  <1> SUFFICES ASSUME console.verb # "delete", NEW n \in Ids
               PROVE  CopyCovers(n, console.copies[n])'
    BY DEF ConsoleCovered, ConsoleForgets
  <1>1. CASE n = m
    BY <1>1 DEF ConsoleForgets, CopyCovers, NoFile, Type
  <1>2. CASE n # m
    <2>1. console'.copies[n] = console.copies[n] /\ CopyCovers(n, console.copies[n])
      BY <1>2 DEF ConsoleCovered, ConsoleForgets, Type
    <2> QED
      BY <2>1, CopyKept
  <1> QED
    BY <1>1, <1>2

(* A request that fails leaves no copy behind. *)
LEMMA ConsoleFailsCopies == ASSUME Type, Copies, ConsoleFails PROVE Copies'
  <1>1. SettledGrows /\ EnvelopeKept
    BY NoHistory, IdleTaskSettles DEF ConsoleFails, EnvelopeKept, store
  <1>2. ConsoleCovered'
    BY DEF ConsoleFails, ConsoleCovered, CopyCovers, NoCopies, NoFile
  <1> QED
    BY <1>1, <1>2, SpoolKept, DueKept, TasksKept DEF Copies, ConsoleFails, store, runner

LEMMA ConsoleWriteCopies == ASSUME Type, Copies, NEW m \in Ids, ConsoleWrite(m) PROVE Copies'
  <1> DEFINE e == console.copies[m]
  <1>1. /\ e \in Entries /\ e.file /\ console.verb # "delete"
        /\ UNCHANGED <<msg, due, task, history>>
        /\ spool' = [spool EXCEPT ![m] = e] /\ ConsoleForgets(m)
    BY DEF ConsoleWrite, Type, runner
  <1>2. SettledGrows /\ EnvelopeKept
    BY <1>1, NoHistory, IdleTaskSettles DEF EnvelopeKept
  <1>3. ~Unused(m) /\ Covers(m, e.rcpts)
    BY <1>1 DEF Copies, ConsoleCovered, CopyCovers
  <1>4. ~Unused(m)' /\ StillCovers(m, e.rcpts)
    BY <1>2, <1>3, StillCovered
  <1>5. SpoolCovered'
    <2> SUFFICES ASSUME NEW n \in Ids
                 PROVE  /\ spool'[n].file => ~Unused(n)'
                        /\ ~Unused(n)' => Covers(n, Waiting(n))'
      BY DEF SpoolCovered
    <2>1. CASE n = m
      BY <1>1, <1>4, <2>1 DEF Type, Waiting, Covers, StillCovers
    <2>2. CASE n # m
      <3>1. spool'[n] = spool[n] /\ Waiting(n)' = Waiting(n)
        BY <1>1, <2>2 DEF Type, Waiting
      <3>2. ~Unused(n) => StillCovers(n, Waiting(n))
        BY <1>2, StillCovered DEF Copies, SpoolCovered
      <3> QED
        BY <1>1, <3>1, <3>2 DEF Copies, SpoolCovered, Unused, Covers, StillCovers
    <2> QED
      BY <2>1, <2>2
  <1> QED
    BY <1>1, <1>2, <1>5, DueKept, TasksKept, ConsoleShrinks DEF Copies, ConsoleWrite

LEMMA ConsoleDeleteCopies == ASSUME Type, Copies, NEW m \in Ids, ConsoleDelete(m) PROVE Copies'
  <1>1. SettledGrows /\ EnvelopeKept
    BY NoHistory, IdleTaskSettles DEF ConsoleDelete, EnvelopeKept
  <1>2. ConsoleCovered'
    BY DEF ConsoleDelete, ConsoleCovered
  <1> QED
    BY <1>1, <1>2, SpoolKept, DueKept, TasksKept DEF ConsoleDelete, Copies, runner

LEMMA ConsoleUnlinkCopies == ASSUME Type, Copies, NEW m \in Ids, ConsoleUnlink(m) PROVE Copies'
  <1>0. /\ ConsoleForgets(m) /\ spool' = [spool EXCEPT ![m] = NoFile]
        /\ deleted' = IF spool[m].file THEN deleted \cup {m} ELSE deleted
    BY DEF ConsoleUnlink
  <1>1. HistoryGrows /\ EnvelopeKept /\ UNCHANGED <<msg, due, task>>
    BY DEF ConsoleUnlink, HistoryGrows, EnvelopeKept, runner
  <1>2. SettledGrows
    BY <1>1, IdleTaskSettles
  <1>3. SpoolCovered'
    <2> SUFFICES ASSUME NEW n \in Ids
                 PROVE  /\ spool'[n].file => ~Unused(n)'
                        /\ ~Unused(n)' => Covers(n, Waiting(n))'
      BY DEF SpoolCovered
    <2>1. CASE spool'[n] = spool[n]
      <3>1. Waiting(n)' = Waiting(n)
        BY <2>1 DEF Waiting
      <3>2. ~Unused(n) => StillCovers(n, Waiting(n))
        BY <1>1, <1>2, StillCovered DEF Copies, SpoolCovered
      <3> QED
        BY <1>1, <2>1, <3>1, <3>2 DEF Copies, SpoolCovered, Unused, Covers, StillCovers
    <2>2. CASE ~spool'[n].file /\ n \in deleted'
      BY <2>2 DEF Covers, Settled
    <2>3. CASE ~spool'[n].file /\ ~spool[n].file
      <3>1. Waiting(n)' = Waiting(n)
        BY <2>3 DEF Waiting
      <3>2. ~Unused(n) => StillCovers(n, Waiting(n))
        BY <1>1, <1>2, StillCovered DEF Copies, SpoolCovered
      <3> QED
        BY <1>1, <2>3, <3>1, <3>2 DEF Unused, Covers, StillCovers
    <2> QED
      BY <1>0, <2>1, <2>2, <2>3 DEF NoFile, Type
  <1>4. ConsoleCovered'
    BY <1>1, <1>2, ConsoleShrinks DEF Copies, ConsoleUnlink
  <1> QED
    BY <1>1, <1>2, <1>3, <1>4, DueKept, TasksKept DEF Copies

LEMMA ConsoleDoneCopies == ASSUME Type, Copies, ConsoleDone PROVE Copies'
  <1>1. SettledGrows /\ EnvelopeKept
    BY NoHistory, IdleTaskSettles DEF ConsoleDone, EnvelopeKept, store
  <1>2. ConsoleCovered'
    BY DEF ConsoleDone, ConsoleCovered, CopyCovers, NoCopies, NoFile
  <1> QED
    BY <1>1, <1>2, SpoolKept, DueKept, TasksKept DEF ConsoleDone, Copies, store, runner

(* The process stops: its snapshot and its tasks are gone, everyone else's *)
(* are as they were.                                                       *)
LEMMA StoppedCopies ==
  ASSUME Type, Copies, NEW r \in Runners, Stopped(r), HistoryGrows,
         UNCHANGED <<msg, spool, console>>,
         \A m \in Ids : \A x \in Pending(r, m) : x \in Rcpts => Settled(m, x)'
  PROVE  Copies'
  <1>1. EnvelopeKept
    BY DEF EnvelopeKept
  <1>2. ASSUME NEW m \in Ids, NEW x \in Rcpts, InFlush(m, x) PROVE Settled(m, x)'
    <2>1. PICK q \in Runners : x \in Pending(q, m)
      BY <1>2 DEF InFlush
    <2>2. CASE q = r
      BY <2>1, <2>2
    <2>3. CASE q # r
      <3>1. task'[q][m] = task[q][m]
        BY <2>3 DEF Stopped, Type
      <3> QED
        BY <2>1, <3>1 DEF Settled, InFlush, Pending
    <2> QED
      BY <2>2, <2>3
  <1>3. SettledGrows
    BY <1>2 DEF SettledGrows, Settled, HistoryGrows
  <1>4. ASSUME NEW q \in Runners, NEW m \in Ids PROVE CopyCovers(m, due[q][m])'
    <2>1. CASE q = r
      BY <2>1 DEF Stopped, CopyCovers, NoCopies, NoFile, Type
    <2>2. CASE q # r
      <3>1. due'[q][m] = due[q][m] /\ CopyCovers(m, due[q][m])
        BY <2>2 DEF Stopped, Copies, DueCovered, Type
      <3> QED
        BY <1>1, <1>3, <3>1, CopyKept
    <2> QED
      BY <2>1, <2>2
  <1>5. ASSUME NEW q \in Runners, NEW m \in Ids, task'[q][m].stage # "none"
        PROVE  TaskCovered(q, m)'
    <2>1. q # r
      BY <1>5 DEF Stopped, NoTask, Type
    <2>2. task'[q][m] = task[q][m] /\ m \in Live(q)
      BY <1>5, <2>1 DEF Stopped, Live, Type
    <2> QED
      BY <1>1, <1>3, <2>2, TaskKept DEF Copies
  <1>6. DueCovered'
    BY <1>4 DEF DueCovered
  <1>7. TasksCovered'
    BY <1>5 DEF TasksCovered, TaskCovered, Live
  <1> QED
    BY <1>1, <1>3, <1>6, <1>7, SpoolKept, ConsoleKept DEF Copies

LEMMA CrashCopies == ASSUME Type, Copies, NEW r \in Runners, Crash(r) PROVE Copies'
  <1>1. \A m \in Ids : \A x \in Pending(r, m) : x \in Rcpts => Settled(m, x)'
    BY DEF Crash, Settled
  <1> QED
    BY <1>1, StoppedCopies DEF Crash, HistoryGrows, store

LEMMA AbortCopies == ASSUME Type, Copies, NEW r \in Runners, Abort(r) PROVE Copies'
  <1>1. \A m \in Ids : Pending(r, m) = {}
    BY DEF Abort, Pending, SyncTail, Live
  <1>2. HistoryGrows
    BY DEF Abort, Receive, HistoryGrows
  <1> QED
    BY <1>1, <1>2, StoppedCopies DEF Abort

-----------------------------------------------------------------------------

(* No step takes a mishap back, so a state without mishaps of some kind is *)
(* reached through such states only.                                       *)
LEMMA MishapsStay ==
  ASSUME Type, [Next]_vars, NEW j \in Mishaps, mishap'[j] = 0
  PROVE  mishap[j] = 0 /\ ~Happens(j)
  <1>2. mishap' = mishap \/ \E k \in Mishaps : Happens(k)
    <2>1. ASSUME NEW r \in Runners, NEW m \in Ids, TaskStep(r, m)
          PROVE  mishap' = mishap \/ \E k \in Mishaps : Happens(k)
      <3>1. CASE AcquirePermit(r, m) \/ Gate(r, m) \/ TaskEnd(r, m)
        BY <3>1 DEF AcquirePermit, Gate, TaskEnd
      <3>2. CASE DeliverLocal(r, m)
        BY <3>2 DEF DeliverLocal, Answered, Mishaps
      <3>3. CASE DeliverRemote(r, m)
        BY <3>3 DEF DeliverRemote, Answered, Mishaps
      <3>4. CASE Persist(r, m) \/ Unlink(r, m) \/ WriteBack(r, m)
        BY <3>4 DEF Persist, Unlink, WriteBack, Mishaps
      <3>5. CASE FlushBounce(r, m) \/ FlushEnd(r, m)
        BY <3>5 DEF FlushBounce, FlushEnd, Mishaps
      <3> QED
        BY <2>1, <3>1, <3>2, <3>3, <3>4, <3>5 DEF TaskStep
    <2>2. ASSUME NEW r \in Runners, RunnerStep(r) \/ Crash(r) \/ Abort(r)
          PROVE  mishap' = mishap \/ \E k \in Mishaps : Happens(k)
      BY <2>1, <2>2 DEF RunnerStep, StartRound, EndRound, Restart, ClaimEntry, Crash, Abort, Mishaps
    <2>3. ASSUME ConsoleStep PROVE mishap' = mishap \/ \E k \in Mishaps : Happens(k)
      BY <2>3 DEF ConsoleStep, ConsoleFlush, ConsoleRetry, ConsoleRead, ConsoleWrite,
                  ConsoleDelete, ConsoleUnlink, ConsoleFails, ConsoleDone, Mishaps
    <2>4. ASSUME NEW m \in Ids, NEW env \in Envelopes, Enqueue(m, env) PROVE mishap' = mishap
      BY <2>4 DEF Enqueue
    <2>5. ASSUME Tick \/ UNCHANGED vars PROVE mishap' = mishap
      BY <2>5 DEF Tick, vars
    <2> QED
      BY <2>2, <2>3, <2>4, <2>5 DEF Next
  <1>3. ASSUME NEW k \in Mishaps, Happens(k) PROVE mishap[j] = 0 /\ k # j
    BY <1>3 DEF Happens, Type
  <1> QED
    BY <1>2, <1>3

(* A recipient is given back only after a DSN that could not be written,   *)
(* the console holds copies to write back only after a flush or a retry,   *)
(* and a bounce is dropped only by a kill.                                 *)
BouncesCounted == \A r \in Runners, m \in Ids : task[r][m].bounceError => mishap["dsn"] # 0

ConsoleCounted ==
    \/ mishap["flush"] # 0 \/ mishap["retry"] # 0 \/ console.verb = "delete"
    \/ \A m \in Ids : ~console.copies[m].file

DropsCounted == dropped # {} => mishap["crash"] # 0

Counted == BouncesCounted /\ ConsoleCounted /\ DropsCounted

LEMMA InitCounted == Init => Counted
  BY DEF Init, Counted, BouncesCounted, ConsoleCounted, DropsCounted, NoTask, NoCopies, NoFile

LEMMA TaskCounted ==
  ASSUME Type, BouncesCounted, mishap["dsn"] # 0 => mishap'["dsn"] # 0,
         NEW r \in Runners, NEW m \in Ids, NEW t, task' = [task EXCEPT ![r][m] = t],
         t.bounceError = task[r][m].bounceError \/ t.bounceError = FALSE \/ Happens("dsn")
  PROVE  BouncesCounted'
  <1>1. Happens("dsn") => mishap'["dsn"] # 0
    BY DEF Happens, Type, Mishaps
  <1>2. ASSUME NEW q \in Runners, NEW n \in Ids, task'[q][n].bounceError PROVE mishap'["dsn"] # 0
    <2>1. CASE q = r /\ n = m
      BY <1>1, <1>2, <2>1 DEF BouncesCounted, Type
    <2>2. CASE ~(q = r /\ n = m)
      BY <1>2, <2>2 DEF BouncesCounted, Type
    <2> QED
      BY <2>1, <2>2
  <1> QED
    BY <1>2 DEF BouncesCounted

LEMMA TaskStepCounted ==
  ASSUME Type, BouncesCounted, mishap["dsn"] # 0 => mishap'["dsn"] # 0,
         NEW r \in Runners, NEW m \in Ids, TaskStep(r, m)
  PROVE  BouncesCounted'
  <1> DEFINE t == task[r][m]
  <1>1. m \in Live(r) /\ t \in Tasks
    BY LiveTask DEF TaskStep, AcquirePermit, DeliverLocal, Gate, DeliverRemote, Persist, Unlink,
       WriteBack, FlushBounce, FlushEnd, TaskEnd
  <1>2. ASSUME NEW stage, task' = [task EXCEPT ![r][m] = AtStage(t, stage)] PROVE BouncesCounted'
    <2>1. AtStage(t, stage).bounceError = t.bounceError
      BY <1>1, AtStageFields
    <2> QED
      BY <1>2, <2>1, TaskCounted
  <1>3. CASE DeliverLocal(r, m)
    <2>1. PICK class \in {"ok", "transient", "permanent", "short"},
               accepted \in SUBSET LocalOf(t), delay \in Delays(Policy, t.attempts + 1) :
            /\ t.stage = "local"
            /\ task' = [task EXCEPT ![r][m] = AfterLocal(t, class, accepted,
                                                       Deadline(roundNow[r] + delay))]
      BY <1>3 DEF DeliverLocal
    <2> DEFINE u == AfterLocal(t, class, accepted, Deadline(roundNow[r] + delay))
    <2>2. u.bounceError = t.bounceError
      BY <1>1, <2>1, AfterLocalHolds
    <2> HIDE DEF u
    <2> QED
      BY <2>1, <2>2, TaskCounted DEF u
  <1>4. CASE DeliverRemote(r, m)
    <2>1. PICK class \in {"ok", "transient", "permanent", "short"},
               accepted \in SUBSET RemoteOf(t), delay \in Delays(Policy, t.attempts + 1) :
            /\ t.stage = "remote"
            /\ task' = [task EXCEPT ![r][m] = AfterRemote(t, class, accepted,
                                                        Deadline(roundNow[r] + delay))]
      BY <1>4 DEF DeliverRemote
    <2> DEFINE u == AfterRemote(t, class, accepted, Deadline(roundNow[r] + delay))
    <2>2. u.bounceError = t.bounceError
      BY <1>1, <2>1, AfterRemoteHolds
    <2> HIDE DEF u
    <2> QED
      BY <2>1, <2>2, TaskCounted DEF u
  <1>5. CASE FlushBounce(r, m)
    <2>1. \/ task' = [task EXCEPT ![r][m] = Flushed(t, {}, FALSE)]
          \/ task' = [task EXCEPT ![r][m] = Flushed(t, NextBounce(t), TRUE)] /\ Happens("dsn")
      BY <1>5 DEF FlushBounce
    <2>2. Flushed(t, {}, FALSE).bounceError = t.bounceError
      BY <1>1 DEF Flushed, Tasks
    <2> QED
      BY <2>1, <2>2, TaskCounted
  <1>6. CASE TaskEnd(r, m)
    BY <1>6, TaskCounted DEF TaskEnd, NoTask
  <1>7. CASE AcquirePermit(r, m) \/ Gate(r, m) \/ Persist(r, m) \/ Unlink(r, m)
             \/ WriteBack(r, m) \/ FlushEnd(r, m)
    <2>1. \E stage : task' = [task EXCEPT ![r][m] = AtStage(t, stage)]
      BY <1>7 DEF AcquirePermit, Gate, Persist, Unlink, WriteBack, FlushEnd
    <2> QED
      BY <1>2, <2>1
  <1> QED
    BY <1>3, <1>4, <1>5, <1>6, <1>7 DEF TaskStep

LEMMA CountedStep == Type /\ Counted /\ [Next]_vars => Counted'
  <1> SUFFICES ASSUME Type, Counted, [Next]_vars PROVE Counted'
    OBVIOUS
  <1>1. \A k \in Mishaps : mishap[k] # 0 => mishap'[k] # 0
    BY MishapsStay
  <1>2. {"dsn", "flush", "retry", "crash"} \subseteq Mishaps
    BY DEF Mishaps
  <1>3. BouncesCounted'
    <2>1. ASSUME UNCHANGED task PROVE BouncesCounted'
      BY <1>1, <1>2, <2>1 DEF Counted, BouncesCounted
    <2>2. ASSUME NEW r \in Runners, NEW m \in Ids, ClaimEntry(r, m) PROVE BouncesCounted'
      <3>1. task' = [task EXCEPT ![r][m] = Spawned(due[r][m])] \/ UNCHANGED task
        BY <2>2 DEF ClaimEntry
      <3>2. Spawned(due[r][m]).bounceError = FALSE
        BY DEF Spawned
      <3> QED
        BY <1>1, <1>2, <2>1, <3>1, <3>2, TaskCounted DEF Counted
    <2>3. ASSUME NEW r \in Runners, Stopped(r) PROVE BouncesCounted'
      <3>1. \A q \in Runners, m \in Ids : task'[q][m] = task[q][m] \/ task'[q][m] = NoTask
        BY <2>3 DEF Stopped, Type
      <3> QED
        BY <1>1, <1>2, <3>1 DEF Counted, BouncesCounted, NoTask
    <2>4. ASSUME NEW r \in Runners, RunnerStep(r) \/ Crash(r) \/ Abort(r) PROVE BouncesCounted'
      <3>1. CASE StartRound(r) \/ EndRound(r) \/ Restart(r)
        BY <2>1, <3>1 DEF StartRound, EndRound, Restart
      <3>2. CASE \E m \in Ids : ClaimEntry(r, m) \/ TaskStep(r, m)
        BY <1>1, <1>2, <2>2, <3>2, TaskStepCounted DEF Counted
      <3>3. CASE Crash(r) \/ Abort(r)
        BY <2>3, <3>3 DEF Crash, Abort
      <3> QED
        BY <2>4, <3>1, <3>2, <3>3 DEF RunnerStep
    <2>5. ASSUME ConsoleStep PROVE UNCHANGED task
      BY <2>5 DEF ConsoleStep, ConsoleFlush, ConsoleRetry, ConsoleRead, ConsoleWrite,
                  ConsoleDelete, ConsoleUnlink, ConsoleFails, ConsoleDone
    <2>6. ASSUME Tick \/ (\E m \in Ids, env \in Envelopes : Enqueue(m, env)) \/ UNCHANGED vars
          PROVE  UNCHANGED task
      BY <2>6 DEF Tick, Enqueue, vars
    <2> QED
      BY <2>1, <2>4, <2>5, <2>6 DEF Next
  <1>4. ConsoleCounted'
    <2>1. ASSUME UNCHANGED console PROVE ConsoleCounted'
      BY <1>1, <1>2, <2>1 DEF Counted, ConsoleCounted
    <2>2. ASSUME NEW m \in Ids, ConsoleForgets(m) PROVE ConsoleCounted'
      BY <1>1, <1>2, <2>2 DEF Counted, ConsoleCounted, ConsoleForgets, NoFile, Type
    <2>3. ASSUME ConsoleFlush \/ \E m \in Ids : ConsoleRetry(m) PROVE ConsoleCounted'
      <3>1. Happens("flush") \/ Happens("retry")
        BY <2>3 DEF ConsoleFlush, ConsoleRetry, ConsoleRead
      <3> QED
        BY <1>2, <3>1 DEF Happens, Type, ConsoleCounted
    <2>4. ASSUME ConsoleFails \/ ConsoleDone \/ \E m \in Ids : ConsoleDelete(m)
          PROVE  ConsoleCounted'
      BY <2>4 DEF ConsoleFails, ConsoleDone, ConsoleDelete, ConsoleCounted, NoCopies, NoFile
    <2>5. ASSUME ConsoleStep PROVE ConsoleCounted'
      BY <2>2, <2>3, <2>4, <2>5 DEF ConsoleStep, ConsoleWrite, ConsoleUnlink
    <2>6. ASSUME NEW r \in Runners, NEW m \in Ids, TaskStep(r, m) PROVE UNCHANGED console
      BY <2>6 DEF TaskStep, AcquirePermit, DeliverLocal, Gate, DeliverRemote, Persist, Unlink,
                  WriteBack, FlushBounce, FlushEnd, TaskEnd
    <2>7. ASSUME NEW r \in Runners, RunnerStep(r) \/ Crash(r) \/ Abort(r) PROVE UNCHANGED console
      BY <2>6, <2>7 DEF RunnerStep, StartRound, EndRound, Restart, ClaimEntry, Crash, Abort
    <2>8. ASSUME Tick \/ (\E m \in Ids, env \in Envelopes : Enqueue(m, env)) \/ UNCHANGED vars
          PROVE  UNCHANGED console
      BY <2>8 DEF Tick, Enqueue, vars
    <2> QED
      BY <2>1, <2>5, <2>7, <2>8 DEF Next
  <1>5. DropsCounted'
    <2>1. ASSUME UNCHANGED dropped PROVE DropsCounted'
      BY <1>1, <1>2, <2>1 DEF Counted, DropsCounted
    <2>2. ASSUME NEW r \in Runners, Crash(r) PROVE DropsCounted'
      BY <1>2, <2>2 DEF Crash, Happens, Type, DropsCounted
    <2>3. ASSUME NEW r \in Runners, NEW m \in Ids, TaskStep(r, m) PROVE UNCHANGED dropped
      BY <2>3 DEF TaskStep, AcquirePermit, DeliverLocal, Gate, DeliverRemote, Persist, Unlink,
                  WriteBack, FlushBounce, FlushEnd, TaskEnd, Receive, history
    <2>4. ASSUME NEW r \in Runners, RunnerStep(r) \/ Abort(r) PROVE UNCHANGED dropped
      BY <2>3, <2>4 DEF RunnerStep, StartRound, EndRound, Restart, ClaimEntry, Abort, Receive, history
    <2>5. ASSUME ConsoleStep PROVE UNCHANGED dropped
      BY <2>5 DEF ConsoleStep, ConsoleFlush, ConsoleRetry, ConsoleRead, ConsoleWrite,
                  ConsoleDelete, ConsoleUnlink, ConsoleFails, ConsoleDone, history
    <2>6. ASSUME Tick \/ (\E m \in Ids, env \in Envelopes : Enqueue(m, env)) \/ UNCHANGED vars
          PROVE  UNCHANGED dropped
      BY <2>6 DEF Tick, Enqueue, vars, history
    <2> QED
      BY <2>1, <2>2, <2>4, <2>5, <2>6 DEF Next
  <1> QED
    BY <1>3, <1>4, <1>5 DEF Counted

LEMMA InitCopies == Init => CopiesCovered
  BY DEF Init, CopiesCovered, SpoolCovered, DueCovered, TasksCovered, ConsoleCovered,
         CopyCovers, Unused, NoMsg, NoCopies, NoFile, NoTask, Live

LEMMA CopiesStep ==
  Type /\ SnapshotOrTask /\ Counted /\ CopiesCovered /\ [Next]_vars => CopiesCovered'
  <1> SUFFICES ASSUME Type, SnapshotOrTask, Counted, CopiesCovered, [Next]_vars,
                      ReturnsUndisturbed'
               PROVE  Copies'
    BY DEF CopiesCovered, Copies
  <1>a. {"dsn", "write", "flush", "retry"} \subseteq Mishaps
    BY DEF Mishaps
  <1>b. \/ mishap["dsn"] = 0
        \/ /\ ~Happens("write") /\ mishap["write"] = 0 /\ mishap["flush"] = 0
           /\ mishap["retry"] = 0 /\ OneRunner
    BY <1>a, MishapsStay DEF ReturnsUndisturbed, Never
  <1>c. ReturnsUndisturbed
    BY <1>b DEF ReturnsUndisturbed, Never
  <1>1. Copies
    BY <1>c DEF CopiesCovered, Copies
  <1>d. ASSUME NEW r \in Runners, NEW m \in Ids, FlushEnd(r, m) PROVE Copies'
    <2>1. ASSUME task[r][m].bounceError PROVE Alone(r, m) /\ ~Happens("write")
      <3>1. mishap["dsn"] # 0
        BY <2>1 DEF Counted, BouncesCounted
      <3>2. m \in Live(r)
        BY <1>d DEF FlushEnd
      <3> QED
        BY <1>b, <3>1, <3>2 DEF Alone, Counted, ConsoleCounted, SnapshotOrTask, OneRunner
    <2> QED
      BY <1>1, <1>d, <2>1, FlushEndCopies
  <1>2. ASSUME NEW r \in Runners, NEW m \in Ids, TaskStep(r, m) PROVE Copies'
    BY <1>1, <1>2, <1>d, AcquireCopies, DeliverLocalCopies, GateCopies, DeliverRemoteCopies,
       PersistCopies, UnlinkCopies, WriteBackCopies, FlushBounceCopies,
       TaskEndCopies DEF TaskStep
  <1>3. ASSUME NEW r \in Runners, EndRound(r) \/ Restart(r) PROVE Copies'
    BY <1>1, <1>3, IdleCopies DEF EndRound, Restart, store
  <1>4. ASSUME NEW r \in Runners, RunnerStep(r) PROVE Copies'
    BY <1>1, <1>2, <1>3, <1>4, StartRoundCopies, ClaimEntryCopies DEF RunnerStep
  <1>5. ASSUME NEW r \in Runners, Crash(r) \/ Abort(r) PROVE Copies'
    BY <1>1, <1>5, CrashCopies, AbortCopies
  <1>6. ASSUME ConsoleStep PROVE Copies'
    BY <1>1, <1>6, ConsoleFlushCopies, ConsoleRetryCopies, ConsoleWriteCopies,
       ConsoleDeleteCopies, ConsoleUnlinkCopies, ConsoleFailsCopies, ConsoleDoneCopies
       DEF ConsoleStep
  <1>7. ASSUME NEW m \in Ids, NEW env \in Envelopes, Enqueue(m, env) PROVE Copies'
    BY <1>1, <1>7, EnqueueCopies
  <1>8. ASSUME Tick \/ UNCHANGED vars PROVE Copies'
    BY <1>1, <1>8, IdleCopies DEF Tick, vars, store, runner
  <1> QED
    BY <1>4, <1>5, <1>6, <1>7, <1>8 DEF Next

(* Every copy of a queue entry, in the spool, in a round's snapshot, in a  *)
(* task or in a console request, names every recipient that has met no     *)
(* fate yet (run_once, process and queue_action all write whole copies).   *)
THEOREM CopiesAlwaysCover == Spec => [](CopiesCovered /\ Counted)
  <1>1. Type /\ SnapshotOrTask /\ [Next]_vars => SnapshotOrTask'
    BY SnapshotStep
  <1>2. Type /\ Counted /\ [Next]_vars => Counted'
    BY CountedStep
  <1>3. Type /\ SnapshotOrTask /\ Counted /\ CopiesCovered /\ [Next]_vars => CopiesCovered'
    BY CopiesStep
  <1> QED
    BY <1>1, <1>2, <1>3, InitSnapshotOrTask, InitCounted, InitCopies, TypeCorrect, PTL DEF Spec

(* A covered spool loses nobody outside the bounce window. *)
LEMMA CoveredSpool == CopiesCovered => LostOnlyInBounceWindow
  BY DEF CopiesCovered, SpoolCovered, Covers, Settled, Accounted, LostOnlyInBounceWindow

(* Whatever the rounds, any number of runners, the console, crashes and    *)
(* failing writes do to one another, a recipient can vanish only while its *)
(* DSN is pending in the memory of a task that dies after process() has    *)
(* persisted the removal, or when a DSN could not be written and its       *)
(* recipients' return to the entry is disturbed.                           *)
THEOREM NothingVanishes == Spec => []LostOnlyInBounceWindow
  BY CopiesAlwaysCover, CoveredSpool, PTL

LEMMA UnkilledSpool == LostOnlyInBounceWindow /\ DropsCounted => AllAccounted
  BY DEF LostOnlyInBounceWindow, DropsCounted, AllAccounted, Never

(* Without a kill the bounce window is never left open: every recipient of *)
(* every message stays queued until it is delivered, reported, discarded   *)
(* by the rule against bouncing bounces or deleted by the operator, and    *)
(* one whose DSN could not be written goes back to the queue (process,     *)
(* flush_bounces, queue_action).                                           *)
THEOREM EveryRecipientAccounted == Spec => []AllAccounted
  <1>1. CopiesCovered /\ Counted => AllAccounted
    BY CoveredSpool, UnkilledSpool DEF Counted
  <1> QED
    BY <1>1, CopiesAlwaysCover, PTL

-----------------------------------------------------------------------------
(* Dealt with once. *)

(* The inductive strengthening of DealtWithOnce.  Its conditions ...       *)
Smooth     == OneRunner /\ Never(Interrupted \cup Misled)
Reportable == /\ OneRunner /\ Never({"flush", "retry"})
              /\ Never({"receipt"}) \/ Never({"write"})

(* ... the shape of a task: nobody is in two of its sets, and nobody who   *)
(* is still to be bounced is named by the file, once the bounces start ... *)
Apart(t) ==
    /\ t.rcpts \cap t.pendLocal = {} /\ t.rcpts \cap t.pendRemote = {}
    /\ t.pendLocal \cap t.pendRemote = {}
    /\ ~t.mutated => t.pendLocal = {} /\ t.pendRemote = {}

Pairs == delivered \cup reported \cup discarded

KnownIds == \A m \in Ids :
    /\ spool[m].file \/ (\E r \in Runners : due[r][m].file \/ m \in Live(r)) => ~Unused(m)
    /\ Unused(m) => \A x \in Rcpts : <<m, x>> \notin Pairs

TasksApart == \A r \in Runners : \A m \in Live(r) :
    /\ Apart(task[r][m])
    /\ task[r][m].stage = "writeback" => mishap["receipt"] # 0
    /\ task[r][m].stage = "flush" /\ spool[m].file =>
          spool[m].rcpts \cap (task[r][m].pendLocal \cup task[r][m].pendRemote) = {}

(* ... and no copy that will still be acted on names a recipient of which  *)
(* a fate of the set D is known.  With loose the file is excepted while    *)
(* the outcome of a delivery has not reached it.                           *)
Untouched(D, m, S) == \A x \in S : <<m, x>> \notin D

Dirty(m) == \E r \in Runners :
    m \in Live(r) /\ task[r][m].mutated /\ task[r][m].stage \notin {"flush", "end"}

SpoolFresh(D, loose) == \A m \in Ids :
    spool[m].file /\ (loose => ~Dirty(m)) => Untouched(D, m, spool[m].rcpts)

DueFresh(D) == \A r \in Runners, m \in Ids :
    due[r][m].file => Untouched(D, m, due[r][m].rcpts)

TasksFresh(D) == \A r \in Runners : \A m \in Live(r) :
    task[r][m].stage # "end" => Untouched(D, m, Held(task[r][m]))

Fresh(D, loose) == SpoolFresh(D, loose) /\ DueFresh(D) /\ TasksFresh(D)

SettledOnce ==
    /\ Reportable => KnownIds /\ TasksApart /\ Fresh(reported, FALSE) /\ rereported = {}
    /\ Smooth => /\ Fresh(Pairs, TRUE) /\ again = {}
                 /\ delivered \cap (reported \cup discarded) = {}

(* Freshness of the state a step leads to, for a set E of fates known then. *)
SpoolFreshAfter(E, loose) == \A n \in Ids :
    spool'[n].file /\ (loose => ~Dirty(n)') => Untouched(E, n, spool'[n].rcpts)
DueFreshAfter(E) == \A q \in Runners, n \in Ids :
    due'[q][n].file => Untouched(E, n, due'[q][n].rcpts)
TasksFreshAfter(E) == \A q \in Runners, n \in Ids :
    task'[q][n].stage \notin {"none", "end"} => Untouched(E, n, Held(task'[q][n]))
FreshAfter(E, loose) == SpoolFreshAfter(E, loose) /\ DueFreshAfter(E) /\ TasksFreshAfter(E)

(* Only new messages appear beside m. *)
OthersKept(m) == \A n \in Ids :
    n # m => \/ spool'[n] = spool[n] /\ msg'[n] = msg[n]
             \/ Unused(n) /\ ~Unused(n)'

(* The task of r for m goes on as u. *)
Moves(r, m, u) ==
    /\ task' = [task EXCEPT ![r][m] = u]
    /\ UNCHANGED due /\ msg'[m] = msg[m] /\ OthersKept(m)
    /\ spool' \in [Ids -> Entries]
    /\ mishap["receipt"] # 0 => mishap'["receipt"] # 0

Shaped(u, m) == u.stage # "none" =>
    /\ Apart(u)
    /\ u.stage = "writeback" => mishap'["receipt"] # 0
    /\ u.stage = "flush" /\ spool'[m].file =>
          spool'[m].rcpts \cap (u.pendLocal \cup u.pendRemote) = {}

(* A task's step keeps the shape of the whole if it keeps that of the task. *)
LEMMA MoveKnown ==
  ASSUME Type, KnownIds, NEW r \in Runners, NEW m \in Live(r), NEW u, Moves(r, m, u),
         \A n \in Ids, x \in Rcpts : n # m /\ <<n, x>> \in Pairs' => <<n, x>> \in Pairs
  PROVE  KnownIds'
  <1>1. m \in Ids /\ ~Unused(m) /\ ~Unused(m)'
    BY LiveTask DEF KnownIds, Moves, Unused
  <1>2. \A q \in Runners, n \in Ids : n # m => task'[q][n] = task[q][n]
    BY <1>1 DEF Moves, Type
  <1>3. ASSUME NEW n \in Ids, n # m, ~Unused(n)'
        PROVE  Unused(n)' => \A x \in Rcpts : <<n, x>> \notin Pairs'
    BY <1>3
  <1>4. ASSUME NEW n \in Ids, n # m, Unused(n)'
        PROVE  /\ ~spool'[n].file /\ \A q \in Runners : ~due'[q][n].file /\ n \notin Live(q)'
               /\ \A x \in Rcpts : <<n, x>> \notin Pairs'
    <2>1. spool'[n] = spool[n] /\ msg'[n] = msg[n]
      BY <1>4 DEF Moves, OthersKept
    <2>2. Unused(n)
      BY <1>4, <2>1 DEF Unused
    <2>3. ~spool[n].file /\ \A q \in Runners : ~due[q][n].file /\ n \notin Live(q)
      BY <2>2 DEF KnownIds
    <2>4. \A q \in Runners : n \notin Live(q)'
      BY <1>2, <1>4, <2>3 DEF Live
    <2> QED
      BY <1>4, <2>1, <2>2, <2>3, <2>4 DEF KnownIds, Moves
  <1> QED
    BY <1>1, <1>3, <1>4 DEF KnownIds

LEMMA MoveApart ==
  ASSUME Type, OneRunner, KnownIds, TasksApart,
         NEW r \in Runners, NEW m \in Live(r), NEW u, Moves(r, m, u), Shaped(u, m)
  PROVE  TasksApart'
  <1> SUFFICES ASSUME NEW q \in Runners, NEW n \in Ids, task'[q][n].stage # "none"
               PROVE  /\ Apart(task'[q][n])
                      /\ task'[q][n].stage = "writeback" => mishap'["receipt"] # 0
                      /\ task'[q][n].stage = "flush" /\ spool'[n].file =>
                           spool'[n].rcpts \cap (task'[q][n].pendLocal \cup task'[q][n].pendRemote) = {}
    BY DEF TasksApart, Live
  <1>1. m \in Ids /\ q = r
    BY LiveTask DEF OneRunner
  <1>2. CASE n = m
    <2>1. task'[q][n] = u
      BY <1>1, <1>2 DEF Moves, Type
    <2> QED
      BY <1>2, <2>1 DEF Shaped
  <1>3. CASE n # m
    <2>1. task'[q][n] = task[q][n]
      BY <1>1, <1>3 DEF Moves, Type
    <2>2. n \in Live(q)
      BY <2>1 DEF Live
    <2>3. spool'[n] = spool[n]
      BY <1>3, <2>2 DEF Moves, OthersKept, KnownIds
    <2> QED
      BY <2>1, <2>2, <2>3 DEF TasksApart, Moves
  <1> QED
    BY <1>2, <1>3

LEMMA MoveFresh ==
  ASSUME Type, OneRunner, SnapshotOrTask, KnownIds,
         NEW r \in Runners, NEW m \in Live(r), NEW u, Moves(r, m, u),
         NEW D, NEW E, NEW loose \in BOOLEAN, D \subseteq Pairs, Fresh(D, loose),
         \A n \in Ids, x \in Rcpts : n # m /\ <<n, x>> \in E => <<n, x>> \in D,
         u.stage \notin {"none", "end"} => Untouched(E, m, Held(u)),
         spool'[m].file /\ (loose => u.stage \in {"none", "flush", "end"} \/ ~u.mutated)
           => Untouched(E, m, spool'[m].rcpts)
  PROVE  FreshAfter(E, loose)
  <1>1. m \in Ids /\ ~Unused(m) /\ \A q \in Runners : q = r
    BY LiveTask DEF OneRunner, KnownIds
  <1>2. task'[r][m] = u /\ \A n \in Ids : n # m => task'[r][n] = task[r][n]
    BY <1>1 DEF Moves, Type
  <1>3. ASSUME NEW n \in Ids, n # m, NEW S \in SUBSET Rcpts, Untouched(D, n, S)
        PROVE  Untouched(E, n, S)
    BY <1>3 DEF Untouched
  <1>4. DueFreshAfter(E)
    <2> SUFFICES ASSUME NEW n \in Ids, due[r][n].file PROVE Untouched(E, n, due[r][n].rcpts)
      BY <1>1 DEF DueFreshAfter, Moves
    <2>1. n # m
      BY DEF SnapshotOrTask
    <2>2. due[r][n].rcpts \in SUBSET Rcpts
      BY DEF Type, Entries
    <2> QED
      BY <1>3, <2>1, <2>2 DEF Fresh, DueFresh
  <1>5. TasksFreshAfter(E)
    <2> SUFFICES ASSUME NEW n \in Ids, n # m, task[r][n].stage \notin {"none", "end"}
                 PROVE  Untouched(E, n, Held(task[r][n]))
      BY <1>1, <1>2 DEF TasksFreshAfter
    <2>1. n \in Live(r) /\ task[r][n] \in Tasks
      BY DEF Live, Type
    <2>2. Held(task[r][n]) \in SUBSET Rcpts
      BY <2>1 DEF Held, Tasks
    <2> QED
      BY <1>3, <2>1, <2>2 DEF Fresh, TasksFresh
  <1>6. SpoolFreshAfter(E, loose)
    <2> SUFFICES ASSUME NEW n \in Ids, spool'[n].file, loose => ~Dirty(n)'
                 PROVE  Untouched(E, n, spool'[n].rcpts)
      BY DEF SpoolFreshAfter
    <2>0. spool'[n].rcpts \in SUBSET Rcpts
      BY DEF Moves, Entries
    <2>1. CASE n = m
      <3>1. loose => u.stage \in {"none", "flush", "end"} \/ ~u.mutated
        BY <1>1, <1>2, <2>1 DEF Dirty, Live
      <3> QED
        BY <2>1, <3>1
    <2>2. CASE n # m /\ spool'[n] = spool[n]
      <3>1. loose => ~Dirty(n)
        BY <1>1, <1>2, <2>2 DEF Dirty, Live
      <3> QED
        BY <1>3, <2>0, <2>2, <3>1 DEF Fresh, SpoolFresh
    <2>3. CASE n # m /\ Unused(n)
      <3>1. \A x \in Rcpts : <<n, x>> \notin Pairs
        BY <2>3 DEF KnownIds
      <3>2. Untouched(D, n, spool'[n].rcpts)
        BY <2>0, <3>1 DEF Untouched
      <3> QED
        BY <1>3, <2>0, <2>3, <3>2
    <2> QED
      BY <2>1, <2>2, <2>3 DEF Moves, OthersKept
  <1> QED
    BY <1>4, <1>5, <1>6 DEF FreshAfter

(* What apply_failure and a receipt do to a task's sets. *)
LEMMA FailedApart ==
  ASSUME NEW t \in Tasks, Apart(t), NEW group \in SUBSET t.rcpts, NEW class,
         NEW accepted \in SUBSET group, NEW at, NEW stage
  PROVE  LET u == Failed(t, group, class, accepted, at, stage) IN
         /\ Apart(u) /\ Held(u) \subseteq Held(t) /\ u.mutated /\ u.stage = stage
         /\ Held(u) \cap accepted = {}
  <1> DEFINE u == Failed(t, group, class, accepted, at, stage)
             failed == group \ accepted
  <1>1. PICK bounced \in {{}, failed} :
          /\ u.rcpts = t.rcpts \ (accepted \cup bounced)
          /\ u.pendLocal \in {t.pendLocal, t.pendLocal \cup bounced}
          /\ u.pendRemote \in {t.pendRemote, t.pendRemote \cup bounced}
          /\ u.pendLocal = t.pendLocal \/ u.pendRemote = t.pendRemote
          /\ u.mutated = TRUE /\ u.stage = stage
    BY DEF Failed
  <1> HIDE DEF u
  <1> QED
    BY <1>1 DEF Apart, Held, u, Tasks

LEMMA DoneApart ==
  ASSUME NEW t \in Tasks, Apart(t), NEW group \in SUBSET t.rcpts, NEW stage
  PROVE  LET u == Done(t, group, stage) IN
         /\ Apart(u) /\ Held(u) \subseteq Held(t) /\ u.mutated /\ u.stage = stage
         /\ Held(u) \cap group = {}
  BY DEF Done, Apart, Held, Tasks

LEMMA AtStageApart ==
  ASSUME NEW t \in Tasks, Apart(t), NEW stage
  PROVE  LET u == AtStage(t, stage) IN
         /\ Apart(u) /\ Held(u) = Held(t) /\ u.mutated = t.mutated /\ u.stage = stage
         /\ u.rcpts = t.rcpts /\ u.pendLocal = t.pendLocal /\ u.pendRemote = t.pendRemote
  BY DEF AtStage, Apart, Held, Tasks

(* What an answer makes of a task. *)
Answer(t, u, class, reached) ==
    /\ u \in Tasks /\ Apart(u) /\ Held(u) \subseteq Held(t)
    /\ u.stage \in {"gate", "persist", "writeback", "end"}
    /\ class # "short" => u.mutated /\ u.stage \in {"gate", "persist"} /\ Held(u) \cap reached = {}

LEMMA AfterLocalApart ==
  ASSUME NEW t \in Tasks, Apart(t), NEW class, NEW at \in Nat, NEW accepted \in SUBSET LocalOf(t)
  PROVE  Answer(t, AfterLocal(t, class, accepted, at), class, Reached(class, LocalOf(t), accepted))
  <1>0. LocalOf(t) \in SUBSET t.rcpts /\ AfterLocal(t, class, accepted, at) \in Tasks
    BY AfterTyped DEF LocalOf
  <1>1. CASE class = "short"
    BY <1>0, <1>1, AtStageApart DEF AfterLocal, Answer
  <1>2. CASE class = "ok"
    BY <1>0, <1>2, DoneApart DEF AfterLocal, Answer, Reached
  <1>3. CASE class \notin {"short", "ok"}
    <2> DEFINE u == Failed(t, LocalOf(t), class, accepted, at, "gate")
    <2>1. /\ Apart(u) /\ Held(u) \subseteq Held(t) /\ u.mutated /\ u.stage = "gate"
          /\ Held(u) \cap accepted = {}
      BY <1>0, FailedApart
    <2>2. AfterLocal(t, class, accepted, at) = u
      BY <1>3 DEF AfterLocal
    <2> HIDE DEF u
    <2> QED
      BY <1>0, <1>3, <2>1, <2>2 DEF Answer, Reached
  <1> QED
    BY <1>1, <1>2, <1>3

LEMMA AfterRemoteApart ==
  ASSUME NEW t \in Tasks, Apart(t), NEW class, NEW at \in Nat, NEW accepted \in SUBSET RemoteOf(t)
  PROVE  Answer(t, AfterRemote(t, class, accepted, at), class, Reached(class, RemoteOf(t), accepted))
  <1>0. RemoteOf(t) \in SUBSET t.rcpts /\ AfterRemote(t, class, accepted, at) \in Tasks
    BY AfterTyped DEF RemoteOf
  <1>1. CASE class = "short"
    BY <1>0, <1>1, AtStageApart DEF AfterRemote, Answer
  <1>2. CASE class = "ok"
    BY <1>0, <1>2, DoneApart DEF AfterRemote, Answer, Reached
  <1>3. CASE class \notin {"short", "ok"}
    <2> DEFINE u == Failed(t, RemoteOf(t), class, accepted, at, "persist")
    <2>1. /\ Apart(u) /\ Held(u) \subseteq Held(t) /\ u.mutated /\ u.stage = "persist"
          /\ Held(u) \cap accepted = {}
      BY <1>0, FailedApart
    <2>2. AfterRemote(t, class, accepted, at) = u
      BY <1>3 DEF AfterRemote
    <2> HIDE DEF u
    <2> QED
      BY <1>0, <1>3, <2>1, <2>2 DEF Answer, Reached
  <1> QED
    BY <1>1, <1>2, <1>3

(* Without a lost reply the answer tells exactly who was reached, and      *)
(* without a short receipt it is none.                                     *)
LEMMA AnswerExact ==
  ASSUME NEW group, NEW class, NEW accepted, NEW reached,
         Answered(group, class, accepted, reached)
  PROVE  /\ ~Happens("reply") /\ ~Happens("receipt") =>
               class # "short" /\ reached = Reached(class, group, accepted)
         /\ class = "short" => Happens("receipt")
  BY DEF Answered, Answers, Reached

Monotone == mishap["receipt"] # 0 => mishap'["receipt"] # 0

LEMMA FreshPrimed ==
  /\ FreshAfter(reported', FALSE) => Fresh(reported, FALSE)'
  /\ FreshAfter(Pairs', TRUE) => Fresh(Pairs, TRUE)'
  BY DEF FreshAfter, SpoolFreshAfter, DueFreshAfter, TasksFreshAfter,
         Fresh, SpoolFresh, DueFresh, TasksFresh, Live

(* A transport answers. *)
LEMMA DeliverOnce ==
  ASSUME Type, OneRunner, SnapshotOrTask, KnownIds, TasksApart, Monotone,
         NEW r \in Runners, NEW m \in Live(r), task[r][m].stage \in {"local", "remote"},
         NEW u, NEW class, NEW named, NEW reached \in SUBSET task[r][m].rcpts,
         Answer(task[r][m], u, class, named), task' = [task EXCEPT ![r][m] = u],
         Receive({m} \X reached), class = "short" => Happens("receipt"),
         UNCHANGED <<msg, spool, due>>
  PROVE  /\ KnownIds' /\ TasksApart'
         /\ Fresh(reported, FALSE) => Fresh(reported, FALSE)'
         /\ Fresh(Pairs, TRUE) /\ class # "short" /\ named = reached =>
              /\ Fresh(Pairs, TRUE)' /\ again' = again
              /\ delivered \cap (reported \cup discarded) = {} =>
                   delivered' \cap (reported' \cup discarded') = {}
  <1> DEFINE t == task[r][m]
  <1>1. m \in Ids /\ t \in Tasks /\ spool \in [Ids -> Entries]
    BY LiveTask DEF Type
  <1>2. Moves(r, m, u)
    BY <1>1 DEF Moves, OthersKept, Monotone
  <1>3. /\ reported' = reported /\ discarded' = discarded
        /\ delivered' = delivered \cup ({m} \X reached)
        /\ again' = again \cup (delivered \cap ({m} \X reached))
    BY DEF Receive
  <1>4. Pairs' = Pairs \cup ({m} \X reached)
    BY <1>3 DEF Pairs
  <1>5. class = "short" => mishap'["receipt"] # 0
    BY DEF Happens, Type, Mishaps
  <1>6. Shaped(u, m)
    BY <1>5 DEF Shaped, Answer
  <1>7. KnownIds' /\ TasksApart'
    BY <1>2, <1>4, <1>6, MoveKnown, MoveApart
  <1>8. ASSUME NEW D, NEW loose \in BOOLEAN, Fresh(D, loose) PROVE Untouched(D, m, Held(t))
    BY <1>8 DEF Fresh, TasksFresh
  <1>9. ASSUME Fresh(reported, FALSE) PROVE Fresh(reported, FALSE)'
    <2>1. Untouched(reported, m, Held(u))
      BY <1>8, <1>9 DEF Untouched, Answer
    <2>2. spool[m].file => Untouched(reported, m, spool[m].rcpts)
      BY <1>1, <1>9 DEF Fresh, SpoolFresh
    <2>3. FreshAfter(reported, FALSE)
      BY <1>1, <1>2, <1>9, <2>1, <2>2, MoveFresh DEF Pairs
    <2> QED
      BY <1>3, <2>3, FreshPrimed
  <1>10. ASSUME Fresh(Pairs, TRUE), class # "short", named = reached
         PROVE  Fresh(Pairs, TRUE)' /\ {m} \X reached \cap Pairs = {}
    <2>1. Untouched(Pairs, m, Held(t)) /\ reached \subseteq Held(t)
      BY <1>8, <1>10 DEF Held
    <2>2. Untouched(Pairs', m, Held(u))
      BY <1>4, <1>10, <2>1 DEF Untouched, Answer
    <2>3. u.stage \notin {"none", "flush", "end"} /\ u.mutated
      BY <1>10 DEF Answer
    <2>4. \A n \in Ids, x \in Rcpts : n # m /\ <<n, x>> \in Pairs' => <<n, x>> \in Pairs
      BY <1>4
    <2>5. FreshAfter(Pairs', TRUE)
      BY <1>2, <1>10, <2>2, <2>3, <2>4, MoveFresh
    <2>6. {m} \X reached \cap Pairs = {}
      BY <2>1 DEF Untouched
    <2> QED
      BY <2>5, <2>6, FreshPrimed
  <1>11. ASSUME {m} \X reached \cap Pairs = {}
         PROVE  /\ again' = again
                /\ delivered \cap (reported \cup discarded) = {} =>
                     delivered' \cap (reported' \cup discarded') = {}
    BY <1>3, <1>11 DEF Pairs
  <1> QED
    BY <1>7, <1>9, <1>10, <1>11

(* A task moves on, or writes what it holds, and nobody meets a fate. *)
LEMMA MoveOnOnce ==
  ASSUME Type, OneRunner, SnapshotOrTask, KnownIds, TasksApart, Monotone,
         NEW r \in Runners, NEW m \in Live(r), task[r][m].stage # "end",
         NEW stage \in Stages \ {"none", "writeback"},
         task' = [task EXCEPT ![r][m] = AtStage(task[r][m], stage)],
         NEW e \in Entries, spool' = [spool EXCEPT ![m] = e],
         e = spool[m] \/ ~e.file \/ e.rcpts = task[r][m].rcpts,
         stage = "flush" => ~task[r][m].mutated \/ ~e.file \/ e.rcpts = task[r][m].rcpts,
         UNCHANGED <<msg, due, history>>
  PROVE  /\ KnownIds' /\ TasksApart'
         /\ Fresh(reported, FALSE) => Fresh(reported, FALSE)'
         /\ \/ stage \notin {"flush", "end"} \/ ~task[r][m].mutated
            \/ task[r][m].stage = "flush" \/ ~e.file \/ e.rcpts = task[r][m].rcpts
            => (Fresh(Pairs, TRUE) => Fresh(Pairs, TRUE)')
  <1> DEFINE t == task[r][m]
             u == AtStage(t, stage)
  <1>1. m \in Ids /\ t \in Tasks /\ spool' \in [Ids -> Entries] /\ spool'[m] = e
    BY LiveTask DEF Type
  <1>2. Apart(t)
    BY DEF TasksApart
  <1>3. /\ Apart(u) /\ Held(u) = Held(t) /\ u.mutated = t.mutated /\ u.stage = stage
        /\ u.rcpts = t.rcpts /\ u.pendLocal = t.pendLocal /\ u.pendRemote = t.pendRemote
    BY <1>1, <1>2, AtStageApart
  <1>4. Moves(r, m, u)
    BY <1>1 DEF Moves, OthersKept, Monotone, Type
  <1>5. reported' = reported /\ Pairs' = Pairs
    BY DEF history, Pairs
  <1> HIDE DEF u
  <1>6. stage = "flush" /\ e.file => e.rcpts \cap (u.pendLocal \cup u.pendRemote) = {}
    BY <1>2, <1>3 DEF Apart
  <1>7. Shaped(u, m)
    BY <1>1, <1>3, <1>6 DEF Shaped
  <1>8. KnownIds' /\ TasksApart'
    BY <1>4, <1>5, <1>7, MoveKnown, MoveApart
  <1>9. ASSUME NEW D, D \subseteq Pairs, NEW loose \in BOOLEAN, Fresh(D, loose),
               loose => \/ stage \notin {"flush", "end"} \/ ~t.mutated
                        \/ t.stage = "flush" \/ ~e.file \/ e.rcpts = t.rcpts
        PROVE  FreshAfter(D, loose)
    <2>1. Untouched(D, m, Held(t)) /\ t.rcpts \subseteq Held(t)
      BY <1>9 DEF Fresh, TasksFresh, Held
    <2>2. ASSUME e.file, e.rcpts = t.rcpts PROVE Untouched(D, m, e.rcpts)
      BY <2>1, <2>2 DEF Untouched
    <2>3. ASSUME e = spool[m], e.file, loose => ~Dirty(m) PROVE Untouched(D, m, e.rcpts)
      BY <1>1, <1>9, <2>3 DEF Fresh, SpoolFresh
    <2>4. ASSUME loose, stage \in {"none", "flush", "end"} \/ ~u.mutated
          PROVE  ~Dirty(m) \/ ~e.file \/ e.rcpts = t.rcpts
      <3>1. ~t.mutated \/ t.stage = "flush" \/ ~e.file \/ e.rcpts = t.rcpts
        BY <1>3, <1>9, <2>4
      <3> QED
        BY <3>1 DEF Dirty, OneRunner
    <2>5. e.file /\ (loose => u.stage \in {"none", "flush", "end"} \/ ~u.mutated)
            => Untouched(D, m, e.rcpts)
      BY <1>3, <2>2, <2>3, <2>4
    <2>6. u.stage \notin {"none", "end"} => Untouched(D, m, Held(u))
      BY <1>3, <2>1
    <2> QED
      BY <1>1, <1>4, <1>9, <2>5, <2>6, MoveFresh
  <1>10. Fresh(reported, FALSE) => Fresh(reported, FALSE)'
    BY <1>5, <1>9, FreshPrimed DEF Pairs
  <1> QED
    BY <1>5, <1>8, <1>9, <1>10, FreshPrimed

LEMMA FlushedApart ==
  ASSUME NEW t \in Tasks, Apart(t), NEW back, NEW e \in BOOLEAN, back \in {{}, NextBounce(t)}
  PROVE  LET u == Flushed(t, back, e) IN
         /\ Apart(u) /\ Held(u) \subseteq Held(t) /\ u.stage = "flush"
         /\ u.pendLocal \cup u.pendRemote \subseteq t.pendLocal \cup t.pendRemote
         /\ back = {} => Held(u) \cap NextBounce(t) = {}
  <1> DEFINE u == Flushed(t, back, e)
  <1>1. /\ u.rcpts = t.rcpts \cup back /\ u.stage = "flush" /\ u.mutated = t.mutated
        /\ u.pendLocal = {} /\ u.pendRemote = IF t.pendLocal # {} THEN t.pendRemote ELSE {}
    BY DEF Flushed
  <1> HIDE DEF u
  <1>2. NextBounce(t) = IF t.pendLocal # {} THEN t.pendLocal ELSE t.pendRemote
    BY DEF NextBounce
  <1>3. CASE back = {}
    BY <1>1, <1>2, <1>3 DEF Apart, Held, Tasks, u
  <1>4. CASE back = NextBounce(t) /\ back # {}
    BY <1>1, <1>2, <1>4 DEF Apart, Held, Tasks, u
  <1> QED
    BY <1>3, <1>4

(* A pending group leaves the flush: gone are those who meet their fate. *)
Flushes(r, m, u, gone) ==
    /\ Moves(r, m, u) /\ spool'[m] = spool[m] /\ task[r][m].stage = "flush"
    /\ Apart(u) /\ u.stage = "flush" /\ Held(u) \subseteq Held(task[r][m])
    /\ u.pendLocal \cup u.pendRemote \subseteq task[r][m].pendLocal \cup task[r][m].pendRemote
    /\ gone \subseteq task[r][m].pendLocal \cup task[r][m].pendRemote
    /\ Held(u) \cap gone = {} /\ Pairs' \subseteq Pairs \cup ({m} \X gone)

LEMMA FlushShape ==
  ASSUME Type, OneRunner, KnownIds, TasksApart,
         NEW r \in Runners, NEW m \in Live(r), NEW u, NEW gone, Flushes(r, m, u, gone)
  PROVE  KnownIds' /\ TasksApart'
  <1> DEFINE t == task[r][m]
  <1>1. spool[m].file => spool[m].rcpts \cap (t.pendLocal \cup t.pendRemote) = {}
    BY DEF TasksApart, Flushes
  <1>2. Shaped(u, m)
    BY <1>1 DEF Shaped, Flushes
  <1>3. \A n \in Ids, x \in Rcpts : n # m /\ <<n, x>> \in Pairs' => <<n, x>> \in Pairs
    BY DEF Flushes
  <1> QED
    BY <1>2, <1>3, MoveKnown, MoveApart DEF Flushes

LEMMA FlushFresh ==
  ASSUME Type, OneRunner, SnapshotOrTask, KnownIds, TasksApart,
         NEW r \in Runners, NEW m \in Live(r), NEW u, NEW gone, Flushes(r, m, u, gone),
         NEW D, NEW E, NEW loose \in BOOLEAN, D \subseteq Pairs,
         E \subseteq D \cup ({m} \X gone), Fresh(D, loose)
  PROVE  FreshAfter(E, loose) /\ ({m} \X gone) \cap D = {}
  <1> DEFINE t == task[r][m]
  <1>1. m \in Ids /\ t \in Tasks /\ t.stage = "flush" /\ spool'[m] = spool[m] /\ Moves(r, m, u)
    BY LiveTask DEF Flushes
  <1>2. spool[m].file => spool[m].rcpts \cap (t.pendLocal \cup t.pendRemote) = {}
    BY <1>1 DEF TasksApart
  <1>3. Untouched(D, m, Held(t)) /\ gone \subseteq Held(t)
    BY <1>1 DEF Fresh, TasksFresh, Held, Flushes
  <1>4. Untouched(E, m, Held(u))
    BY <1>3 DEF Untouched, Flushes
  <1>5. ~Dirty(m)
    BY <1>1 DEF Dirty, OneRunner
  <1>6. spool[m].file => Untouched(D, m, spool[m].rcpts)
    BY <1>1, <1>5 DEF Fresh, SpoolFresh
  <1>7. spool[m].file => Untouched(E, m, spool[m].rcpts)
    BY <1>2, <1>6 DEF Untouched, Flushes
  <1>8. \A n \in Ids, x \in Rcpts : n # m /\ <<n, x>> \in E => <<n, x>> \in D
    OBVIOUS
  <1>9. FreshAfter(E, loose)
    BY <1>1, <1>4, <1>7, <1>8, MoveFresh
  <1> QED
    BY <1>3, <1>9 DEF Untouched

LEMMA FlushBounceOnce ==
  ASSUME Type, OneRunner, SnapshotOrTask, KnownIds, TasksApart, Monotone, Type',
         NEW r \in Runners, NEW m \in Ids, FlushBounce(r, m)
  PROVE  /\ KnownIds' /\ TasksApart'
         /\ Fresh(reported, FALSE) => Fresh(reported, FALSE)' /\ rereported' = rereported
         /\ Fresh(Pairs, TRUE) => /\ Fresh(Pairs, TRUE)'
                                  /\ delivered \cap (reported \cup discarded) = {} =>
                                       delivered' \cap (reported' \cup discarded') = {}
  <1> DEFINE t == task[r][m]
             failed == NextBounce(t)
  <1>1. /\ m \in Live(r) /\ t \in Tasks /\ t.stage = "flush" /\ Apart(t) /\ ~Unused(m)
        /\ failed \subseteq t.pendLocal \cup t.pendRemote
        /\ delivered' = delivered /\ due' = due
    <2>1. m \in Live(r)
      BY DEF FlushBounce
    <2> QED
      BY <2>1, LiveTask DEF FlushBounce, TasksApart, KnownIds, NextBounce, runner
  <1>2. /\ msg'[m] = msg[m] /\ spool'[m] = spool[m] /\ OthersKept(m)
        /\ spool' \in [Ids -> Entries]
    <2>1. CASE UNCHANGED <<msg, spool>>
      BY <2>1 DEF OthersKept, Type
    <2>2. ASSUME NEW d \in Ids, Unused(d),
                 msg' = [msg EXCEPT ![d] = [kind |-> "bounce", from |-> Null,
                                            rcpts |-> {msg[m].from}]],
                 spool' = [spool EXCEPT ![d] = NewEntry({msg[m].from}, roundNow[r])]
          PROVE  msg'[m] = msg[m] /\ spool'[m] = spool[m] /\ OthersKept(m)
      BY <1>1, <2>2 DEF OthersKept, Unused, Type
    <2>3. spool' \in [Ids -> Entries]
      BY DEF Type
    <2> QED
      BY <2>1, <2>2, <2>3 DEF FlushBounce, Type
  <1>3. ASSUME task' = [task EXCEPT ![r][m] = Flushed(t, {}, FALSE)],
               \/ /\ reported' = reported \cup ({m} \X failed) /\ discarded' = discarded
                  /\ rereported' = rereported \cup (reported \cap ({m} \X failed))
               \/ /\ discarded' = discarded \cup ({m} \X failed)
                  /\ UNCHANGED <<reported, rereported>>
        PROVE  /\ KnownIds' /\ TasksApart'
               /\ Fresh(reported, FALSE) => Fresh(reported, FALSE)' /\ rereported' = rereported
               /\ Fresh(Pairs, TRUE) => /\ Fresh(Pairs, TRUE)'
                                        /\ delivered \cap (reported \cup discarded) = {} =>
                                             delivered' \cap (reported' \cup discarded') = {}
    <2> DEFINE u == Flushed(t, {}, FALSE)
    <2>1. /\ Apart(u) /\ Held(u) \subseteq Held(t) /\ u.stage = "flush"
          /\ u.pendLocal \cup u.pendRemote \subseteq t.pendLocal \cup t.pendRemote
          /\ Held(u) \cap failed = {}
      BY <1>1, FlushedApart
    <2>2. Moves(r, m, u)
      BY <1>1, <1>2, <1>3 DEF Moves, Monotone
    <2> HIDE DEF u, failed
    <2>3. /\ Pairs' \subseteq Pairs \cup ({m} \X failed) /\ reported' \subseteq reported \cup ({m} \X failed)
          /\ reported \subseteq Pairs /\ Pairs \subseteq Pairs
      BY <1>1, <1>3 DEF Pairs
    <2>4. Flushes(r, m, u, failed)
      BY <1>1, <1>2, <2>1, <2>2, <2>3 DEF Flushes
    <2>10. KnownIds' /\ TasksApart'
      BY <1>1, <2>4, FlushShape
    <2>5. Fresh(reported, FALSE) => FreshAfter(reported', FALSE) /\ ({m} \X failed) \cap reported = {}
      BY <1>1, <2>3, <2>4, FlushFresh
    <2>6. Fresh(Pairs, TRUE) => FreshAfter(Pairs', TRUE) /\ ({m} \X failed) \cap Pairs = {}
      BY <1>1, <2>3, <2>4, FlushFresh
    <2>7. ({m} \X failed) \cap reported = {} => rereported' = rereported
      BY <1>3
    <2>8. ({m} \X failed) \cap Pairs = {} /\ delivered \cap (reported \cup discarded) = {} =>
            delivered' \cap (reported' \cup discarded') = {}
      BY <1>1, <1>3 DEF Pairs
    <2> QED
      BY <2>5, <2>6, <2>7, <2>8, <2>10, FreshPrimed
  <1>4. ASSUME task' = [task EXCEPT ![r][m] = Flushed(t, failed, TRUE)],
               UNCHANGED <<reported, rereported, discarded>>
        PROVE  /\ KnownIds' /\ TasksApart'
               /\ Fresh(reported, FALSE) => Fresh(reported, FALSE)' /\ rereported' = rereported
               /\ Fresh(Pairs, TRUE) => /\ Fresh(Pairs, TRUE)'
                                        /\ delivered \cap (reported \cup discarded) = {} =>
                                             delivered' \cap (reported' \cup discarded') = {}
    <2> DEFINE u == Flushed(t, failed, TRUE)
    <2>1. /\ Apart(u) /\ Held(u) \subseteq Held(t) /\ u.stage = "flush"
          /\ u.pendLocal \cup u.pendRemote \subseteq t.pendLocal \cup t.pendRemote
      BY <1>1, FlushedApart
    <2>2. Moves(r, m, u)
      BY <1>1, <1>2, <1>4 DEF Moves, Monotone
    <2> HIDE DEF u, failed
    <2>3. Pairs' = Pairs /\ reported' = reported /\ reported \subseteq Pairs
      BY <1>1, <1>4 DEF Pairs
    <2>4. Flushes(r, m, u, {})
      BY <1>1, <1>2, <2>1, <2>2, <2>3 DEF Flushes
    <2>10. KnownIds' /\ TasksApart'
      BY <1>1, <2>4, FlushShape
    <2>5. Fresh(reported, FALSE) => FreshAfter(reported', FALSE)
      BY <1>1, <2>3, <2>4, FlushFresh
    <2>6. Fresh(Pairs, TRUE) => FreshAfter(Pairs', TRUE)
      BY <1>1, <2>3, <2>4, FlushFresh
    <2> QED
      BY <1>1, <1>4, <2>5, <2>6, <2>10, FreshPrimed
  <1> QED
    BY <1>3, <1>4 DEF FlushBounce

LEMMA TaskEndOnce ==
  ASSUME Type, OneRunner, SnapshotOrTask, KnownIds, TasksApart, Monotone,
         NEW r \in Runners, NEW m \in Ids, TaskEnd(r, m)
  PROVE  /\ KnownIds' /\ TasksApart'
         /\ Fresh(reported, FALSE) => Fresh(reported, FALSE)'
         /\ Fresh(Pairs, TRUE) => Fresh(Pairs, TRUE)'
  <1>1. /\ m \in Live(r) /\ task[r][m].stage = "end" /\ NoTask.stage = "none"
        /\ UNCHANGED <<msg, spool, due, history>>
    BY DEF TaskEnd, NoTask, runner
  <1>2. Moves(r, m, NoTask)
    BY <1>1 DEF Moves, OthersKept, Monotone, TaskEnd, Type
  <1>3. Pairs' = Pairs /\ reported' = reported /\ reported \subseteq Pairs /\ Pairs \subseteq Pairs
    BY <1>1 DEF history, Pairs
  <1>4. Shaped(NoTask, m)
    BY <1>1 DEF Shaped
  <1>5. KnownIds' /\ TasksApart'
    BY <1>1, <1>2, <1>3, <1>4, MoveKnown, MoveApart
  <1>6. ~Dirty(m)
    BY <1>1 DEF Dirty, OneRunner
  <1>7. ASSUME NEW D, NEW loose \in BOOLEAN, D \subseteq Pairs, Fresh(D, loose)
        PROVE  FreshAfter(D, loose)
    <2>1. spool[m].file => Untouched(D, m, spool[m].rcpts)
      BY <1>6, <1>7 DEF Fresh, SpoolFresh
    <2> QED
      BY <1>1, <1>2, <1>7, <2>1, MoveFresh
  <1> QED
    BY <1>3, <1>5, <1>7, FreshPrimed

(* Steps that leave the tasks and the fates alone and write no file. *)
LEMMA QuietOnce ==
  ASSUME Type, KnownIds, TasksApart, Monotone,
         UNCHANGED <<msg, due, task, delivered, reported, discarded>>,
         \A n \in Ids : spool'[n] = spool[n] \/ ~spool'[n].file
  PROVE  /\ KnownIds' /\ TasksApart'
         /\ Fresh(reported, FALSE) => Fresh(reported, FALSE)'
         /\ Fresh(Pairs, TRUE) => Fresh(Pairs, TRUE)'
  <1>1. Pairs' = Pairs /\ (\A n \in Ids : Dirty(n)' = Dirty(n)) /\ \A r \in Runners : Live(r)' = Live(r)
    BY DEF Pairs, Dirty, Live
  <1>2. KnownIds'
    BY <1>1 DEF KnownIds, Unused
  <1>3. TasksApart'
    BY <1>1 DEF TasksApart, Monotone, Live
  <1>4. ASSUME NEW D, NEW loose \in BOOLEAN, Fresh(D, loose) PROVE FreshAfter(D, loose)
    <2>1. SpoolFreshAfter(D, loose)
      BY <1>1, <1>4 DEF Fresh, SpoolFresh, SpoolFreshAfter
    <2>2. DueFreshAfter(D)
      BY <1>4 DEF Fresh, DueFresh, DueFreshAfter
    <2>3. TasksFreshAfter(D)
      BY <1>4 DEF Fresh, TasksFresh, TasksFreshAfter, Live
    <2> QED
      BY <2>1, <2>2, <2>3 DEF FreshAfter
  <1> QED
    BY <1>1, <1>2, <1>3, <1>4, FreshPrimed

LEMMA StartRoundOnce ==
  ASSUME Type, OneRunner, SnapshotOrTask, KnownIds, TasksApart, Monotone,
         NEW r \in Runners, StartRound(r)
  PROVE  /\ KnownIds' /\ TasksApart'
         /\ Fresh(reported, FALSE) => Fresh(reported, FALSE)'
         /\ Fresh(Pairs, TRUE) => Fresh(Pairs, TRUE)'
  <1>1. /\ UNCHANGED <<msg, spool, task, history>> /\ round[r] = "idle"
        /\ \A n \in Ids : due'[r][n] = spool[n] \/ ~due'[r][n].file
    BY DEF StartRound, Type, NoFile
  <1>2. Live(r) = {} /\ \A q \in Runners : q = r
    BY <1>1 DEF SnapshotOrTask, OneRunner, Live
  <1>3. Pairs' = Pairs /\ reported' = reported /\ \A n \in Ids : ~Dirty(n) /\ ~Dirty(n)'
    BY <1>1, <1>2 DEF Pairs, Dirty, Live, history
  <1>4. KnownIds'
    BY <1>1, <1>2, <1>3 DEF KnownIds, Unused, Live
  <1>5. TasksApart'
    BY <1>1, <1>2 DEF TasksApart, Live
  <1>6. ASSUME NEW D, NEW loose \in BOOLEAN, Fresh(D, loose) PROVE FreshAfter(D, loose)
    <2>1. \A n \in Ids : spool[n].file => Untouched(D, n, spool[n].rcpts)
      BY <1>3, <1>6 DEF Fresh, SpoolFresh
    <2>2. SpoolFreshAfter(D, loose)
      BY <1>1, <2>1 DEF SpoolFreshAfter
    <2>3. DueFreshAfter(D)
      BY <1>1, <1>2, <2>1 DEF DueFreshAfter
    <2>4. TasksFreshAfter(D)
      BY <1>1, <1>2 DEF TasksFreshAfter, Live
    <2> QED
      BY <2>2, <2>3, <2>4 DEF FreshAfter
  <1> QED
    BY <1>3, <1>4, <1>5, <1>6, FreshPrimed

LEMMA ClaimEntryOnce ==
  ASSUME Type, OneRunner, SnapshotOrTask, KnownIds, TasksApart, Monotone,
         NEW r \in Runners, NEW m \in Ids, ClaimEntry(r, m)
  PROVE  /\ KnownIds' /\ TasksApart'
         /\ Fresh(reported, FALSE) => Fresh(reported, FALSE)'
         /\ Fresh(Pairs, TRUE) => Fresh(Pairs, TRUE)'
  <1> DEFINE e == due[r][m]
  <1>1. /\ UNCHANGED <<msg, spool, history>> /\ e.file /\ e \in Entries /\ ~due'[r][m].file
        /\ \A n \in Ids : n # m => due'[r][n] = due[r][n] /\ task'[r][n] = task[r][n]
        /\ task'[r][m] = task[r][m] \/ task'[r][m] = Spawned(e)
    BY DEF ClaimEntry, Type, NoFile
  <1>2. m \notin Live(r) /\ (\A q \in Runners : q = r) /\ ~Unused(m) /\ ~Unused(m)'
    BY <1>1 DEF SnapshotOrTask, OneRunner, KnownIds, Unused
  <1>3. Pairs' = Pairs /\ reported' = reported
    BY <1>1 DEF Pairs, history
  <1>4. /\ Spawned(e).stage = "permit" /\ ~Spawned(e).mutated /\ Held(Spawned(e)) = e.rcpts
        /\ Apart(Spawned(e))
    BY <1>1 DEF Spawned, Held, Apart, Entries
  <1>5. \A n \in Ids : Dirty(n)' => Dirty(n)
    BY <1>1, <1>2, <1>4 DEF Dirty, Live
  <1>6. KnownIds'
    BY <1>1, <1>2, <1>3 DEF KnownIds, Unused, Live
  <1>7. TasksApart'
    BY <1>1, <1>2, <1>4 DEF TasksApart, Live, Monotone
  <1>8. ASSUME NEW D, NEW loose \in BOOLEAN, Fresh(D, loose) PROVE FreshAfter(D, loose)
    <2>1. SpoolFreshAfter(D, loose)
      <3> SUFFICES ASSUME NEW n \in Ids, spool[n].file, loose => ~Dirty(n)'
                   PROVE  Untouched(D, n, spool[n].rcpts)
        BY <1>1 DEF SpoolFreshAfter
      <3>1. CASE n = m
        <4>1. ~Dirty(m)
          BY <1>2 DEF Dirty
        <4> QED
          BY <1>8, <3>1, <4>1 DEF Fresh, SpoolFresh
      <3>2. CASE n # m
        <4>1. Dirty(n)' = Dirty(n)
          BY <1>1, <1>2, <3>2 DEF Dirty, Live
        <4> QED
          BY <1>8, <4>1 DEF Fresh, SpoolFresh
      <3> QED
        BY <3>1, <3>2
    <2>2. DueFreshAfter(D)
      BY <1>1, <1>2, <1>8 DEF Fresh, DueFresh, DueFreshAfter
    <2>3. Untouched(D, m, e.rcpts)
      BY <1>1, <1>8 DEF Fresh, DueFresh
    <2>4. TasksFreshAfter(D)
      BY <1>1, <1>2, <1>4, <1>8, <2>3 DEF Fresh, TasksFresh, TasksFreshAfter, Live
    <2> QED
      BY <2>1, <2>2, <2>4 DEF FreshAfter
  <1> QED
    BY <1>3, <1>6, <1>7, <1>8, FreshPrimed

LEMMA EnqueueOnce ==
  ASSUME Type, KnownIds, TasksApart, Monotone,
         NEW m \in Ids, NEW env \in Envelopes, Enqueue(m, env)
  PROVE  /\ KnownIds' /\ TasksApart'
         /\ Fresh(reported, FALSE) => Fresh(reported, FALSE)'
         /\ Fresh(Pairs, TRUE) => Fresh(Pairs, TRUE)'
  <1>1. /\ UNCHANGED <<due, task, history>> /\ Unused(m) /\ ~Unused(m)'
        /\ \A n \in Ids : n # m => spool'[n] = spool[n] /\ msg'[n] = msg[n]
        /\ spool'[m].rcpts = env.rcpts
    BY DEF Enqueue, runner, Unused, Type, NewEntry
  <1>2. Pairs' = Pairs /\ reported' = reported /\ reported \subseteq Pairs /\ Pairs \subseteq Pairs
    BY <1>1 DEF Pairs, history
  <1>3. \A n \in Ids : Dirty(n)' = Dirty(n)
    BY <1>1 DEF Dirty, Live
  <1>4. \A r \in Runners : Live(r)' = Live(r) /\ m \notin Live(r)
    BY <1>1 DEF Live, KnownIds
  <1>5. KnownIds'
    BY <1>1, <1>2, <1>4 DEF KnownIds, Unused
  <1>6. TasksApart'
    BY <1>1, <1>4 DEF TasksApart, Monotone, Live
  <1>7. ASSUME NEW D, NEW loose \in BOOLEAN, D \subseteq Pairs, Fresh(D, loose)
        PROVE  FreshAfter(D, loose)
    <2>1. Untouched(D, m, spool'[m].rcpts)
      BY <1>1, <1>7, EnvelopesTyped DEF Untouched, KnownIds
    <2>2. SpoolFreshAfter(D, loose)
      BY <1>1, <1>3, <1>7, <2>1 DEF Fresh, SpoolFresh, SpoolFreshAfter
    <2>3. DueFreshAfter(D) /\ TasksFreshAfter(D)
      BY <1>1, <1>7 DEF Fresh, DueFresh, DueFreshAfter, TasksFresh, TasksFreshAfter, Live
    <2> QED
      BY <2>2, <2>3 DEF FreshAfter
  <1> QED
    BY <1>2, <1>5, <1>6, <1>7, FreshPrimed

(* The process stops: its copies are gone with it. *)
LEMMA StoppedOnce ==
  ASSUME Type, OneRunner, KnownIds, NEW r \in Runners, Stopped(r), UNCHANGED <<msg, spool, reported>>,
         \A n \in Ids, x \in Rcpts :
            <<n, x>> \in Pairs' => <<n, x>> \in Pairs \/ n \in Live(r)
  PROVE  /\ KnownIds' /\ TasksApart'
         /\ Fresh(reported, FALSE) => Fresh(reported, FALSE)'
  <1>1. \A q \in Runners, n \in Ids : ~due'[q][n].file /\ task'[q][n].stage = "none"
    BY DEF Stopped, OneRunner, NoCopies, NoFile, NoTask, Type
  <1>2. \A n \in Live(r) : ~Unused(n)
    BY DEF KnownIds, Live
  <1>3. KnownIds'
    BY <1>1, <1>2 DEF KnownIds, Unused, Live
  <1>4. TasksApart'
    BY <1>1 DEF TasksApart, Live
  <1>5. ASSUME Fresh(reported, FALSE) PROVE FreshAfter(reported, FALSE)
    BY <1>1, <1>5 DEF Fresh, SpoolFresh, FreshAfter, SpoolFreshAfter, DueFreshAfter, TasksFreshAfter
  <1> QED
    BY <1>3, <1>4, <1>5, FreshPrimed

(* A step in which nothing interrupts or misleads the queue. *)
Smoothly == \A k \in Interrupted \cup Misled : ~Happens(k)

FreshKept ==
    /\ KnownIds' /\ TasksApart'
    /\ Fresh(reported, FALSE) => Fresh(reported, FALSE)'
    /\ Smoothly /\ Fresh(Pairs, TRUE) => Fresh(Pairs, TRUE)'

LEMMA SameFile ==
  ASSUME Type, NEW m \in Ids, UNCHANGED spool PROVE spool' = [spool EXCEPT ![m] = spool[m]] /\ spool[m] \in Entries
  BY DEF Type

LEMMA MoveOnFreshKept ==
  ASSUME Type, OneRunner, SnapshotOrTask, KnownIds, TasksApart, Monotone,
         NEW r \in Runners, NEW m \in Ids,
         AcquirePermit(r, m) \/ Gate(r, m) \/ Persist(r, m) \/ Unlink(r, m) \/ FlushEnd(r, m)
           \/ (WriteBack(r, m) /\ ~Happens("write"))
  PROVE  FreshKept
  <1> DEFINE t == task[r][m]
  <1>1. /\ m \in Live(r) /\ t \in Tasks /\ t.stage # "end" /\ FileOf(t) \in Entries
        /\ FileOf(t).rcpts = t.rcpts /\ NoFile \in Entries /\ ~NoFile.file
        /\ UNCHANGED <<msg, due, history>>
    <2>1. m \in Live(r)
      BY DEF AcquirePermit, Gate, Persist, Unlink, FlushEnd, WriteBack
    <2>2. t \in Tasks /\ FileOf(t) \in Entries /\ FileOf(t).rcpts = t.rcpts
      BY <2>1, LiveTask, FileOfTyped DEF FileOf
    <2> QED
      BY <2>1, <2>2, NothingTyped
         DEF AcquirePermit, Gate, Persist, Unlink, FlushEnd, WriteBack, NoFile, store, runner
  <1>2. Smoothly => ~Happens("write")
    BY DEF Smoothly, Misled
  <1>3. ASSUME NEW stage, stage \in {"local", "gate", "persist", "remote", "unlink"},
               task' = [task EXCEPT ![r][m] = AtStage(t, stage)], UNCHANGED spool
        PROVE  FreshKept
    <2>1. stage \in Stages \ {"none", "writeback"}
      BY <1>3 DEF Stages, SyncTail
    <2> DEFINE e == spool[m]
    <2>2. spool' = [spool EXCEPT ![m] = e] /\ e \in Entries /\ e = spool[m]
      BY <1>3, SameFile
    <2> HIDE DEF e
    <2>3. e = spool[m] \/ ~e.file \/ e.rcpts = t.rcpts
      BY <2>2
    <2>4. stage = "flush" => ~t.mutated \/ ~e.file \/ e.rcpts = t.rcpts
      BY <1>3
    <2>5. Smoothly => \/ stage \notin {"flush", "end"} \/ ~t.mutated
                      \/ t.stage = "flush" \/ ~e.file \/ e.rcpts = t.rcpts
      BY <1>3
    <2>6. task' = [task EXCEPT ![r][m] = AtStage(t, stage)]
      BY <1>3
    <2> QED
      BY <1>1, <2>1, <2>2, <2>3, <2>4, <2>5, <2>6, MoveOnOnce DEF FreshKept
  <1>4. ASSUME NEW stage \in {"flush", "end"}, task' = [task EXCEPT ![r][m] = AtStage(t, stage)],
               UNCHANGED spool, stage = "flush" => ~t.mutated,
               Smoothly => ~t.mutated \/ t.stage = "flush"
        PROVE  FreshKept
    <2>1. stage \in Stages \ {"none", "writeback"}
      BY DEF Stages, SyncTail
    <2> DEFINE e == spool[m]
    <2>2. spool' = [spool EXCEPT ![m] = e] /\ e \in Entries /\ e = spool[m]
      BY <1>4, SameFile
    <2> HIDE DEF e
    <2>3. e = spool[m] \/ ~e.file \/ e.rcpts = t.rcpts
      BY <2>2
    <2>4. stage = "flush" => ~t.mutated \/ ~e.file \/ e.rcpts = t.rcpts
      BY <1>4
    <2>5. Smoothly => \/ stage \notin {"flush", "end"} \/ ~t.mutated
                      \/ t.stage = "flush" \/ ~e.file \/ e.rcpts = t.rcpts
      BY <1>4
    <2>6. task' = [task EXCEPT ![r][m] = AtStage(t, stage)]
      BY <1>4
    <2> QED
      BY <1>1, <2>1, <2>2, <2>3, <2>4, <2>5, <2>6, MoveOnOnce DEF FreshKept
  <1>5. ASSUME NEW stage \in {"flush", "end"}, task' = [task EXCEPT ![r][m] = AtStage(t, stage)],
               NEW e \in {NoFile, FileOf(t)}, spool' = [spool EXCEPT ![m] = e]
        PROVE  FreshKept
    <2>1. stage \in Stages \ {"none", "writeback"}
      BY DEF Stages, SyncTail
    <2>2. e \in Entries /\ (~e.file \/ e.rcpts = t.rcpts)
      BY <1>1
    <2> QED
      BY <1>1, <1>5, <2>1, <2>2, MoveOnOnce DEF FreshKept
  <1>6. CASE AcquirePermit(r, m) \/ Gate(r, m)
    BY <1>3, <1>6 DEF AcquirePermit, Gate, store
  <1>7. CASE Persist(r, m)
    <2>1. t.stage = "persist"
      BY <1>7 DEF Persist
    <2> QED
      BY <1>2, <1>3, <1>4, <1>5, <1>7 DEF Persist
  <1>8. CASE Unlink(r, m)
    BY <1>2, <1>4, <1>5, <1>8 DEF Unlink
  <1>9. CASE FlushEnd(r, m)
    <2>1. t.stage = "flush"
      BY <1>9 DEF FlushEnd
    <2> QED
      BY <1>4, <1>5, <1>9, <2>1 DEF FlushEnd
  <1>10. CASE WriteBack(r, m) /\ ~Happens("write")
    BY <1>5, <1>10 DEF WriteBack
  <1> QED
    BY <1>6, <1>7, <1>8, <1>9, <1>10

(* What a step adds when all goes smoothly. *)
OneFateKept ==
    delivered \cap (reported \cup discarded) = {} => delivered' \cap (reported' \cup discarded') = {}

LEMMA DeliverLocalOnce ==
  ASSUME Type, OneRunner, SnapshotOrTask, KnownIds, TasksApart, Monotone,
         NEW r \in Runners, NEW m \in Ids, DeliverLocal(r, m)
  PROVE  FreshKept /\ (Smoothly /\ Fresh(Pairs, TRUE) => again' = again /\ OneFateKept)
  <1> DEFINE t == task[r][m]
  <1>1. /\ m \in Live(r) /\ t \in Tasks /\ t.stage = "local" /\ Apart(t)
        /\ UNCHANGED <<msg, spool, due>>
    <2>1. m \in Live(r)
      BY DEF DeliverLocal
    <2> QED
      BY <2>1, LiveTask DEF DeliverLocal, store, runner, TasksApart
  <1>2. PICK class \in {"ok", "transient", "permanent", "short"}, reached \in SUBSET LocalOf(t) :
        \E accepted \in {{}, reached} :
          /\ Answered(LocalOf(t), class, accepted, reached)
          /\ Receive({m} \X reached)
          /\ \E delay \in Delays(Policy, t.attempts + 1) :
               task' = [task EXCEPT ![r][m] =
                           AfterLocal(t, class, accepted, Deadline(roundNow[r] + delay))]
    BY DEF DeliverLocal
  <1>3. PICK accepted \in {{}, reached}, delay \in Delays(Policy, t.attempts + 1) :
          /\ Answered(LocalOf(t), class, accepted, reached)
          /\ Receive({m} \X reached)
          /\ task' = [task EXCEPT ![r][m] =
                         AfterLocal(t, class, accepted, Deadline(roundNow[r] + delay))]
    BY <1>2
  <1> DEFINE u == AfterLocal(t, class, accepted, Deadline(roundNow[r] + delay))
             named == Reached(class, LocalOf(t), accepted)
  <1>4. Deadline(roundNow[r] + delay) \in Nat
    BY DelaysAreNat, DeadlineIsNat DEF Type
  <1>5. Answer(t, u, class, named)
    BY <1>1, <1>4, AfterLocalApart
  <1>6. /\ class = "short" => Happens("receipt")
        /\ Smoothly => class # "short" /\ named = reached
    BY <1>3, AnswerExact DEF Smoothly, Misled
  <1>7. reached \in SUBSET t.rcpts
    BY DEF LocalOf
  <1> HIDE DEF u, named
  <1>8. task' = [task EXCEPT ![r][m] = u]
    BY <1>3 DEF u
  <1> QED
    BY <1>1, <1>3, <1>5, <1>6, <1>7, <1>8, DeliverOnce DEF FreshKept, OneFateKept

LEMMA DeliverRemoteOnce ==
  ASSUME Type, OneRunner, SnapshotOrTask, KnownIds, TasksApart, Monotone,
         NEW r \in Runners, NEW m \in Ids, DeliverRemote(r, m)
  PROVE  FreshKept /\ (Smoothly /\ Fresh(Pairs, TRUE) => again' = again /\ OneFateKept)
  <1> DEFINE t == task[r][m]
  <1>1. /\ m \in Live(r) /\ t \in Tasks /\ t.stage = "remote" /\ Apart(t)
        /\ UNCHANGED <<msg, spool, due>>
    <2>1. m \in Live(r)
      BY DEF DeliverRemote
    <2> QED
      BY <2>1, LiveTask DEF DeliverRemote, store, TasksApart
  <1>2. PICK class \in {"ok", "transient", "permanent", "short"}, reached \in SUBSET RemoteOf(t) :
        \E accepted \in {{}, reached}, localFault \in BOOLEAN :
          /\ IF localFault THEN class = "transient" /\ reached = {} /\ Happens("sign")
                           ELSE Answered(RemoteOf(t), class, accepted, reached)
          /\ Receive({m} \X reached)
          /\ RecordHealth(r, class, localFault)
          /\ \E delay \in Delays(Policy, t.attempts + 1) :
               task' = [task EXCEPT ![r][m] =
                           AfterRemote(t, class, accepted, Deadline(roundNow[r] + delay))]
    BY DEF DeliverRemote
  <1>3. PICK accepted \in {{}, reached}, delay \in Delays(Policy, t.attempts + 1) :
          /\ \/ class = "transient" /\ reached = {}
             \/ Answered(RemoteOf(t), class, accepted, reached)
          /\ Receive({m} \X reached)
          /\ task' = [task EXCEPT ![r][m] =
                         AfterRemote(t, class, accepted, Deadline(roundNow[r] + delay))]
    BY <1>2
  <1> DEFINE u == AfterRemote(t, class, accepted, Deadline(roundNow[r] + delay))
             named == Reached(class, RemoteOf(t), accepted)
  <1>4. Deadline(roundNow[r] + delay) \in Nat
    BY DelaysAreNat, DeadlineIsNat DEF Type
  <1>5. Answer(t, u, class, named)
    BY <1>1, <1>4, AfterRemoteApart
  <1>6. /\ class = "short" => Happens("receipt")
        /\ Smoothly => class # "short" /\ named = reached
    <2>1. CASE class = "transient" /\ reached = {}
      BY <1>3, <2>1 DEF Reached
    <2>2. CASE Answered(RemoteOf(t), class, accepted, reached)
      BY <2>2, AnswerExact DEF Smoothly, Misled
    <2> QED
      BY <1>3, <2>1, <2>2
  <1>7. reached \in SUBSET t.rcpts
    BY DEF RemoteOf
  <1> HIDE DEF u, named
  <1>8. task' = [task EXCEPT ![r][m] = u]
    BY <1>3 DEF u
  <1> QED
    BY <1>1, <1>3, <1>5, <1>6, <1>7, <1>8, DeliverOnce DEF FreshKept, OneFateKept

LEMMA TaskStepOnce ==
  ASSUME Type, Type', OneRunner, SnapshotOrTask, KnownIds, TasksApart, Monotone,
         NEW r \in Runners, NEW m \in Ids, TaskStep(r, m), Fresh(reported, FALSE),
         mishap["receipt"] = 0 \/ ~Happens("write")
  PROVE  /\ FreshKept /\ rereported' = rereported
         /\ Smoothly /\ Fresh(Pairs, TRUE) => again' = again /\ OneFateKept
  <1>1. CASE DeliverLocal(r, m)
    BY <1>1, DeliverLocalOnce DEF DeliverLocal, Receive
  <1>2. CASE DeliverRemote(r, m)
    BY <1>2, DeliverRemoteOnce DEF DeliverRemote, Receive
  <1>3. CASE FlushBounce(r, m)
    BY <1>3, FlushBounceOnce DEF FreshKept, OneFateKept, FlushBounce
  <1>4. CASE TaskEnd(r, m)
    BY <1>4, TaskEndOnce DEF FreshKept, OneFateKept, TaskEnd, history
  <1>5. CASE AcquirePermit(r, m) \/ Gate(r, m) \/ Persist(r, m) \/ Unlink(r, m) \/ FlushEnd(r, m)
    <2>1. UNCHANGED history
      BY <1>5 DEF AcquirePermit, Gate, Persist, Unlink, FlushEnd
    <2> QED
      BY <1>5, <2>1, MoveOnFreshKept DEF OneFateKept, history
  <1>6. CASE WriteBack(r, m)
    <2>1. UNCHANGED history /\ m \in Live(r) /\ task[r][m].stage = "writeback"
      BY <1>6 DEF WriteBack
    <2>2. ~Happens("write")
      BY <2>1 DEF TasksApart
    <2> QED
      BY <1>6, <2>1, <2>2, MoveOnFreshKept DEF OneFateKept, history
  <1> QED
    BY <1>1, <1>2, <1>3, <1>4, <1>5, <1>6 DEF TaskStep

LEMMA InitSettled == Init => SettledOnce
  BY DEF Init, SettledOnce, KnownIds, TasksApart, Fresh, SpoolFresh, DueFresh, TasksFresh,
         Untouched, Pairs, Live, NoTask, NoCopies, NoFile

LEMMA OnceStep ==
  ASSUME Type, Type', SnapshotOrTask, Counted, [Next]_vars, OneRunner,
         KnownIds, TasksApart, Fresh(reported, FALSE),
         mishap["flush"] = 0, mishap["retry"] = 0, ~Happens("flush"), ~Happens("retry"),
         mishap["receipt"] = 0 \/ ~Happens("write")
  PROVE  /\ FreshKept /\ rereported' = rereported
         /\ Smoothly /\ Fresh(Pairs, TRUE) => again' = again /\ OneFateKept
  <1>0. Monotone
    BY MishapsStay DEF Monotone, Mishaps
  <1> DEFINE Goal == /\ FreshKept /\ rereported' = rereported
                     /\ Smoothly /\ Fresh(Pairs, TRUE) => again' = again /\ OneFateKept
  <1>1. ASSUME NEW m \in Ids, NEW env \in Envelopes, Enqueue(m, env) PROVE Goal
    BY <1>0, <1>1, EnqueueOnce DEF FreshKept, OneFateKept, Enqueue, history
  <1>2. ASSUME UNCHANGED <<msg, due, task, delivered, reported, discarded, again, rereported>>,
               \A n \in Ids : spool'[n] = spool[n] \/ ~spool'[n].file
        PROVE  Goal
    BY <1>0, <1>2, QuietOnce DEF FreshKept, OneFateKept
  <1>3. ASSUME ConsoleStep PROVE Goal
    <2>1. \A m \in Ids : ~ConsoleRetry(m) /\ ~ConsoleWrite(m)
      BY DEF ConsoleRetry, ConsoleRead, ConsoleWrite, Counted, ConsoleCounted
    <2>2. ~ConsoleFlush
      BY DEF ConsoleFlush, ConsoleRead
    <2>3. ASSUME NEW m \in Ids, ConsoleUnlink(m) PROVE Goal
      <3>1. \A n \in Ids : spool'[n] = spool[n] \/ ~spool'[n].file
        BY <2>3 DEF ConsoleUnlink, NoFile, Type
      <3> QED
        BY <1>2, <2>3, <3>1 DEF ConsoleUnlink, runner
    <2>4. ASSUME ConsoleFails \/ ConsoleDone \/ \E m \in Ids : ConsoleDelete(m) PROVE Goal
      BY <1>2, <2>4 DEF ConsoleFails, ConsoleDone, ConsoleDelete, store, runner, history
    <2> QED
      BY <1>3, <2>1, <2>2, <2>3, <2>4 DEF ConsoleStep
  <1>4. ASSUME NEW r \in Runners, StartRound(r) PROVE Goal
    BY <1>0, <1>4, StartRoundOnce DEF FreshKept, OneFateKept, StartRound, history
  <1>5. ASSUME NEW r \in Runners, NEW m \in Ids, ClaimEntry(r, m) PROVE Goal
    BY <1>0, <1>5, ClaimEntryOnce DEF FreshKept, OneFateKept, ClaimEntry, history
  <1>6. ASSUME NEW r \in Runners, EndRound(r) \/ Restart(r) PROVE Goal
    BY <1>2, <1>6 DEF EndRound, Restart, store, history
  <1>7. ASSUME NEW r \in Runners, NEW m \in Ids, TaskStep(r, m) PROVE Goal
    BY <1>0, <1>7, TaskStepOnce
  <1>8. ASSUME NEW r \in Runners, Crash(r) PROVE Goal
    <2>1. Stopped(r) /\ UNCHANGED <<msg, spool, delivered, reported, discarded, rereported>>
      BY <1>8 DEF Crash, store
    <2>2. ~Smoothly
      BY <1>8 DEF Smoothly, Interrupted, Crash
    <2>3. Pairs' = Pairs
      BY <2>1 DEF Pairs
    <2> QED
      BY <2>1, <2>2, <2>3, StoppedOnce DEF FreshKept
  <1>9. ASSUME NEW r \in Runners, Abort(r) PROVE Goal
    <2>1. /\ Stopped(r) /\ UNCHANGED <<msg, spool, reported, discarded, rereported>>
          /\ \E pairs \in SUBSET InTransit(r) : delivered' = delivered \cup pairs
      BY <1>9 DEF Abort, Receive
    <2>2. ~Smoothly
      BY <1>9 DEF Smoothly, Interrupted, Abort
    <2>3. \A p \in InTransit(r) : p[1] \in Live(r)
      BY DEF InTransit, Live
    <2>4. \A n \in Ids, x \in Rcpts :
            <<n, x>> \in Pairs' => <<n, x>> \in Pairs \/ n \in Live(r)
      BY <2>1, <2>3 DEF Pairs
    <2> QED
      BY <2>1, <2>2, <2>4, StoppedOnce DEF FreshKept
  <1>10. ASSUME Tick \/ UNCHANGED vars PROVE Goal
    BY <1>2, <1>10 DEF Tick, vars, store, runner, history
  <1> QED
    BY <1>1, <1>3, <1>4, <1>5, <1>6, <1>7, <1>8, <1>9, <1>10 DEF Next, RunnerStep

LEMMA SettledStep ==
  Type /\ Type' /\ SnapshotOrTask /\ Counted /\ SettledOnce /\ [Next]_vars => SettledOnce'
  <1> SUFFICES ASSUME Type, Type', SnapshotOrTask, Counted, SettledOnce, [Next]_vars, Reportable'
               PROVE  /\ (KnownIds /\ TasksApart /\ Fresh(reported, FALSE) /\ rereported = {})'
                      /\ Smooth' => (/\ Fresh(Pairs, TRUE) /\ again = {}
                                     /\ delivered \cap (reported \cup discarded) = {})'
    BY DEF SettledOnce, Smooth, Reportable, Never, Misled
  <1>1. {"flush", "retry", "receipt", "write"} \cup Interrupted \cup Misled \subseteq Mishaps
    BY DEF Mishaps, Interrupted, Misled
  <1>2. /\ OneRunner /\ mishap["flush"] = 0 /\ mishap["retry"] = 0
        /\ ~Happens("flush") /\ ~Happens("retry")
        /\ mishap["receipt"] = 0 \/ (mishap["write"] = 0 /\ ~Happens("write"))
    BY <1>1, MishapsStay DEF Reportable, Never, OneRunner
  <1>3. Reportable
    BY <1>2 DEF Reportable, Never
  <1>4. KnownIds /\ TasksApart /\ Fresh(reported, FALSE) /\ rereported = {}
    BY <1>3 DEF SettledOnce
  <1>5. /\ FreshKept /\ rereported' = rereported
        /\ Smoothly /\ Fresh(Pairs, TRUE) => again' = again /\ OneFateKept
    BY <1>2, <1>4, OnceStep
  <1>6. ASSUME Smooth' PROVE Smooth /\ Smoothly
    BY <1>1, <1>6, MishapsStay DEF Smooth, Smoothly, Never, OneRunner
  <1> QED
    BY <1>4, <1>5, <1>6 DEF FreshKept, OneFateKept, SettledOnce

(* Every copy that the queue will still act on names only recipients that  *)
(* have met no fate, and so nobody receives a message twice, is told of a  *)
(* failure twice or gets both (process(), apply_failure, flush_bounces:    *)
(* the outcome reaches the file before the DSN and before the claim goes). *)
THEOREM AlwaysDealtWithOnce == Spec => []DealtWithOnce
  <1>1. Type /\ SnapshotOrTask /\ [Next]_vars => SnapshotOrTask'
    BY SnapshotStep
  <1>2. Type /\ Counted /\ [Next]_vars => Counted'
    BY CountedStep
  <1>3. Type /\ Type' /\ SnapshotOrTask /\ Counted /\ SettledOnce /\ [Next]_vars => SettledOnce'
    BY SettledStep
  <1>4. SettledOnce => DealtWithOnce
    BY DEF SettledOnce, DealtWithOnce, NoDuplicate, OneFate, ReportedOnce, Smooth, Reportable, Never
  <1> QED
    BY <1>1, <1>2, <1>3, <1>4, InitSnapshotOrTask, InitCounted, InitSettled, TypeCorrect, PTL DEF Spec

-----------------------------------------------------------------------------
(* The half-open probe.  While nothing gets through in a round that found  *)
(* the route blocked, the one attempt that may fail is under way, or over, *)
(* or has not begun.                                                       *)

Trying(r) == {m \in Ids : task[r][m].stage = "remote"}

Probing(r) ==
    /\ failures[r] >= savedHealth
    /\ roundFails[r] <= 1
    /\ \A m, n \in Trying(r) : m = n
    /\ Trying(r) # {} => roundFails[r] = 0 /\ halfOpenUsed[r]
    /\ ~halfOpenUsed[r] => roundFails[r] = 0

(* Between rounds the verdict of the runner is the one on file; in a round *)
(* that found the route blocked, something got through since or the probe  *)
(* is all there is.                                                        *)
GateKept(r) ==
    \/ round[r] # "running" /\ failures[r] = savedHealth
    \/ /\ round[r] # "idle"
       /\ savedHealth >= GreaterOf(Threshold, 1) => failures[r] <= roundFails[r] \/ Probing(r)

Capped == savedHealth <= MaxFailures /\ \A r \in Runners : failures[r] <= MaxFailures

RouteInv == Capped /\ (OneRunner /\ mishap["health"] = 0 => \A r \in Runners : GateKept(r))

LEMMA InitRoute == Init => RouteInv
  BY NumbersTyped DEF Init, RouteInv, Capped, GateKept

(* A step that begins no remote attempt and leaves the counters alone. *)
LEMMA GateUndisturbed ==
  ASSUME NEW r \in Runners, GateKept(r), Trying(r)' \subseteq Trying(r),
         round'[r] = round[r], failures'[r] = failures[r], roundFails'[r] = roundFails[r],
         halfOpenUsed'[r] = halfOpenUsed[r], savedHealth' = savedHealth
  PROVE  GateKept(r)'
  BY DEF GateKept, Probing

(* Which tasks are trying after task m of runner r has become t. *)
LEMMA TryingAfter ==
  ASSUME Type, NEW r \in Runners, NEW m \in Ids, NEW t, task' = [task EXCEPT ![r][m] = t]
  PROVE  /\ t.stage # "remote" => Trying(r)' = Trying(r) \ {m}
         /\ t.stage = "remote" => Trying(r)' = Trying(r) \cup {m}
  BY DEF Type, Trying

LEMMA StageOfAtStage == ASSUME NEW t \in Tasks, NEW stage PROVE AtStage(t, stage).stage = stage
  BY DEF AtStage, Tasks

LEMMA StageAfter ==
  ASSUME NEW t \in Tasks, NEW class, NEW accepted, NEW at
  PROVE  AfterLocal(t, class, accepted, at).stage # "remote" /\ AfterRemote(t, class, accepted, at).stage # "remote"
  BY StageOfAtStage DEF AfterLocal, AfterRemote, Done, Failed

LEMMA OtherTaskSteps ==
  ASSUME Type, NEW r \in Runners, NEW m \in Ids, TaskStep(r, m), ~Gate(r, m), ~DeliverRemote(r, m)
  PROVE  Trying(r)' \subseteq Trying(r) /\ UNCHANGED <<savedHealth, runner>>
  <1>0. m \in Live(r) /\ UNCHANGED <<savedHealth, runner>>
    BY DEF TaskStep, AcquirePermit, DeliverLocal, Persist, Unlink, WriteBack, FlushBounce, FlushEnd, TaskEnd
  <1>1. task[r][m] \in Tasks
    BY <1>0, LiveTask
  <1>2. \E t : task' = [task EXCEPT ![r][m] = t] /\ t.stage # "remote"
    <2>1. CASE AcquirePermit(r, m)
      <3>1. \E stage \in {"local", "gate"} : task' = [task EXCEPT ![r][m] = AtStage(task[r][m], stage)]
        BY <2>1 DEF AcquirePermit
      <3> QED
        BY <1>1, <3>1, StageOfAtStage
    <2>2. CASE DeliverLocal(r, m)
      <3>1. \E class, accepted, at : task' = [task EXCEPT ![r][m] = AfterLocal(task[r][m], class, accepted, at)]
        BY <2>2 DEF DeliverLocal
      <3>2. PICK class, accepted, at : task' = [task EXCEPT ![r][m] = AfterLocal(task[r][m], class, accepted, at)]
        BY <3>1, Zenon
      <3>3. AfterLocal(task[r][m], class, accepted, at).stage # "remote"
        BY <1>1, StageAfter, Zenon
      <3> QED
        BY <3>2, <3>3, Zenon
    <2>3. CASE Persist(r, m) \/ Unlink(r, m) \/ WriteBack(r, m) \/ FlushEnd(r, m)
      <3>1. \E stage \in {"flush", "unlink", "end"} : task' = [task EXCEPT ![r][m] = AtStage(task[r][m], stage)]
        BY <2>3 DEF Persist, Unlink, WriteBack, FlushEnd
      <3> QED
        BY <1>1, <3>1, StageOfAtStage
    <2>4. CASE FlushBounce(r, m)
      <3>1. \E back, error : task' = [task EXCEPT ![r][m] = Flushed(task[r][m], back, error)]
        BY <2>4 DEF FlushBounce
      <3>2. PICK back, error : task' = [task EXCEPT ![r][m] = Flushed(task[r][m], back, error)]
        BY <3>1, Zenon
      <3>3. Flushed(task[r][m], back, error).stage # "remote"
        BY DEF Flushed
      <3> QED
        BY <3>2, <3>3, Zenon
    <2>5. CASE TaskEnd(r, m)
      <3>1. task' = [task EXCEPT ![r][m] = NoTask]
        BY <2>5 DEF TaskEnd
      <3>2. NoTask.stage # "remote"
        BY DEF NoTask
      <3> QED
        BY <3>1, <3>2, Zenon
    <2> QED
      BY <2>1, <2>2, <2>3, <2>4, <2>5 DEF TaskStep
  <1> QED
    BY <1>0, <1>2, TryingAfter

(* The gate lets one task through while the route is blocked. *)
LEMMA GateRoute ==
  ASSUME Type, SnapshotOrTask, NEW r \in Runners, NEW m \in Ids, Gate(r, m), GateKept(r)
  PROVE  GateKept(r)'
  <1>1. m \in Live(r) /\ round[r] = "running" /\ task[r][m] \in Tasks /\ task[r][m].stage = "gate"
    BY LiveTask DEF Gate, SnapshotOrTask
  <1>2. UNCHANGED <<savedHealth, round, failures, roundFails>>
    BY DEF Gate
  <1>3. CASE RemoteOf(task[r][m]) = {} \/ (Blocked(r) /\ halfOpenUsed[r])
    <2>1. task' = [task EXCEPT ![r][m] = AtStage(task[r][m], "persist")] /\ UNCHANGED halfOpenUsed
      BY <1>3 DEF Gate
    <2>2. Trying(r)' = Trying(r) \ {m}
      <3>1. AtStage(task[r][m], "persist").stage # "remote"
        BY <1>1, StageOfAtStage
      <3> QED
        BY <2>1, <3>1, TryingAfter, Zenon
    <2> QED
      BY <1>2, <2>1, <2>2, GateUndisturbed
  <1>4. CASE ~(RemoteOf(task[r][m]) = {} \/ (Blocked(r) /\ halfOpenUsed[r]))
    <2>1. task' = [task EXCEPT ![r][m] = AtStage(task[r][m], "remote")]
          /\ halfOpenUsed' = [halfOpenUsed EXCEPT ![r] = halfOpenUsed[r] \/ Blocked(r)]
      BY <1>4 DEF Gate
    <2>2. Trying(r)' = Trying(r) \cup {m}
      <3>1. AtStage(task[r][m], "remote").stage = "remote"
        BY <1>1, StageOfAtStage
      <3> QED
        BY <2>1, <3>1, TryingAfter, Zenon
    <2>3. CASE savedHealth >= GreaterOf(Threshold, 1) /\ Probing(r)
      <3>1. Blocked(r)
        BY <2>3, NumbersTyped DEF Probing, Blocked, Type
      <3>2. halfOpenUsed[r] = FALSE /\ halfOpenUsed'[r] = TRUE
        BY <1>4, <2>1, <3>1 DEF Type
      <3>3. roundFails[r] = 0 /\ Trying(r) = {}
        BY <2>3, <3>2 DEF Probing
      <3>4. \A n, k \in Trying(r)' : n = k
        BY <2>2, <3>3
      <3> QED
        BY <1>1, <1>2, <2>3, <3>2, <3>3, <3>4 DEF GateKept, Probing
    <2>4. CASE ~(savedHealth >= GreaterOf(Threshold, 1) /\ Probing(r))
      BY <1>1, <1>2, <2>4 DEF GateKept
    <2> QED
      BY <2>3, <2>4
  <1> QED
    BY <1>3, <1>4

(* The answer of the remote transport ends the probe or opens the route. *)
LEMMA RemoteRoute ==
  ASSUME Type, SnapshotOrTask, Capped, NEW r \in Runners, NEW m \in Ids, DeliverRemote(r, m), GateKept(r)
  PROVE  GateKept(r)'
  <1>1. m \in Live(r) /\ round[r] = "running" /\ task[r][m] \in Tasks /\ task[r][m].stage = "remote"
    BY LiveTask DEF DeliverRemote, SnapshotOrTask
  <1>2. UNCHANGED <<savedHealth, round, halfOpenUsed>>
    BY DEF DeliverRemote
  <1>3. PICK class \in {"ok", "transient", "permanent", "short"}, localFault \in BOOLEAN :
             RecordHealth(r, class, localFault)
    BY DEF DeliverRemote
  <1>4. \E c, accepted, at : task' = [task EXCEPT ![r][m] = AfterRemote(task[r][m], c, accepted, at)]
    BY DEF DeliverRemote
  <1>5. Trying(r)' = Trying(r) \ {m} /\ m \in Trying(r)
    <2>1. PICK c, accepted, at : task' = [task EXCEPT ![r][m] = AfterRemote(task[r][m], c, accepted, at)]
      BY <1>4, Zenon
    <2>2. AfterRemote(task[r][m], c, accepted, at).stage # "remote"
      BY <1>1, StageAfter, Zenon
    <2>3. Trying(r)' = Trying(r) \ {m}
      BY <2>1, <2>2, TryingAfter, Zenon
    <2> QED
      BY <1>1, <2>3 DEF Trying
  <1>6. \/ failures'[r] = 0 /\ roundFails'[r] = roundFails[r]
        \/ failures'[r] = LesserOf(failures[r] + 1, MaxFailures)
           /\ roundFails'[r] = LesserOf(roundFails[r] + 1, MaxFailures)
        \/ failures'[r] = failures[r] /\ roundFails'[r] = roundFails[r]
    BY <1>3 DEF RecordHealth, Type
  <1>7. /\ failures[r] \in Nat /\ roundFails[r] \in Nat /\ savedHealth \in Nat /\ MaxFailures \in Nat
        /\ failures[r] <= MaxFailures /\ savedHealth <= MaxFailures
    BY NumbersTyped DEF Type, Capped
  <1>8. CASE savedHealth >= GreaterOf(Threshold, 1)
    <2>1. CASE failures[r] <= roundFails[r]
      <3>1. failures'[r] <= roundFails'[r]
        BY <1>6, <1>7, <2>1
      <3> QED
        BY <1>1, <1>2, <3>1 DEF GateKept
    <2>2. CASE Probing(r)
      <3>1. roundFails[r] = 0 /\ halfOpenUsed[r] /\ failures[r] >= savedHealth /\ Trying(r)' = {}
        BY <1>5, <2>2 DEF Probing
      <3>2. failures'[r] <= roundFails'[r] \/ (failures'[r] >= savedHealth /\ roundFails'[r] <= 1)
        BY <1>6, <1>7, <3>1
      <3> QED
        BY <1>1, <1>2, <3>1, <3>2 DEF GateKept, Probing
    <2> QED
      BY <1>1, <1>8, <2>1, <2>2 DEF GateKept
  <1>9. CASE ~(savedHealth >= GreaterOf(Threshold, 1))
    BY <1>1, <1>2, <1>9 DEF GateKept
  <1> QED
    BY <1>8, <1>9

LEMMA CappedStep == Type /\ Capped /\ [Next]_vars => Capped'
  <1> SUFFICES ASSUME Type, Capped, [Next]_vars PROVE Capped'
    OBVIOUS
  <1>1. CASE UNCHANGED <<savedHealth, failures>>
    BY <1>1 DEF Capped
  <1>2. ASSUME NEW r \in Runners, EndRound(r) PROVE Capped'
    BY <1>2 DEF EndRound, Capped
  <1>3. ASSUME NEW r \in Runners, Restart(r) PROVE Capped'
    BY <1>3 DEF Restart, Capped, Type
  <1>4. ASSUME NEW r \in Runners, NEW m \in Ids, DeliverRemote(r, m) PROVE Capped'
    <2>1. PICK class, localFault : RecordHealth(r, class, localFault)
      BY <1>4 DEF DeliverRemote
    <2>2. savedHealth' = savedHealth
      BY <1>4 DEF DeliverRemote
    <2>3. \A q \in Runners : failures'[q] \in {0, failures[q], LesserOf(failures[q] + 1, MaxFailures)}
      BY <2>1 DEF RecordHealth, Type
    <2>4. ASSUME NEW q \in Runners PROVE failures'[q] <= MaxFailures
      <3>1. failures[q] \in Nat /\ failures[q] <= MaxFailures /\ MaxFailures \in Nat
        BY NumbersTyped DEF Capped, Type
      <3> QED
        BY <2>3, <3>1
    <2> QED
      BY <2>2, <2>4 DEF Capped
  <1>5. ASSUME NEW r \in Runners, NEW m \in Ids, TaskStep(r, m), ~DeliverRemote(r, m)
        PROVE  UNCHANGED <<savedHealth, failures>>
    BY <1>5, OtherTaskSteps DEF Gate, runner
  <1>6. ASSUME NEW r \in Runners, (\E m \in Ids : ClaimEntry(r, m)) \/ StartRound(r) \/ Crash(r) \/ Abort(r)
        PROVE  UNCHANGED <<savedHealth, failures>>
    BY <1>6 DEF ClaimEntry, StartRound, Crash, Abort, Stopped
  <1>7. ASSUME ConsoleStep PROVE UNCHANGED <<savedHealth, failures>>
    BY <1>7 DEF ConsoleStep, ConsoleFlush, ConsoleRetry, ConsoleRead, ConsoleWrite,
                ConsoleDelete, ConsoleUnlink, ConsoleFails, ConsoleDone, runner
  <1>8. ASSUME (\E m \in Ids, env \in Envelopes : Enqueue(m, env)) \/ Tick \/ UNCHANGED vars
        PROVE  UNCHANGED <<savedHealth, failures>>
    BY <1>8 DEF Enqueue, Tick, vars, runner
  <1> QED
    BY <1>1, <1>2, <1>3, <1>4, <1>5, <1>6, <1>7, <1>8 DEF Next, RunnerStep

LEMMA RouteStep == Type /\ SnapshotOrTask /\ RouteInv /\ [Next]_vars => RouteInv'
  <1> SUFFICES ASSUME Type, SnapshotOrTask, RouteInv, [Next]_vars, OneRunner, mishap'["health"] = 0,
                      NEW r \in Runners
               PROVE  GateKept(r)'
    BY CappedStep DEF RouteInv, OneRunner
  <1>1. GateKept(r) /\ Capped /\ ~Happens("health") /\ \A q \in Runners : q = r
    BY MishapsStay DEF RouteInv, Mishaps, OneRunner
  <1>2. ASSUME UNCHANGED <<task, savedHealth, runner>> PROVE GateKept(r)'
    <2>1. Trying(r)' = Trying(r)
      BY <1>2 DEF Trying
    <2> QED
      BY <1>1, <1>2, <2>1, GateUndisturbed DEF runner
  <1>3. CASE StartRound(r)
    <2>1. /\ failures[r] = savedHealth /\ UNCHANGED <<failures, savedHealth, task>>
          /\ roundFails'[r] = 0 /\ halfOpenUsed'[r] = FALSE /\ round'[r] = "running"
      BY <1>1, <1>3 DEF StartRound, GateKept, Type
    <2>2. Trying(r)' = {}
      BY <1>3, <2>1 DEF Trying, StartRound, SnapshotOrTask, Live
    <2>3. failures[r] \in Nat
      BY DEF Type
    <2> QED
      BY <2>1, <2>2, <2>3 DEF GateKept, Probing
  <1>4. CASE EndRound(r)
    BY <1>1, <1>4 DEF EndRound, GateKept, Type
  <1>5. CASE Restart(r)
    BY <1>5 DEF Restart, GateKept, Type
  <1>6. CASE \E m \in Ids : ClaimEntry(r, m)
    <2>1. PICK m \in Ids : ClaimEntry(r, m)
      BY <1>6
    <2>2. UNCHANGED <<savedHealth, round, failures, roundFails, halfOpenUsed>>
      BY <2>1 DEF ClaimEntry
    <2>3. Trying(r)' \subseteq Trying(r)
      BY <2>1 DEF ClaimEntry, Trying, Spawned, Type
    <2> QED
      BY <1>1, <2>2, <2>3, GateUndisturbed
  <1>7. CASE \E m \in Ids : TaskStep(r, m)
    <2>1. PICK m \in Ids : TaskStep(r, m)
      BY <1>7
    <2>2. CASE ~Gate(r, m) /\ ~DeliverRemote(r, m)
      <3>1. Trying(r)' \subseteq Trying(r) /\ UNCHANGED <<savedHealth, runner>>
        BY <2>1, <2>2, OtherTaskSteps
      <3> QED
        BY <1>1, <3>1, GateUndisturbed DEF runner
    <2> QED
      BY <1>1, <2>2, GateRoute, RemoteRoute
  <1>8. CASE Stopped(r) /\ UNCHANGED savedHealth
    <2>1. /\ round'[r] = "down" /\ UNCHANGED <<failures, roundFails, halfOpenUsed, savedHealth>>
          /\ Trying(r)' = {}
      BY <1>8 DEF Stopped, Trying, NoTask, Type
    <2> QED
      BY <1>1, <2>1 DEF GateKept, Probing
  <1>9. ASSUME ConsoleStep PROVE UNCHANGED <<task, savedHealth, runner>>
    BY <1>9 DEF ConsoleStep, ConsoleFlush, ConsoleRetry, ConsoleRead, ConsoleWrite,
                ConsoleDelete, ConsoleUnlink, ConsoleFails, ConsoleDone
  <1>10. ASSUME (\E m \in Ids, env \in Envelopes : Enqueue(m, env)) \/ Tick \/ UNCHANGED vars
         PROVE  UNCHANGED <<task, savedHealth, runner>>
    BY <1>10 DEF Enqueue, Tick, vars
  <1> QED
    BY <1>1, <1>2, <1>3, <1>4, <1>5, <1>6, <1>7, <1>8, <1>9, <1>10 DEF Next, RunnerStep, Crash, Abort

(* A blocked route sees one failing attempt per round, with any number of  *)
(* entries, permits, kills and aborted rounds (may_attempt_remote,         *)
(* record_remote_failure, save_health).                                    *)
THEOREM RouteAlwaysSpared == Spec => []RouteSpared
  <1>1. Type /\ SnapshotOrTask /\ [Next]_vars => SnapshotOrTask'
    BY SnapshotStep
  <1>2. Type /\ SnapshotOrTask /\ RouteInv /\ [Next]_vars => RouteInv'
    BY RouteStep
  <1>3. Type /\ RouteInv => RouteSpared
    BY NumbersTyped DEF Type, RouteInv, RouteSpared, GateKept, Probing
  <1> QED
    BY <1>1, <1>2, <1>3, InitSnapshotOrTask, InitRoute, TypeCorrect, PTL DEF Spec
=============================================================================
