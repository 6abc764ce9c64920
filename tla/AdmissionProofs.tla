-------------------------- MODULE AdmissionProofs --------------------------
(***************************************************************************)
(* What the door of mailstackd guarantees for every number of listeners,   *)
(* addresses and connections, for every limit, and however often the clock *)
(* is set back, the ban file damaged and the daemon stopped and started.   *)
(***************************************************************************)
EXTENDS Admission, TLAPS, FiniteSetTheorems

-----------------------------------------------------------------------------
(* The inductive invariant, in named parts *)

Blaming == \A c \in Conns : conn[c] # Idle /\ conn[c].stage = "blame" => conn[c].blame >= 1

\* The counters, the tasks and the bounds have their types.  Connections are
\* finitely many because each was accepted.
DoorType ==
    /\ active \in [Listeners -> [Peers -> Nat]]
    /\ permits \in [Listeners -> Nat]
    /\ conn \in [Conns -> Tasks \cup {Idle}]
    /\ budget \in Budgets
    /\ up \in {"run", "drain", "down"}
    /\ Blaming

\* The clock may run behind the latest time there has been, never ahead.
Clocked == now \in Times /\ latest \in Times /\ now <= latest

\* What a peer has been let in since it has its bucket, and what is left in
\* it, is covered by the burst and the time its refills have counted.  A peer
\* without a bucket starts anew.
Metered ==
    /\ allowed \in [Peers -> Nat]
    /\ DOMAIN buckets \subseteq Peers
    /\ \A p \in DOMAIN buckets :
          /\ buckets[p] \in Bucket(Times)
          /\ buckets[p].last <= latest
          /\ allowed[p] + buckets[p].tokens <= Burst + buckets[p].last
    /\ \A p \in Peers \ DOMAIN buckets : allowed[p] = 0

\* An entry of the ban table has its fields, and a manual ban is permanent.
\* (What the failures are does not matter to the bans that stand.)
Shaped(e) ==
    /\ e = [failures |-> e.failures, strikes |-> e.strikes, permanent |-> e.permanent,
            until |-> e.until, manual |-> e.manual, seen |-> e.seen]
    /\ e.strikes \in Nat /\ e.until \in Int
    /\ e.permanent \in BOOLEAN /\ e.manual \in BOOLEAN
    /\ e.manual = TRUE => e.permanent = TRUE

\* The manual bans of the table are the last list that was read, and the
\* reloader knows whether it was empty.
Listed ==
    /\ DOMAIN entries \subseteq Peers
    /\ \A p \in DOMAIN entries : Shaped(entries[p])
    /\ ManualKeys(entries) = loaded
    /\ hadEntries \in BOOLEAN
    /\ hadEntries = FALSE => loaded = {}
    /\ file \in {Absent, Corrupt} \cup {FileWith(list) : list \in SUBSET Ips}

\* The tables and the ban file are finite; so their sizes are numbers.
Counted ==
    /\ IsFiniteSet(DOMAIN entries) /\ IsFiniteSet(DOMAIN buckets)
    /\ IsFiniteSet(KeysOf(file.list))
    /\ TablesBounded

SlotsInv == DoorType /\ IsFiniteSet(Busy) /\ SlotsConserved

-----------------------------------------------------------------------------
(* Slots and permits *)

LEMMA TaskIsNotIdle == \A t \in Tasks : t # Idle
  BY DEF Tasks, Idle

\* A step that moves tasks along leaves every slot with its holder.
LEMMA SameHolders ==
  ASSUME conn \in [Conns -> Tasks \cup {Idle}], conn' \in [Conns -> Tasks \cup {Idle}],
         \A d \in Conns : conn'[d] = Idle <=> conn[d] = Idle,
         \A d \in Conns : conn[d] # Idle => conn'[d].l = conn[d].l /\ conn'[d].ip = conn[d].ip
  PROVE  /\ Busy' = Busy
         /\ \A l \in Listeners : Held(l)' = Held(l)
         /\ \A l \in Listeners, p \in Peers : HeldFor(l, p)' = HeldFor(l, p)
  <1>1. Busy' = Busy
    BY DEF Busy
  <1>2. \A l \in Listeners : Held(l)' = Held(l)
    BY <1>1 DEF Held, Busy
  <1>3. \A l \in Listeners, p \in Peers : HeldFor(l, p)' = HeldFor(l, p)
    BY <1>2 DEF HeldFor, Held, Busy, Peer
  <1> QED
    BY <1>1, <1>2, <1>3

\* Every step of a task that does not end it keeps its listener and address.
LEMMA TaskMoves ==
  ASSUME SlotsInv, NEW c \in Conns, CheckBan(c) \/ CheckRate(c) \/ Blame(c) \/ Handshake(c) \/ Serve(c)
  PROVE  /\ conn' \in [Conns -> Tasks \cup {Idle}]
         /\ \A d \in Conns : conn'[d] = Idle <=> conn[d] = Idle
         /\ \A d \in Conns : conn[d] # Idle => conn'[d].l = conn[d].l /\ conn'[d].ip = conn[d].ip
         /\ Blaming'
         /\ UNCHANGED <<active, permits, budget, up>>
  <1>1. conn \in [Conns -> Tasks \cup {Idle}] /\ Blaming
    BY DEF SlotsInv, DoorType
  <1>2. conn[c] \in Tasks
    BY <1>1 DEF CheckBan, CheckRate, Blame, Handshake, Serve, At
  <1>3. PICK s, b : conn' = [conn EXCEPT ![c] = [conn[c] EXCEPT !.stage = s, !.blame = b]]
                    /\ s \in {"check", "rate", "handshake", "serve", "upgrade", "blame", "close"}
                    /\ b \in 0..AuthFailures /\ (s = "blame" => b >= 1)
    <2>1. CASE CheckBan(c)
      <3>1. conn' = [conn EXCEPT ![c] = [conn[c] EXCEPT !.stage = conn'[c].stage, !.blame = conn[c].blame]]
        BY <2>1, <1>1, <1>2 DEF CheckBan, Move, Tasks
      <3>2. conn'[c].stage \in {"close", "rate"}
        BY <2>1, <1>1, <1>2 DEF CheckBan, Move, Tasks
      <3> QED
        BY <3>1, <3>2, <1>2 DEF Tasks
    <2>2. CASE CheckRate(c)
      <3>1. \/ \E s \in {"handshake", "serve"} : Move(c, s)
            \/ MoveToBlame(c, 1)
        BY <2>2 DEF CheckRate, AfterAdmit
      <3>2. CASE \E s \in {"handshake", "serve"} : Move(c, s)
        <4>1. PICK s \in {"handshake", "serve"} : Move(c, s)
          BY <3>2
        <4>2. conn' = [conn EXCEPT ![c] = [conn[c] EXCEPT !.stage = s, !.blame = conn[c].blame]]
          BY <4>1, <1>1, <1>2 DEF Move, Tasks
        <4> QED
          BY <4>2, <1>2 DEF Tasks
      <3>3. CASE MoveToBlame(c, 1)
        <4>1. conn' = [conn EXCEPT ![c] = [conn[c] EXCEPT !.stage = "blame", !.blame = 1]]
          BY <3>3, <1>1, <1>2 DEF MoveToBlame, Tasks
        <4>2. 1 \in 0..AuthFailures /\ 1 >= 1
          BY ConstantsAssumption DEF ConstantsOK
        <4> QED
          BY <4>1, <4>2
      <3> QED
        BY <3>1, <3>2, <3>3
    <2>3. CASE Blame(c)
      <3>1. conn[c].blame \in 1..AuthFailures /\ AuthFailures \in Nat
        BY <2>3, <1>1, <1>2, ConstantsAssumption DEF Blame, At, Blaming, Tasks, ConstantsOK
      <3>2. conn' = [conn EXCEPT ![c] = [conn[c] EXCEPT !.stage = IF conn[c].blame = 1 THEN "close" ELSE "blame",
                                                        !.blame = conn[c].blame - 1]]
        BY <2>3, <1>1, <1>2 DEF Blame, Tasks
      <3>3. /\ conn[c].blame - 1 \in 0..AuthFailures
            /\ conn[c].blame # 1 => conn[c].blame - 1 >= 1
        BY <3>1
      <3>4. (IF conn[c].blame = 1 THEN "close" ELSE "blame") \in {"close", "blame"}
            /\ ((IF conn[c].blame = 1 THEN "close" ELSE "blame") = "blame" => conn[c].blame # 1)
        OBVIOUS
      <3> QED
        BY <3>2, <3>3, <3>4
    <2>4. CASE Handshake(c)
      <3>1. PICK s \in {"serve", "close"} : Move(c, s)
        BY <2>4 DEF Handshake
      <3>2. conn' = [conn EXCEPT ![c] = [conn[c] EXCEPT !.stage = s, !.blame = conn[c].blame]]
        BY <3>1, <1>1, <1>2 DEF Move, Tasks
      <3> QED
        BY <3>2, <1>2 DEF Tasks
    <2>5. CASE Serve(c)
      <3>1. \/ \E s \in {"close", "upgrade"} : Move(c, s)
            \/ \E b \in {1, AuthFailures} : MoveToBlame(c, b)
        BY <2>5 DEF Serve
      <3>2. CASE \E s \in {"close", "upgrade"} : Move(c, s)
        <4>1. PICK s \in {"close", "upgrade"} : Move(c, s)
          BY <3>2
        <4>2. conn' = [conn EXCEPT ![c] = [conn[c] EXCEPT !.stage = s, !.blame = conn[c].blame]]
          BY <4>1, <1>1, <1>2 DEF Move, Tasks
        <4> QED
          BY <4>2, <1>2 DEF Tasks
      <3>3. CASE \E b \in {1, AuthFailures} : MoveToBlame(c, b)
        <4>1. PICK b \in {1, AuthFailures} : MoveToBlame(c, b)
          BY <3>3
        <4>2. conn' = [conn EXCEPT ![c] = [conn[c] EXCEPT !.stage = "blame", !.blame = b]]
          BY <4>1, <1>1, <1>2 DEF MoveToBlame, Tasks
        <4>3. b \in 1..AuthFailures
          BY ConstantsAssumption DEF ConstantsOK
        <4>4. b \in 0..AuthFailures /\ b >= 1
          BY <4>3
        <4> QED
          BY <4>2, <4>4
      <3> QED
        BY <3>1, <3>2, <3>3
    <2> QED
      BY <2>1, <2>2, <2>3, <2>4, <2>5
  <1>4. conn'[c] \in Tasks /\ conn'[c].l = conn[c].l /\ conn'[c].ip = conn[c].ip
        /\ conn'[c].stage = s /\ conn'[c].blame = b
    BY <1>1, <1>2, <1>3 DEF Tasks
  <1>5. \A d \in Conns \ {c} : conn'[d] = conn[d]
    BY <1>1, <1>3
  <1>6. conn' \in [Conns -> Tasks \cup {Idle}]
    BY <1>1, <1>3, <1>4, <1>5
  <1>7. Blaming'
    BY <1>1, <1>3, <1>4, <1>5 DEF Blaming
  <1>8. UNCHANGED <<active, permits, budget, up>>
    BY DEF CheckBan, CheckRate, Blame, Handshake, Serve, slots
  <1> QED
    BY <1>2, <1>4, <1>5, <1>6, <1>7, <1>8, TaskIsNotIdle

\* A task that ends gives its slot and its permit back.
LEMMA CloseReleases ==
  ASSUME SlotsInv, NEW c \in Conns, Close(c)
  PROVE  SlotsInv'
  <1> DEFINE L == conn[c].l
  <1> DEFINE P == Peer(c)
  <1>1. conn \in [Conns -> Tasks \cup {Idle}] /\ Blaming /\ conn[c] \in Tasks
    BY DEF SlotsInv, DoorType, Close, At
  <1>2. L \in Listeners /\ P \in Peers
    BY <1>1, ConstantsAssumption DEF Tasks, Peer, ConstantsOK
  <1>3. conn' = [conn EXCEPT ![c] = Idle]
    BY DEF Close
  <1>4. Busy' = Busy \ {c} /\ c \in Busy
    BY <1>1, <1>3, TaskIsNotIdle DEF Busy
  <1>5. \A l \in Listeners : Held(l)' = Held(l) \ {c}
    BY <1>3, <1>4, <1>1 DEF Held, Busy
  <1>6. \A l \in Listeners, p \in Peers : HeldFor(l, p)' = HeldFor(l, p) \ {c}
    BY <1>3, <1>5, <1>1 DEF HeldFor, Held, Busy, Peer
  <1>7. \A l \in Listeners : (c \in Held(l) <=> l = L)
    BY <1>4 DEF Held
  <1>8. \A l \in Listeners, p \in Peers : (c \in HeldFor(l, p) <=> l = L /\ p = P)
    BY <1>7 DEF HeldFor
  <1>9. IsFiniteSet(Busy) /\ IsFiniteSet(Busy')
    BY <1>4, FS_RemoveElement DEF SlotsInv
  <1>10. \A l \in Listeners : IsFiniteSet(Held(l)) /\ \A p \in Peers : IsFiniteSet(HeldFor(l, p))
    BY <1>9, FS_Subset DEF Held, HeldFor
  <1>11. \A l \in Listeners : Cardinality(Held(l)') = IF l = L THEN Cardinality(Held(l)) - 1 ELSE Cardinality(Held(l))
    BY <1>5, <1>7, <1>10, FS_RemoveElement
  <1>12. \A l \in Listeners, p \in Peers :
            Cardinality(HeldFor(l, p)') = IF l = L /\ p = P THEN Cardinality(HeldFor(l, p)) - 1
                                          ELSE Cardinality(HeldFor(l, p))
    BY <1>6, <1>8, <1>10, FS_RemoveElement
  <1>13. permits' = [permits EXCEPT ![L] = permits[L] + 1] /\ active' = [active EXCEPT ![L][P] = active[L][P] - 1]
    BY DEF Close, Released
  <1>14. active[L][P] >= 1
    <2>1. Cardinality(HeldFor(L, P)) # 0
      BY <1>2, <1>8, <1>10, FS_EmptySet
    <2>2. active[L][P] = Cardinality(HeldFor(L, P)) /\ active[L][P] \in Nat
      BY <1>2 DEF SlotsInv, SlotsConserved, DoorType
    <2> QED
      BY <2>1, <2>2
  <1> HIDE DEF L, P
  <1>15. permits' \in [Listeners -> Nat] /\ \A l \in Listeners : permits'[l] = IF l = L THEN permits[l] + 1 ELSE permits[l]
    BY <1>13, <1>2 DEF SlotsInv, DoorType
  <1>16. active' \in [Listeners -> [Peers -> Nat]]
         /\ \A l \in Listeners, p \in Peers : active'[l][p] = IF l = L /\ p = P THEN active[l][p] - 1 ELSE active[l][p]
    BY <1>13, <1>14, <1>2 DEF SlotsInv, DoorType
  <1>17. \A l \in Listeners : permits[l] \in Nat /\ \A p \in Peers : active[l][p] \in Nat
    BY DEF SlotsInv, DoorType
  <1>18. SlotsConserved'
    <2>1. \A l \in Listeners : permits'[l] + Cardinality(Held(l)') = MaxConnections
      <3>1. SUFFICES ASSUME NEW l \in Listeners PROVE permits'[l] + Cardinality(Held(l)') = MaxConnections
        OBVIOUS
      <3>2. Cardinality(Held(l)) \in Nat
        BY <1>10, FS_CardinalityType
      <3>3. permits[l] + Cardinality(Held(l)) = MaxConnections
        BY DEF SlotsInv, SlotsConserved
      <3> QED
        BY <1>11, <1>15, <1>17, <3>2, <3>3
    <2>2. \A l \in Listeners, p \in Peers : active'[l][p] = Cardinality(HeldFor(l, p)') /\ active'[l][p] <= MaxPerPeer
      <3>1. SUFFICES ASSUME NEW l \in Listeners, NEW p \in Peers
                     PROVE  active'[l][p] = Cardinality(HeldFor(l, p)') /\ active'[l][p] <= MaxPerPeer
        OBVIOUS
      <3>2. active[l][p] = Cardinality(HeldFor(l, p)) /\ active[l][p] <= MaxPerPeer
        BY DEF SlotsInv, SlotsConserved
      <3>3. MaxPerPeer \in Nat
        BY ConstantsAssumption DEF ConstantsOK
      <3> QED
        BY <1>12, <1>16, <1>17, <3>2, <3>3
    <2> QED
      BY <2>1, <2>2 DEF SlotsConserved
  <1>19. DoorType'
    <2>1. conn' \in [Conns -> Tasks \cup {Idle}] /\ Blaming'
      BY <1>1, <1>3 DEF Blaming
    <2>2. budget' = budget /\ up' = up
      BY DEF Close
    <2> QED
      BY <2>1, <2>2, <1>15, <1>16 DEF DoorType, SlotsInv
  <1> QED
    BY <1>9, <1>18, <1>19 DEF SlotsInv

\* What neither starts, moves nor ends a task keeps every slot.
LEMMA SlotsKept ==
  ASSUME SlotsInv, UNCHANGED <<conn, active, permits>>,
         budget' \in Budgets, up' \in {"run", "drain", "down"}
  PROVE  SlotsInv'
  <1>1. Busy' = Busy
    BY DEF Busy
  <1>2. \A l \in Listeners : Held(l)' = Held(l)
    BY <1>1 DEF Held
  <1>3. \A l \in Listeners, p \in Peers : HeldFor(l, p)' = HeldFor(l, p)
    BY <1>2 DEF HeldFor, Peer
  <1>4. SlotsConserved'
    BY <1>2, <1>3 DEF SlotsInv, SlotsConserved
  <1>5. DoorType'
    BY DEF SlotsInv, DoorType, Blaming
  <1> QED
    BY <1>1, <1>4, <1>5 DEF SlotsInv

\* A connection that is accepted takes a slot of its peer and a permit; one
\* that is refused for want of a permit leaves both as they were.
LEMMA AcceptTakes ==
  ASSUME SlotsInv, NEW L \in Listeners, NEW ip \in Ips, NEW c \in Conns, Accept(L, ip, c)
  PROVE  SlotsInv'
  <1> DEFINE P == Key[ip]
  <1>1. conn \in [Conns -> Tasks \cup {Idle}] /\ Blaming /\ conn[c] = Idle
    BY DEF SlotsInv, DoorType, Accept
  <1>2. P \in Peers
    BY ConstantsAssumption DEF ConstantsOK
  <1>3. budget' = budget /\ up' = up
    BY DEF Accept
  <1>4. CASE permits[L] = 0 /\ Overload(L, P)
    <2>1. UNCHANGED <<active, permits, conn>>
      BY <1>4 DEF Overload
    <2>2. budget' \in Budgets /\ up' \in {"run", "drain", "down"}
      BY <1>3 DEF SlotsInv, DoorType
    <2> QED
      BY <2>1, <2>2, SlotsKept
  <1>5. CASE /\ permits[L] > 0
             /\ active'  = [active EXCEPT ![L][P] = @ + 1]
             /\ permits' = [permits EXCEPT ![L] = @ - 1]
             /\ conn'    = [conn EXCEPT ![c] = Task(L, ip, "check", 0)]
    <2>1. Task(L, ip, "check", 0) \in Tasks
      BY ConstantsAssumption DEF Task, Tasks, ConstantsOK
    <2>2. conn' \in [Conns -> Tasks \cup {Idle}] /\ conn'[c] = Task(L, ip, "check", 0)
          /\ \A d \in Conns \ {c} : conn'[d] = conn[d]
      BY <2>1, <1>1, <1>5
    <2>3. conn'[c] # Idle /\ conn'[c].l = L /\ conn'[c].ip = ip /\ conn'[c].stage = "check"
      BY <2>1, <2>2, TaskIsNotIdle DEF Task
    <2>4. Busy' = Busy \cup {c} /\ c \notin Busy
      BY <1>1, <2>2, <2>3 DEF Busy
    <2>5. \A l \in Listeners : Held(l)' = IF l = L THEN Held(l) \cup {c} ELSE Held(l)
      BY <2>2, <2>3, <2>4 DEF Held, Busy
    <2>6. \A l \in Listeners, p \in Peers :
             HeldFor(l, p)' = IF l = L /\ p = P THEN HeldFor(l, p) \cup {c} ELSE HeldFor(l, p)
      BY <2>2, <2>3, <2>4, <2>5 DEF HeldFor, Held, Busy, Peer
    <2>7. \A l \in Listeners, p \in Peers : c \notin Held(l) /\ c \notin HeldFor(l, p)
      BY <2>4 DEF Held, HeldFor
    <2>8. IsFiniteSet(Busy) /\ IsFiniteSet(Busy')
      BY <2>4, FS_AddElement DEF SlotsInv
    <2>9. \A l \in Listeners : IsFiniteSet(Held(l)) /\ \A p \in Peers : IsFiniteSet(HeldFor(l, p))
      BY <2>8, FS_Subset DEF Held, HeldFor
    <2> HIDE DEF P
    <2>10. \A l \in Listeners : permits[l] \in Nat /\ \A p \in Peers : active[l][p] \in Nat
      BY DEF SlotsInv, DoorType
    <2>11. permits' \in [Listeners -> Nat]
           /\ \A l \in Listeners : permits'[l] = IF l = L THEN permits[l] - 1 ELSE permits[l]
      BY <1>5, <2>10 DEF SlotsInv, DoorType
    <2>0. active' = [active EXCEPT ![L][P] = active[L][P] + 1]
      BY <1>5
    <2>12. active' \in [Listeners -> [Peers -> Nat]]
           /\ \A l \in Listeners, p \in Peers : active'[l][p] = IF l = L /\ p = P THEN active[l][p] + 1 ELSE active[l][p]
      BY <1>2, <2>0, <2>10 DEF SlotsInv, DoorType
    <2>13. \A l \in Listeners : permits'[l] + Cardinality(Held(l)') = MaxConnections
      <3>1. SUFFICES ASSUME NEW l \in Listeners PROVE permits'[l] + Cardinality(Held(l)') = MaxConnections
        OBVIOUS
      <3>2. Cardinality(Held(l)) \in Nat
        BY <2>9, FS_CardinalityType
      <3>3. permits[l] + Cardinality(Held(l)) = MaxConnections
        BY DEF SlotsInv, SlotsConserved
      <3>4. Cardinality(Held(l)') = IF l = L THEN Cardinality(Held(l)) + 1 ELSE Cardinality(Held(l))
        <4>1. l = L => Cardinality(Held(l) \cup {c}) = Cardinality(Held(l)) + 1
          BY <2>7, <2>9, <1>2, FS_AddElement
        <4> QED
          BY <4>1, <2>5
      <3> QED
        BY <2>10, <2>11, <3>2, <3>3, <3>4
    <2>14. \A l \in Listeners, p \in Peers : active'[l][p] = Cardinality(HeldFor(l, p)') /\ active'[l][p] <= MaxPerPeer
      <3>1. SUFFICES ASSUME NEW l \in Listeners, NEW p \in Peers
                     PROVE  active'[l][p] = Cardinality(HeldFor(l, p)') /\ active'[l][p] <= MaxPerPeer
        OBVIOUS
      <3>2. active[l][p] = Cardinality(HeldFor(l, p)) /\ active[l][p] <= MaxPerPeer
        BY DEF SlotsInv, SlotsConserved
      <3>3. MaxPerPeer \in Nat /\ active[L][P] < MaxPerPeer
        BY ConstantsAssumption DEF ConstantsOK, Accept, P
      <3>4. Cardinality(HeldFor(l, p)') = IF l = L /\ p = P THEN Cardinality(HeldFor(l, p)) + 1
                                          ELSE Cardinality(HeldFor(l, p))
        <4>1. Cardinality(HeldFor(l, p) \cup {c}) = Cardinality(HeldFor(l, p)) + 1
          BY <2>7, <2>9, FS_AddElement
        <4> QED
          BY <4>1, <2>6
      <3> QED
        BY <2>10, <2>12, <3>2, <3>3, <3>4
    <2>15. SlotsConserved'
      BY <2>13, <2>14 DEF SlotsConserved
    <2>16. DoorType'
      <3>1. Blaming'
        BY <1>1, <2>2, <2>3 DEF Blaming
      <3> QED
        BY <3>1, <1>3, <2>2, <2>11, <2>12 DEF DoorType, SlotsInv
    <2> QED
      BY <2>8, <2>15, <2>16 DEF SlotsInv
  <1> QED
    BY <1>4, <1>5 DEF Accept

\* The end of the grace period, and the first state: no tasks, all permits.
LEMMA AllFree ==
  ASSUME conn = [c \in Conns |-> Idle],
         active = [l \in Listeners |-> [p \in Peers |-> 0]],
         permits = [l \in Listeners |-> MaxConnections],
         budget \in Budgets, up \in {"run", "drain", "down"}
  PROVE  SlotsInv
  <1>1. Busy = {}
    BY DEF Busy
  <1>2. \A l \in Listeners : Held(l) = {} /\ \A p \in Peers : HeldFor(l, p) = {}
    BY <1>1 DEF Held, HeldFor
  <1>3. MaxConnections \in Nat /\ MaxPerPeer \in Nat
    BY ConstantsAssumption DEF ConstantsOK
  <1>4. SlotsConserved
    BY <1>2, <1>3, FS_EmptySet DEF SlotsConserved
  <1>5. DoorType
    BY <1>3 DEF DoorType, Blaming
  <1> QED
    BY <1>1, <1>4, <1>5, FS_EmptySet DEF SlotsInv

LEMMA SlotsInit == Init => SlotsInv
  <1>1. ASSUME Init PROVE budget \in Budgets /\ up \in {"run", "drain", "down"}
    BY <1>1, ConstantsAssumption DEF Init, ConstantsOK
  <1> QED
    BY <1>1, AllFree DEF Init

LEMMA SlotsStep == SlotsInv /\ [Next]_vars => SlotsInv'
  <1> SUFFICES ASSUME SlotsInv, [Next]_vars PROVE SlotsInv'
    OBVIOUS
  <1>1. budget \in Budgets /\ up \in {"run", "drain", "down"}
    BY DEF SlotsInv, DoorType
  <1>2. ASSUME NEW l \in Listeners, NEW ip \in Ips, NEW c \in Conns, Accept(l, ip, c) PROVE SlotsInv'
    BY <1>2, AcceptTakes
  <1>3. ASSUME NEW c \in Conns, Step(c) PROVE SlotsInv'
    <2>1. CASE Close(c)
      BY <2>1, CloseReleases
    <2>2. CASE CheckBan(c) \/ CheckRate(c) \/ Blame(c) \/ Handshake(c) \/ Serve(c)
      <3>1. conn \in [Conns -> Tasks \cup {Idle}]
        BY DEF SlotsInv, DoorType
      <3>2. /\ conn' \in [Conns -> Tasks \cup {Idle}]
            /\ \A d \in Conns : conn'[d] = Idle <=> conn[d] = Idle
            /\ \A d \in Conns : conn[d] # Idle => conn'[d].l = conn[d].l /\ conn'[d].ip = conn[d].ip
            /\ Blaming'
            /\ UNCHANGED <<active, permits, budget, up>>
        BY <2>2, TaskMoves
      <3>3. /\ Busy' = Busy
            /\ \A l \in Listeners : Held(l)' = Held(l)
            /\ \A l \in Listeners, p \in Peers : HeldFor(l, p)' = HeldFor(l, p)
        BY <3>1, <3>2, SameHolders
      <3>4. SlotsConserved'
        BY <3>2, <3>3 DEF SlotsConserved, SlotsInv
      <3> QED
        BY <3>2, <3>3, <3>4 DEF SlotsInv, DoorType
    <2> QED
      BY <1>3, <2>1, <2>2 DEF Step
  <1>4. CASE Stop
    <2>1. budget' \in Budgets /\ up' \in {"run", "drain", "down"}
      BY <1>1, <1>4 DEF Stop
    <2>2. /\ conn' = [c \in Conns |-> Idle]
          /\ active' = [l \in Listeners |-> [p \in Peers |-> 0]]
          /\ permits' = [l \in Listeners |-> MaxConnections]
      BY <1>4 DEF Stop
    <2>3. Busy' = {}
      BY <2>2 DEF Busy
    <2>4. \A l \in Listeners : Held(l)' = {} /\ \A p \in Peers : HeldFor(l, p)' = {}
      BY <2>3 DEF Held, HeldFor
    <2>5. MaxConnections \in Nat /\ MaxPerPeer \in Nat
      BY ConstantsAssumption DEF ConstantsOK
    <2>6. SlotsConserved'
      BY <2>2, <2>4, <2>5, FS_EmptySet DEF SlotsConserved
    <2>7. DoorType'
      BY <2>1, <2>2, <2>5 DEF DoorType, Blaming
    <2> QED
      BY <2>3, <2>6, <2>7, FS_EmptySet DEF SlotsInv
  <1>5. CASE \/ \E ip \in Ips : SecurityBan(ip) \/ SecurityUnban(ip)
             \/ FileDamaged \/ Reload \/ Shutdown \/ Restart \/ Tick \/ SetBack \/ UNCHANGED vars
    <2>1. UNCHANGED <<conn, active, permits>>
      BY <1>5 DEF SecurityBan, SecurityUnban, Order, FileDamaged, Reload, Shutdown, Restart, Tick, SetBack, vars, slots
    <2>2. up' \in {"run", "drain", "down"}
      BY <1>1, <1>5 DEF SecurityBan, SecurityUnban, Order, FileDamaged, Reload, Shutdown, Restart, Tick, SetBack, vars
    <2>3. budget' \in Budgets
      <3>1. CASE budget' = budget
        BY <3>1, <1>1
      <3>2. CASE budget.order > 0 /\ budget' = [budget EXCEPT !.order = @ - 1]
        BY <3>2, <1>1 DEF Budgets
      <3>3. CASE budget.fault > 0 /\ budget' = [budget EXCEPT !.fault = @ - 1]
        BY <3>3, <1>1 DEF Budgets
      <3>4. CASE budget.restart > 0 /\ budget' = [budget EXCEPT !.restart = @ - 1]
        BY <3>4, <1>1 DEF Budgets
      <3>5. CASE budget.back > 0 /\ budget' = [budget EXCEPT !.back = @ - 1]
        BY <3>5, <1>1 DEF Budgets
      <3> QED
        BY <1>5, <3>1, <3>2, <3>3, <3>4, <3>5
           DEF SecurityBan, SecurityUnban, Order, FileDamaged, Reload, Shutdown, Restart, Tick, SetBack, vars
    <2> QED
      BY <2>1, <2>2, <2>3, SlotsKept
  <1> QED
    BY <1>2, <1>3, <1>4, <1>5 DEF Next

\* Slots and permits are conserved along every path of the accept loop, every
\* end of a task and the abort at shutdown, for any number of connections.
THEOREM SlotsAlwaysConserved == Spec => []SlotsConserved
  <1>1. SlotsInv => SlotsConserved
    BY DEF SlotsInv
  <1> QED
    BY <1>1, SlotsInit, SlotsStep, PTL DEF Spec

-----------------------------------------------------------------------------
(* The rate limiter *)

LEMMA MinOfTwo ==
  ASSUME NEW a \in Int, NEW b \in Int
  PROVE  Min({a, b}) = IF a <= b THEN a ELSE b
  <1>1. \E x \in {a, b} : \A y \in {a, b} : x <= y
    OBVIOUS
  <1>2. Min({a, b}) \in {a, b} /\ \A y \in {a, b} : Min({a, b}) <= y
    BY <1>1 DEF Min
  <1> QED
    BY <1>2

LEMMA MaxOfTwo ==
  ASSUME NEW a \in Int, NEW b \in Int
  PROVE  Max({a, b}) = IF a >= b THEN a ELSE b
  <1>1. \E x \in {a, b} : \A y \in {a, b} : x >= y
    OBVIOUS
  <1>2. Max({a, b}) \in {a, b} /\ \A y \in {a, b} : Max({a, b}) >= y
    BY <1>1 DEF Max
  <1> QED
    BY <1>2

\* A refill adds no more tokens than time has passed, and none when the clock
\* runs behind the bucket.
LEMMA RefillBounded ==
  ASSUME NEW b \in Bucket(Times), NEW t \in Times
  PROVE  /\ Refilled(b, t) \in Bucket(Times)
         /\ Refilled(b, t).tokens - Refilled(b, t).last <= b.tokens - b.last
         /\ Refilled(b, t).last \in {t, b.last}
  <1>0. Burst \in Nat /\ MaxNow \in Nat
    BY ConstantsAssumption DEF ConstantsOK
  <1>1. b.tokens \in 0..Burst /\ b.last \in 0..MaxNow /\ t \in 0..MaxNow
    BY DEF Bucket, Times
  <1>2. CASE t > b.last
    <2> DEFINE n == Min({b.tokens + (t - b.last), Burst})
    <2>1. n \in 0..Burst /\ n <= b.tokens + (t - b.last)
      BY <1>0, <1>1, <1>2, MinOfTwo
    <2>2. Refilled(b, t) = [tokens |-> n, last |-> t]
      BY <1>2 DEF Refilled
    <2> HIDE DEF n
    <2>3. Refilled(b, t).tokens = n /\ Refilled(b, t).last = t
      BY <2>2
    <2>4. Refilled(b, t) \in Bucket(Times)
      BY <2>1, <2>2 DEF Bucket
    <2> QED
      BY <1>0, <1>1, <2>1, <2>3, <2>4
  <1>3. CASE ~(t > b.last)
    BY <1>0, <1>1, <1>3 DEF Refilled
  <1> QED
    BY <1>2, <1>3

\* What makes room in the table of buckets takes buckets away and changes none.
LEMMA RateEvictedKeeps ==
  ASSUME NEW table, NEW t, NEW left \in RateEvicted(table, t)
  PROVE  /\ DOMAIN left \subseteq DOMAIN table
         /\ \A q \in DOMAIN left : left[q] = table[q]
  <1> DEFINE kept == Restrict(table, {p \in DOMAIN table : table[p].tokens + (t - table[p].last) < Burst})
  <1>1. DOMAIN kept \subseteq DOMAIN table /\ \A q \in DOMAIN kept : kept[q] = table[q]
    BY DEF Restrict
  <1>2. left = kept \/ \E v : left = Restrict(kept, DOMAIN kept \ v)
    BY DEF RateEvicted
  <1> HIDE DEF kept
  <1> QED
    BY <1>1, <1>2 DEF Restrict

\* The three answers of RateLimiter::check.
LEMMA RateAnswers ==
  ASSUME Clocked, Metered, NEW p \in Peers, NEW answer \in RateCheck(buckets, p, now)
  PROVE  /\ DOMAIN answer[2] \subseteq DOMAIN buckets \cup {p}
         /\ p \in DOMAIN answer[2]
         /\ \A q \in DOMAIN answer[2] \ {p} : answer[2][q] = buckets[q]
         /\ answer[2][p] \in Bucket(Times)
         /\ answer[2][p].last <= latest
         /\ IF answer[1]
            THEN allowed[p] + 1 + answer[2][p].tokens <= Burst + answer[2][p].last
            ELSE /\ allowed[p] + answer[2][p].tokens <= Burst + answer[2][p].last
                 /\ DOMAIN answer[2] = DOMAIN buckets
  <1>0. Burst \in Nat /\ Burst >= 1 /\ MaxNow \in Nat
    BY ConstantsAssumption DEF ConstantsOK
  <1>1. allowed[p] \in Nat /\ now \in 0..MaxNow /\ latest \in 0..MaxNow /\ now <= latest /\ now \in Times
    BY DEF Clocked, Metered, Times
  <1>2. CASE p \in DOMAIN buckets
    <2> DEFINE b == Refilled(buckets[p], now)
    <2>1. buckets[p] \in Bucket(Times) /\ buckets[p].last <= latest
          /\ allowed[p] + buckets[p].tokens <= Burst + buckets[p].last
      BY <1>2 DEF Metered
    <2>2. b \in Bucket(Times) /\ b.tokens - b.last <= buckets[p].tokens - buckets[p].last /\ b.last \in {now, buckets[p].last}
      BY <1>1, <2>1, RefillBounded
    <2>3. /\ buckets[p].tokens \in 0..Burst /\ buckets[p].last \in 0..MaxNow
          /\ b.tokens \in 0..Burst /\ b.last \in 0..MaxNow
      BY <2>1, <2>2 DEF Bucket, Times
    <2>4. allowed[p] + b.tokens <= Burst + b.last /\ b.last <= latest
      BY <1>0, <1>1, <2>1, <2>2, <2>3
    <2>5. CASE b.tokens >= 1
      <3>1. answer = <<TRUE, WithBucket(buckets, p, [b EXCEPT !.tokens = b.tokens - 1])>>
        BY <1>2, <2>5 DEF RateCheck
      <3> DEFINE x == [b EXCEPT !.tokens = b.tokens - 1]
      <3>2. x \in Bucket(Times) /\ x.tokens = b.tokens - 1 /\ x.last = b.last
        BY <1>0, <2>2, <2>3, <2>5 DEF Bucket
      <3>3. answer[1] = TRUE /\ answer[2] = WithBucket(buckets, p, x)
        BY <3>1
      <3> HIDE DEF b, x
      <3>4. DOMAIN answer[2] = DOMAIN buckets /\ answer[2][p] = x /\ \A q \in DOMAIN buckets \ {p} : answer[2][q] = buckets[q]
        BY <1>2, <3>3 DEF WithBucket
      <3> QED
        BY <1>0, <1>1, <1>2, <2>3, <2>4, <3>2, <3>3, <3>4
    <2>6. CASE ~(b.tokens >= 1)
      <3>1. answer = <<FALSE, WithBucket(buckets, p, b)>>
        BY <1>2, <2>6 DEF RateCheck
      <3>2. answer[1] = FALSE /\ answer[2] = WithBucket(buckets, p, b)
        BY <3>1
      <3> HIDE DEF b
      <3>4. DOMAIN answer[2] = DOMAIN buckets /\ answer[2][p] = b /\ \A q \in DOMAIN buckets \ {p} : answer[2][q] = buckets[q]
        BY <1>2, <3>2 DEF WithBucket
      <3> QED
        BY <1>2, <2>2, <2>4, <3>2, <3>4
    <2> QED
      BY <2>5, <2>6
  <1>3. CASE p \notin DOMAIN buckets
    <2>1. PICK t : /\ t = buckets \/ t \in RateEvicted(buckets, now)
                   /\ answer = <<TRUE, WithBucket(t, p, NewBucket(now))>>
      BY <1>3 DEF RateCheck
    <2>2. DOMAIN t \subseteq DOMAIN buckets /\ \A q \in DOMAIN t : t[q] = buckets[q]
      BY <2>1, RateEvictedKeeps
    <2>3. answer[1] = TRUE /\ answer[2] = WithBucket(t, p, NewBucket(now))
      BY <2>1
    <2>4. DOMAIN answer[2] = DOMAIN t \cup {p} /\ answer[2][p] = NewBucket(now) /\ \A q \in DOMAIN t \ {p} : answer[2][q] = t[q]
      BY <2>3 DEF WithBucket
    <2>5. NewBucket(now) \in Bucket(Times) /\ NewBucket(now).tokens = Burst - 1 /\ NewBucket(now).last = now
      BY <1>0, <1>1 DEF NewBucket, Bucket
    <2>6. allowed[p] = 0
      BY <1>3 DEF Metered
    <2> QED
      BY <1>0, <1>1, <2>2, <2>3, <2>4, <2>5, <2>6
  <1> QED
    BY <1>2, <1>3

LEMMA ClockStep ==
  ASSUME DoorType, Clocked, [Next]_vars
  PROVE  Clocked' /\ latest <= latest'
  <1>0. MaxNow \in Nat /\ budget \in Budgets
    BY ConstantsAssumption DEF ConstantsOK, DoorType
  <1>1. now \in 0..MaxNow /\ latest \in 0..MaxNow /\ now <= latest /\ budget.until \in 0..MaxNow
    BY <1>0 DEF Clocked, Times, Budgets
  <1>2. CASE Tick
    <2>1. now < budget.until /\ now' = now + 1 /\ latest' = Max({latest, now'})
      BY <1>2 DEF Tick
    <2>2. now' \in Int /\ latest' = IF latest >= now' THEN latest ELSE now'
      BY <1>1, <2>1, MaxOfTwo
    <2> QED
      BY <1>0, <1>1, <2>1, <2>2 DEF Clocked, Times
  <1>3. CASE SetBack
    BY <1>0, <1>1, <1>3 DEF SetBack, Clocked, Times
  <1>4. CASE UNCHANGED <<now, latest>>
    BY <1>1, <1>4 DEF Clocked, Times
  <1>5. ASSUME ~Tick, ~SetBack PROVE UNCHANGED <<now, latest>>
    BY <1>5 DEF Next, Accept, Step, CheckBan, CheckRate, Blame, Handshake, Serve, Close, SecurityBan, SecurityUnban,
                Order, FileDamaged, Reload, Shutdown, Stop, Restart, vars, clock
  <1> QED
    BY <1>2, <1>3, <1>4, <1>5

\* The peer of a live task.
LEMMA PeerKnown ==
  ASSUME DoorType, NEW c \in Conns, conn[c] # Idle
  PROVE  Peer(c) \in Peers
  <1>1. conn[c] \in Tasks
    BY DEF DoorType
  <1> QED
    BY <1>1, ConstantsAssumption DEF Tasks, Peer, ConstantsOK

LEMMA MeteredStep ==
  ASSUME DoorType, Clocked, Metered, [Next]_vars
  PROVE  Metered'
  <1>0. Burst \in Nat /\ MaxNow \in Nat /\ budget.allowed \in Nat
    BY ConstantsAssumption DEF ConstantsOK, DoorType, Budgets
  <1>1. latest \in Int /\ latest' \in Int /\ latest <= latest'
    BY ClockStep DEF Clocked, Times
  <1>2. ASSUME NEW c \in Conns, CheckRate(c) PROVE Metered'
    <2> DEFINE P == Peer(c)
    <2>1. P \in Peers
      BY <1>2, PeerKnown DEF CheckRate, At
    <2>2. PICK answer \in RateCheck(buckets, P, now) :
             /\ buckets' = answer[2]
             /\ IF answer[1] THEN allowed' = CountedIn(answer[2], P) ELSE allowed' = allowed
      BY <1>2 DEF CheckRate
    <2>3. latest' = latest
      BY <1>2 DEF CheckRate, clock
    <2> HIDE DEF P
    <2>4. /\ DOMAIN answer[2] \subseteq DOMAIN buckets \cup {P}
          /\ P \in DOMAIN answer[2]
          /\ \A q \in DOMAIN answer[2] \ {P} : answer[2][q] = buckets[q]
          /\ answer[2][P] \in Bucket(Times)
          /\ answer[2][P].last <= latest
          /\ IF answer[1]
             THEN allowed[P] + 1 + answer[2][P].tokens <= Burst + answer[2][P].last
             ELSE /\ allowed[P] + answer[2][P].tokens <= Burst + answer[2][P].last
                  /\ DOMAIN answer[2] = DOMAIN buckets
      BY <2>1, RateAnswers
    <2>5. DOMAIN buckets' \subseteq Peers
      BY <2>1, <2>2, <2>4 DEF Metered
    <2>6. CASE answer[1]
      <3>1. \A q \in Peers : allowed'[q] = IF q = P THEN Min({allowed[q] + 1, budget.allowed})
                                           ELSE IF q \in DOMAIN answer[2] THEN allowed[q] ELSE 0
        BY <2>2, <2>6 DEF CountedIn
      <3>2. \A q \in Peers : allowed[q] \in Nat
        BY DEF Metered
      <3>3. allowed'[P] \in Nat /\ allowed'[P] <= allowed[P] + 1
        <4> DEFINE n == allowed[P] + 1
        <4> DEFINE m == budget.allowed
        <4>1. n \in Int /\ m \in Int /\ n \in Nat /\ m \in Nat
          BY <1>0, <2>1, <3>2
        <4>2. allowed'[P] = Min({n, m})
          BY <2>1, <3>1
        <4> HIDE DEF n, m
        <4>3. allowed'[P] = IF n <= m THEN n ELSE m
          BY <4>1, <4>2, MinOfTwo
        <4>4. allowed'[P] \in Nat /\ allowed'[P] <= n
          BY <4>1, <4>3
        <4> QED
          BY <4>4 DEF n
      <3>4. allowed' \in [Peers -> Nat]
        <4>1. allowed' = [q \in Peers |-> allowed'[q]]
          BY <2>2, <2>6 DEF CountedIn
        <4>2. \A q \in Peers : q # P => allowed'[q] \in {allowed[q], 0}
          BY <3>1
        <4>3. \A q \in Peers : allowed'[q] \in Nat
          BY <4>2, <3>2, <3>3
        <4> QED
          BY <4>1, <4>3
      <3>5. /\ buckets'[P] \in Bucket(Times)
            /\ buckets'[P].last <= latest'
            /\ allowed'[P] + buckets'[P].tokens <= Burst + buckets'[P].last
        <4>1. buckets'[P].tokens \in Nat /\ buckets'[P].last \in Nat
          BY <1>0, <2>2, <2>4 DEF Bucket, Times
        <4> QED
          BY <1>0, <2>1, <2>2, <2>3, <2>4, <2>6, <3>2, <3>3, <4>1
      <3>6. \A q \in DOMAIN buckets' \ {P} : buckets'[q] = buckets[q] /\ allowed'[q] = allowed[q] /\ q \in DOMAIN buckets
        BY <2>2, <2>4, <2>5, <3>1
      <3>7. \A q \in Peers \ DOMAIN buckets' : allowed'[q] = 0
        BY <2>2, <2>4, <3>1
      <3> QED
        BY <2>3, <2>5, <3>4, <3>5, <3>6, <3>7 DEF Metered
    <2>7. CASE ~answer[1]
      <3>1. allowed' = allowed /\ DOMAIN buckets' = DOMAIN buckets
        BY <2>2, <2>4, <2>7
      <3>2. \A q \in DOMAIN buckets' \ {P} : buckets'[q] = buckets[q]
        BY <2>2, <2>4
      <3>3. /\ buckets'[P] \in Bucket(Times)
            /\ buckets'[P].last <= latest'
            /\ allowed'[P] + buckets'[P].tokens <= Burst + buckets'[P].last
        BY <2>2, <2>3, <2>4, <2>7, <3>1
      <3> QED
        BY <2>3, <3>1, <3>2, <3>3 DEF Metered
    <2> QED
      BY <2>6, <2>7
  <1>3. CASE Restart
    <2>1. buckets' = <<>> /\ allowed' = [p \in Peers |-> 0]
      BY <1>3 DEF Restart
    <2> QED
      BY <2>1 DEF Metered
  <1>4. CASE UNCHANGED <<buckets, allowed>>
    <2>1. \A p \in DOMAIN buckets : buckets[p].last \in Int
      BY DEF Metered, Bucket, Times
    <2>2. \A p \in DOMAIN buckets : buckets[p].last <= latest'
      BY <1>1, <2>1 DEF Metered
    <2> QED
      BY <1>4, <2>2 DEF Metered
  <1>5. ASSUME ~Restart, \A c \in Conns : ~CheckRate(c) PROVE UNCHANGED <<buckets, allowed>>
    BY <1>5 DEF Next, Accept, Step, CheckBan, Blame, Handshake, Serve, Close, SecurityBan, SecurityUnban,
                Order, FileDamaged, Reload, Shutdown, Stop, Tick, SetBack, vars, bans
  <1> QED
    BY <1>2, <1>3, <1>4, <1>5

\* Until its bucket is evicted, a peer is let in at most burst times plus once
\* per refilled token, however often the clock is set back and forth and
\* however many connections it opens at once.
THEOREM RateAlwaysKept == Spec => []RateQuota
  <1> DEFINE Inv == SlotsInv /\ Clocked /\ Metered
  <1>1. Init => Inv
    <2> SUFFICES ASSUME Init PROVE Clocked /\ Metered
      BY SlotsInit
    <2>1. MaxNow \in Nat
      BY ConstantsAssumption DEF ConstantsOK
    <2> QED
      BY <2>1 DEF Init, Clocked, Times, Metered
  <1>2. Inv /\ [Next]_vars => Inv'
    <2> SUFFICES ASSUME Inv, [Next]_vars PROVE Inv'
      OBVIOUS
    <2>1. SlotsInv'
      BY SlotsStep
    <2>2. DoorType
      BY DEF SlotsInv
    <2>3. Clocked' /\ Metered'
      BY <2>2, ClockStep, MeteredStep
    <2> QED
      BY <2>1, <2>3
  <1>3. Inv => RateQuota
    <2> SUFFICES ASSUME Inv, NEW p \in Peers PROVE allowed[p] <= Burst + latest
      BY DEF RateQuota
    <2>1. Burst \in Nat /\ latest \in Nat /\ allowed[p] \in Nat
      BY ConstantsAssumption DEF ConstantsOK, Clocked, Times, Metered
    <2>2. CASE p \in DOMAIN buckets
      <3>1. buckets[p].tokens \in Nat /\ buckets[p].last \in Nat /\ buckets[p].last <= latest
            /\ allowed[p] + buckets[p].tokens <= Burst + buckets[p].last
        BY <2>2, ConstantsAssumption DEF Metered, Bucket, Times, ConstantsOK
      <3> QED
        BY <2>1, <3>1
    <2>3. CASE p \notin DOMAIN buckets
      BY <2>1, <2>3 DEF Metered
    <2> QED
      BY <2>2, <2>3
  <1> QED
    BY <1>1, <1>2, <1>3, PTL DEF Spec

-----------------------------------------------------------------------------
(* The ban table: what one entry, then one table, may turn into *)

\* How the entry of a peer may change while nobody lifts its ban: a ban with
\* time left stays one, strikes are never forgotten, and one more is given
\* only to a peer that was not banned, the last one for ever.
Follows(old, new, t) ==
    /\ Shaped(new)
    /\ IsActive(old, t) => IsActive(new, t)
    /\ new.strikes >= old.strikes
    /\ new.strikes > old.strikes => ~IsActive(old, t) /\ (PermanentAfter \in 1..new.strikes => new.permanent)

LEMMA DefaultShaped == Shaped(DefaultEntry) /\ DefaultEntry.manual = FALSE
  BY DEF Shaped, DefaultEntry, NoTime

LEMMA LapseFollows ==
  ASSUME NEW e, Shaped(e), NEW t \in Nat
  PROVE  Follows(e, Lapse(e, t), t) /\ Lapse(e, t).manual = e.manual
  <1>1. CASE ~e.permanent /\ e.until # NoTime /\ e.until <= t
    <2>1. Lapse(e, t) = [e EXCEPT !.until = NoTime, !.failures = <<>>]
      BY <1>1 DEF Lapse
    <2>2. Lapse(e, t) = [failures |-> <<>>, strikes |-> e.strikes, permanent |-> e.permanent,
                         until |-> NoTime, manual |-> e.manual, seen |-> e.seen]
      BY <2>1 DEF Shaped
    <2>3. ~IsActive(e, t)
      BY <1>1 DEF IsActive, Shaped
    <2> QED
      BY <2>2, <2>3 DEF Follows, Shaped, NoTime
  <1>2. CASE ~(~e.permanent /\ e.until # NoTime /\ e.until <= t)
    BY <1>2 DEF Lapse, Follows, Shaped
  <1> QED
    BY <1>1, <1>2

LEMMA StruckFollows ==
  ASSUME NEW e, Shaped(e), NEW t \in Nat, ~IsActive(e, t)
  PROVE  Follows(e, Struck(e, t), t) /\ Struck(e, t).manual = e.manual
  <1>0. TempBan \in Nat /\ PermanentAfter \in Nat
    BY ConstantsAssumption DEF ConstantsOK
  <1> DEFINE n == e.strikes + 1
  <1> DEFINE q == PermanentAfter > 0 /\ n >= PermanentAfter
  <1> DEFINE u == IF q THEN NoTime ELSE t + TempBan
  <1>1. Struck(e, t) = [e EXCEPT !.failures = <<>>, !.strikes = n, !.permanent = q, !.until = u]
    BY DEF Struck
  <1>2. n \in Nat /\ n > e.strikes /\ q \in BOOLEAN /\ u \in Int /\ (PermanentAfter \in 1..n => q)
    BY <1>0 DEF Shaped, NoTime
  <1>3. e.permanent = FALSE /\ e.manual = FALSE
    BY DEF IsActive, Shaped
  <1> HIDE DEF n, q, u
  <1>4. Struck(e, t) = [failures |-> <<>>, strikes |-> n, permanent |-> q,
                        until |-> u, manual |-> e.manual, seen |-> e.seen]
    BY <1>1 DEF Shaped
  <1>5. Shaped(Struck(e, t))
    BY <1>2, <1>3, <1>4 DEF Shaped
  <1>6. Struck(e, t).strikes = n /\ Struck(e, t).permanent = q /\ Struck(e, t).manual = e.manual
    BY <1>4
  <1>7. e.strikes \in Nat
    BY DEF Shaped
  <1> QED
    BY <1>2, <1>5, <1>6, <1>7 DEF Follows

\* record_failure, on the entry of the peer.
LEMMA ChargedFollows ==
  ASSUME NEW e0, Shaped(e0), NEW t \in Nat
  PROVE  Follows(e0, Charged(e0, t), t) /\ Charged(e0, t).manual = e0.manual
  <1> DEFINE s == [e0 EXCEPT !.seen = t]
  <1> DEFINE e == Lapse(s, t)
  <1> DEFINE x == Append(Recent(e.failures, t), t)
  <1> DEFINE f == [e EXCEPT !.failures = x]
  <1>1. s = [failures |-> e0.failures, strikes |-> e0.strikes, permanent |-> e0.permanent,
             until |-> e0.until, manual |-> e0.manual, seen |-> t]
    BY DEF Shaped
  <1>2. Shaped(s) /\ s.strikes = e0.strikes /\ s.manual = e0.manual /\ (IsActive(s, t) <=> IsActive(e0, t))
    BY <1>1 DEF Shaped, IsActive
  <1> HIDE DEF s
  <1>3. Follows(s, e, t) /\ e.manual = s.manual /\ Shaped(e)
    BY <1>2, LapseFollows DEF Follows
  <1>4. Charged(e0, t) = IF IsActive(e, t) THEN e ELSE IF Len(f.failures) < BanFailures THEN f ELSE Struck(f, t)
    BY DEF Charged, s
  <1> HIDE DEF e, x
  <1>5. f = [failures |-> x, strikes |-> e.strikes, permanent |-> e.permanent,
             until |-> e.until, manual |-> e.manual, seen |-> e.seen]
    BY <1>3 DEF Shaped
  <1> HIDE DEF f
  <1>6. Shaped(f) /\ f.strikes = e.strikes /\ f.manual = e.manual /\ (IsActive(f, t) <=> IsActive(e, t))
    BY <1>3, <1>5 DEF Shaped, IsActive
  <1>7. e0.strikes \in Nat /\ e.strikes \in Nat /\ f.strikes \in Nat
    BY <1>3, <1>6 DEF Shaped
  <1>8. e.strikes = e0.strikes
    <2>1. Lapse(s, t) = s \/ Lapse(s, t) = [s EXCEPT !.until = NoTime, !.failures = <<>>]
      BY DEF Lapse
    <2> QED
      BY <1>2, <2>1 DEF e, Shaped
  <1>9. CASE IsActive(e, t)
    BY <1>2, <1>3, <1>4, <1>7, <1>8, <1>9 DEF Follows
  <1>10. CASE ~IsActive(e, t) /\ Len(f.failures) < BanFailures
    BY <1>2, <1>3, <1>4, <1>6, <1>7, <1>8, <1>10 DEF Follows
  <1>11. CASE ~IsActive(e, t) /\ ~(Len(f.failures) < BanFailures)
    <2>1. Follows(f, Struck(f, t), t) /\ Struck(f, t).manual = f.manual
      BY <1>6, <1>11, StruckFollows
    <2>2. Charged(e0, t) = Struck(f, t)
      BY <1>4, <1>11
    <2>3. ~IsActive(e0, t) /\ ~IsActive(f, t)
      BY <1>2, <1>3, <1>6, <1>11 DEF Follows
    <2> QED
      BY <1>2, <1>3, <1>6, <1>7, <1>8, <2>1, <2>2, <2>3 DEF Follows
  <1> QED
    BY <1>9, <1>10, <1>11

\* A table in which no ban with time left was lifted, no manual ban made or
\* lifted, and whose entries follow those of the old one.
Succeeds(old, new, t) ==
    /\ \A p \in DOMAIN new : Shaped(new[p])
    /\ ManualKeys(new) = ManualKeys(old)
    /\ \A p \in DOMAIN old : IsActive(old[p], t) => p \in DOMAIN new
    /\ \A p \in DOMAIN old \cap DOMAIN new : Follows(old[p], new[p], t)

LEMMA CheckedSucceeds ==
  ASSUME NEW table, \A p \in DOMAIN table : Shaped(table[p]), NEW p, NEW t \in Nat
  PROVE  Succeeds(table, Checked(table, p, t), t) /\ DOMAIN Checked(table, p, t) = DOMAIN table
  <1> DEFINE new == Checked(table, p, t)
  <1>1. DOMAIN new = DOMAIN table /\ \A q \in DOMAIN table : new[q] = IF q = p THEN Lapse(table[q], t) ELSE table[q]
    BY DEF Checked
  <1>2. \A q \in DOMAIN table : Follows(table[q], Lapse(table[q], t), t) /\ Lapse(table[q], t).manual = table[q].manual
    BY LapseFollows
  <1>3. \A q \in DOMAIN table : Follows(table[q], table[q], t)
    BY DEF Follows, Shaped
  <1> HIDE DEF new
  <1>4. \A q \in DOMAIN table : Follows(table[q], new[q], t) /\ new[q].manual = table[q].manual
    BY <1>1, <1>2, <1>3
  <1>5. ManualKeys(new) = ManualKeys(table)
    BY <1>1, <1>4 DEF ManualKeys
  <1>6. \A q \in DOMAIN new : Shaped(new[q])
    BY <1>1, <1>4 DEF Follows
  <1>7. Succeeds(table, new, t)
    BY <1>1, <1>4, <1>5, <1>6 DEF Succeeds
  <1> QED
    BY <1>1, <1>7 DEF new

\* evict: entries only go, and neither a manual ban nor one with time left.
LEMMA EvictedKeeps ==
  ASSUME NEW table, \A p \in DOMAIN table : Shaped(table[p]), NEW t \in Nat, NEW left \in Evicted(table, t)
  PROVE  /\ DOMAIN left \subseteq DOMAIN table
         /\ \A q \in DOMAIN left : left[q] = table[q]
         /\ \A q \in DOMAIN table : table[q].manual = TRUE \/ IsActive(table[q], t) => q \in DOMAIN left
  <1> DEFINE kept == Restrict(table, Retained(table, t))
  <1> DEFINE cands == Evictable(kept, t)
  <1> DEFINE count == Min({Cardinality(DOMAIN kept) - (BanEntries - 1), Cardinality(cands)})
  <1>1. DOMAIN kept = Retained(table, t) /\ \A q \in DOMAIN kept : kept[q] = table[q]
    BY DEF Restrict
  <1>2. left = kept \/ \E v \in kSubset(count, cands) : left = Restrict(kept, DOMAIN kept \ v)
    BY DEF Evicted
  <1> HIDE DEF kept, count
  <1>3. left = kept \/ \E v \in SUBSET cands : left = Restrict(kept, DOMAIN kept \ v)
    BY <1>2 DEF kSubset
  <1>4. Retained(table, t) \subseteq DOMAIN table
    BY DEF Retained
  <1>5. \A q \in DOMAIN table : table[q].manual = TRUE \/ IsActive(table[q], t) => q \in DOMAIN kept
    BY <1>1 DEF Retained, IsActive
  <1>6. \A q \in cands : table[q].manual = FALSE /\ ~IsActive(table[q], t)
    <2> SUFFICES ASSUME NEW q \in cands PROVE table[q].manual = FALSE /\ ~IsActive(table[q], t)
      OBVIOUS
    <2>1. q \in DOMAIN kept /\ ~kept[q].permanent /\ ~kept[q].manual /\ kept[q].until <= t
      BY DEF Evictable
    <2>2. kept[q] = table[q] /\ Shaped(table[q])
      BY <1>1, <1>4, <2>1
    <2> QED
      BY <2>1, <2>2 DEF IsActive, Shaped
  <1> HIDE DEF cands
  <1>7. CASE left = kept
    BY <1>1, <1>4, <1>5, <1>7
  <1>8. CASE \E v \in SUBSET cands : left = Restrict(kept, DOMAIN kept \ v)
    <2>1. PICK v \in SUBSET cands : left = Restrict(kept, DOMAIN kept \ v)
      BY <1>8
    <2>2. DOMAIN left = DOMAIN kept \ v /\ \A q \in DOMAIN left : left[q] = kept[q]
      BY <2>1 DEF Restrict
    <2> QED
      BY <1>1, <1>4, <1>5, <1>6, <2>2
  <1> QED
    BY <1>3, <1>7, <1>8

\* Fewer entries, none of them changed and no ban among those that went.
LEMMA LeftSucceeds ==
  ASSUME NEW table, NEW left, NEW t \in Nat,
         \A p \in DOMAIN table : Shaped(table[p]),
         DOMAIN left \subseteq DOMAIN table,
         \A q \in DOMAIN left : left[q] = table[q],
         \A q \in DOMAIN table : table[q].manual = TRUE \/ IsActive(table[q], t) => q \in DOMAIN left
  PROVE  Succeeds(table, left, t)
  <1>1. \A q \in DOMAIN left : Follows(table[q], left[q], t)
    BY DEF Follows, Shaped
  <1>2. \A p \in DOMAIN table : table[p].manual \in BOOLEAN
    BY DEF Shaped
  <1>3. ManualKeys(left) = ManualKeys(table)
    BY <1>2 DEF ManualKeys
  <1> QED
    BY <1>1, <1>3 DEF Succeeds, Follows

\* The entry of one more peer.
LEMMA WithEntrySucceeds ==
  ASSUME NEW table, NEW left, NEW t \in Nat, NEW p, NEW e,
         Succeeds(table, left, t), Shaped(e),
         p \in DOMAIN table => p \in DOMAIN left /\ Follows(table[p], e, t) /\ e.manual = table[p].manual,
         p \notin DOMAIN table => p \notin DOMAIN left /\ e.manual = FALSE
  PROVE  Succeeds(table, WithEntry(left, p, e), t)
  <1> DEFINE new == WithEntry(left, p, e)
  <1>1. DOMAIN new = DOMAIN left \cup {p} /\ new[p] = e /\ \A q \in DOMAIN left \ {p} : new[q] = left[q]
    BY DEF WithEntry
  <1> HIDE DEF new
  <1>2. \A q \in DOMAIN new : Shaped(new[q])
    BY <1>1 DEF Succeeds
  <1>3. ManualKeys(left) = ManualKeys(table)
    BY DEF Succeeds
  <1>4. ManualKeys(new) = ManualKeys(table)
    <2>1. p \in ManualKeys(new) <=> p \in ManualKeys(table)
      BY <1>1 DEF ManualKeys
    <2>2. \A q : q # p => (q \in ManualKeys(new) <=> q \in ManualKeys(left))
      BY <1>1 DEF ManualKeys
    <2> QED
      BY <1>3, <2>1, <2>2
  <1>5. \A q \in DOMAIN table : IsActive(table[q], t) => q \in DOMAIN new
    BY <1>1 DEF Succeeds
  <1>6. \A q \in DOMAIN table \cap DOMAIN new : Follows(table[q], new[q], t)
    BY <1>1 DEF Succeeds
  <1>7. Succeeds(table, new, t)
    BY <1>2, <1>4, <1>5, <1>6 DEF Succeeds
  <1> QED
    BY <1>7 DEF new

\* record_failure, on the table.
LEMMA RecordSucceeds ==
  ASSUME NEW table, \A p \in DOMAIN table : Shaped(table[p]), NEW p, NEW t \in Nat,
         NEW new \in RecordFailure(table, p, t)
  PROVE  Succeeds(table, new, t) /\ DOMAIN new \subseteq DOMAIN table \cup {p}
  <1>1. Succeeds(table, table, t)
    BY LeftSucceeds
  <1>2. CASE p \in DOMAIN table
    <2>1. new = WithEntry(table, p, Charged(table[p], t))
      BY <1>2 DEF RecordFailure
    <2>2. Shaped(table[p])
      BY <1>2
    <2>3. Follows(table[p], Charged(table[p], t), t) /\ Charged(table[p], t).manual = table[p].manual
      BY <2>2, ChargedFollows
    <2> DEFINE e == Charged(table[p], t)
    <2>4. Shaped(e)
      BY <2>3 DEF Follows
    <2>5. /\ p \in DOMAIN table => p \in DOMAIN table /\ Follows(table[p], e, t) /\ e.manual = table[p].manual
          /\ p \notin DOMAIN table => p \notin DOMAIN table /\ e.manual = FALSE
      BY <1>2, <2>3
    <2> HIDE DEF e
    <2>6. Succeeds(table, WithEntry(table, p, e), t)
      BY <1>1, <2>4, <2>5, WithEntrySucceeds, Zenon
    <2>7. DOMAIN WithEntry(table, p, e) = DOMAIN table \cup {p}
      BY DEF WithEntry
    <2> QED
      BY <2>1, <2>6, <2>7 DEF e
  <1>3. CASE p \notin DOMAIN table
    <2> DEFINE fresh == Charged(DefaultEntry, t)
    <2>1. Shaped(fresh) /\ fresh.manual = FALSE
      BY DefaultShaped, ChargedFollows DEF Follows
    <2>2. \/ new = WithEntry(table, p, fresh)
          \/ \E left \in Evicted(table, t) : new = WithEntry(left, p, fresh) \/ new = left
      BY <1>3 DEF RecordFailure
    <2> HIDE DEF fresh
    <2>3. CASE new = WithEntry(table, p, fresh)
      <3>1. /\ p \in DOMAIN table => p \in DOMAIN table /\ Follows(table[p], fresh, t) /\ fresh.manual = table[p].manual
            /\ p \notin DOMAIN table => p \notin DOMAIN table /\ fresh.manual = FALSE
        BY <1>3, <2>1
      <3>2. Succeeds(table, WithEntry(table, p, fresh), t)
        BY <1>1, <2>1, <3>1, WithEntrySucceeds, Zenon
      <3>3. DOMAIN WithEntry(table, p, fresh) = DOMAIN table \cup {p}
        BY DEF WithEntry
      <3> QED
        BY <2>3, <3>2, <3>3
    <2>4. CASE \E left \in Evicted(table, t) : new = WithEntry(left, p, fresh) \/ new = left
      <3>1. PICK left \in Evicted(table, t) : new = WithEntry(left, p, fresh) \/ new = left
        BY <2>4
      <3>2. /\ DOMAIN left \subseteq DOMAIN table
            /\ \A q \in DOMAIN left : left[q] = table[q]
            /\ \A q \in DOMAIN table : table[q].manual = TRUE \/ IsActive(table[q], t) => q \in DOMAIN left
        BY EvictedKeeps
      <3>3. Succeeds(table, left, t)
        BY <3>2, LeftSucceeds
      <3>4. CASE new = left
        BY <3>2, <3>3, <3>4
      <3>5. CASE new = WithEntry(left, p, fresh)
        <4>1. /\ p \in DOMAIN table => p \in DOMAIN left /\ Follows(table[p], fresh, t) /\ fresh.manual = table[p].manual
              /\ p \notin DOMAIN table => p \notin DOMAIN left /\ fresh.manual = FALSE
          BY <1>3, <2>1, <3>2
        <4>2. Succeeds(table, WithEntry(left, p, fresh), t)
          BY <2>1, <3>3, <4>1, WithEntrySucceeds, Zenon
        <4>3. DOMAIN WithEntry(left, p, fresh) = DOMAIN left \cup {p}
          BY DEF WithEntry
        <4> QED
          BY <3>2, <3>5, <4>2, <4>3
      <3> QED
        BY <3>1, <3>4, <3>5
    <2> QED
      BY <2>2, <2>3, <2>4
  <1> QED
    BY <1>2, <1>3

LEMMA MadeManualShaped ==
  ASSUME NEW e, Shaped(e), NEW t
  PROVE  /\ Shaped(MadeManual(e)) /\ MadeManual(e).manual = TRUE
         /\ MadeManual(e).strikes = e.strikes /\ IsActive(MadeManual(e), t)
  <1> DEFINE yes == TRUE
  <1> DEFINE none == <<>>
  <1>1. MadeManual(e) = [e EXCEPT !.manual = yes, !.permanent = yes, !.until = NoTime, !.failures = none]
    BY DEF MadeManual
  <1> HIDE DEF yes, none
  <1>2. MadeManual(e) = [failures |-> none, strikes |-> e.strikes, permanent |-> yes,
                         until |-> NoTime, manual |-> yes, seen |-> e.seen]
    BY <1>1 DEF Shaped
  <1> QED
    BY <1>2 DEF Shaped, NoTime, IsActive, yes

\* What apply_manual leaves: the manual bans are the wanted ones, no other ban
\* is lifted and no strike forgotten.
Agrees(old, new, wanted, t) ==
    /\ DOMAIN new = (DOMAIN old \ (ManualKeys(old) \ wanted)) \cup wanted
    /\ \A p \in DOMAIN new : Shaped(new[p])
    /\ ManualKeys(new) = wanted
    /\ \A p \in DOMAIN new \ wanted : p \in DOMAIN old /\ new[p] = old[p]
    /\ \A p \in wanted : IsActive(new[p], t)
    /\ \A p \in DOMAIN old \cap DOMAIN new : new[p].strikes = old[p].strikes

LEMMA ApplyAgrees ==
  ASSUME NEW table, \A p \in DOMAIN table : Shaped(table[p]), NEW wanted, NEW t
  PROVE  Agrees(table, ApplyManual(table, wanted), wanted, t)
  <1> DEFINE new == ApplyManual(table, wanted)
  <1> DEFINE keep == DOMAIN table \ (ManualKeys(table) \ wanted)
  <1> DEFINE old(p) == IF p \in keep THEN table[p] ELSE DefaultEntry
  <1>1. /\ DOMAIN new = keep \cup wanted
        /\ \A p \in wanted : new[p] = MadeManual(old(p))
        /\ \A p \in DOMAIN new \ wanted : p \in DOMAIN table /\ new[p] = table[p] /\ p \notin ManualKeys(table)
    BY DEF ApplyManual
  <1>2. \A p : Shaped(old(p))
    BY DefaultShaped
  <1>3. \A p \in wanted : /\ Shaped(new[p]) /\ new[p].manual = TRUE
                          /\ new[p].strikes = old(p).strikes /\ IsActive(new[p], t)
    <2> SUFFICES ASSUME NEW p \in wanted
                 PROVE  /\ Shaped(new[p]) /\ new[p].manual = TRUE
                        /\ new[p].strikes = old(p).strikes /\ IsActive(new[p], t)
      OBVIOUS
    <2>1. new[p] = MadeManual(old(p)) /\ Shaped(old(p))
      BY <1>1, <1>2
    <2> HIDE DEF new, old
    <2> QED
      BY <2>1, MadeManualShaped
  <1>4. \A p \in wanted \cap DOMAIN table : old(p) = table[p]
    OBVIOUS
  <1> HIDE DEF new, old
  <1>5. \A p \in DOMAIN new : Shaped(new[p])
    BY <1>1, <1>3
  <1>6. ManualKeys(new) = wanted
    BY <1>1, <1>3 DEF ManualKeys
  <1>7. \A p \in DOMAIN table \cap DOMAIN new : new[p].strikes = table[p].strikes
    BY <1>1, <1>3, <1>4
  <1>8. Agrees(table, new, wanted, t)
    BY <1>1, <1>3, <1>5, <1>6, <1>7 DEF Agrees
  <1> QED
    BY <1>8 DEF new

\* A step of a task on the ban table.
LEMMA TableFollows ==
  ASSUME Listed, Clocked, Succeeds(entries, entries', now), DOMAIN entries' \subseteq Peers,
         UNCHANGED <<loaded, hadEntries, file>>
  PROVE  Listed' /\ BansStand /\ Escalation
  <1>1. Listed'
    BY DEF Listed, Succeeds
  <1>2. BansStand
    BY DEF BansStand, Banned, Succeeds, Follows, Listed
  <1>3. Escalation
    BY DEF Escalation, Succeeds, Follows
  <1> QED
    BY <1>1, <1>2, <1>3

\* A reload of the list.
LEMMA ApplyFollows ==
  ASSUME Listed, Clocked, NEW list \in SUBSET Ips, Apply(list), file' = file,
         hadEntries' = (list # {}),
         \/ list = {} /\ loaded = {}
         \/ file.kind = "list" /\ list = file.list
  PROVE  Listed' /\ BansStand /\ Escalation
  <1> DEFINE wanted == KeysOf(list)
  <1>1. now \in Nat /\ \A p \in DOMAIN entries : Shaped(entries[p])
    BY ConstantsAssumption DEF ConstantsOK, Clocked, Times, Listed
  <1>2. wanted \subseteq Peers
    BY ConstantsAssumption DEF ConstantsOK, KeysOf
  <1>3. list = {} <=> wanted = {}
    BY DEF KeysOf
  <1> HIDE DEF wanted
  <1>4. entries' = ApplyManual(entries, wanted) /\ loaded' = wanted
    BY DEF Apply, wanted
  <1>5. /\ DOMAIN entries' = (DOMAIN entries \ (ManualKeys(entries) \ wanted)) \cup wanted
        /\ \A p \in DOMAIN entries' : Shaped(entries'[p])
        /\ ManualKeys(entries') = wanted
        /\ \A p \in DOMAIN entries' \ wanted : p \in DOMAIN entries /\ entries'[p] = entries[p]
        /\ \A p \in wanted : IsActive(entries'[p], now)
        /\ \A p \in DOMAIN entries \cap DOMAIN entries' : entries'[p].strikes = entries[p].strikes
    <2>1. Agrees(entries, ApplyManual(entries, wanted), wanted, now)
      BY <1>1, ApplyAgrees
    <2>2. Agrees(entries, entries', wanted, now)
      BY <1>4, <2>1
    <2> QED
      BY <2>2 DEF Agrees
  <1>6. Listed'
    <2>1. DOMAIN entries' \subseteq Peers
      BY <1>2, <1>5 DEF Listed
    <2>2. hadEntries' \in BOOLEAN /\ (hadEntries' = FALSE => loaded' = {})
      BY <1>3, <1>4
    <2>3. file' \in {Absent, Corrupt} \cup {FileWith(l) : l \in SUBSET Ips}
      BY DEF Listed
    <2> QED
      BY <1>4, <1>5, <2>1, <2>2, <2>3 DEF Listed
  <1>7. BansStand
    <2> SUFFICES ASSUME NEW p \in Peers, Banned(entries, p, now), ~Banned(entries', p, now)
                 PROVE  p \in loaded /\ file.kind = "list" /\ p \notin KeysOf(file.list)
      BY DEF BansStand
    <2>1. p \in DOMAIN entries /\ IsActive(entries[p], now)
      BY DEF Banned
    <2>2. p \notin wanted
      BY <1>5 DEF Banned
    <2>3. p \notin DOMAIN entries'
      BY <1>5, <2>1, <2>2 DEF Banned
    <2>4. p \in ManualKeys(entries)
      BY <1>5, <2>1, <2>3
    <2>5. p \in loaded
      BY <2>4 DEF Listed
    <2> QED
      BY <2>2, <2>5 DEF wanted
  <1>8. Escalation
    <2>1. \A p \in DOMAIN entries \cap DOMAIN entries' : entries[p].strikes \in Nat
      BY <1>1 DEF Shaped
    <2> QED
      BY <1>5, <2>1 DEF Escalation
  <1> QED
    BY <1>6, <1>7, <1>8

\* A daemon that has just started, with an empty table.
LEMMA EmptyTable == DOMAIN <<>> = {} /\ ManualKeys(<<>>) = {}
  BY DEF ManualKeys

LEMMA BansInit == Init => Listed
  <1> SUFFICES ASSUME Init PROVE Listed
    OBVIOUS
  <1>1. entries = <<>> /\ file = Absent /\ hadEntries = FALSE /\ loaded = {}
    BY DEF Init
  <1>2. DOMAIN entries = {} /\ ManualKeys(entries) = {}
    BY <1>1, EmptyTable
  <1> QED
    BY <1>1, <1>2 DEF Listed

LEMMA BansStep ==
  ASSUME DoorType, Clocked, Listed, [Next]_vars
  PROVE  Listed' /\ BansStand /\ Escalation
  <1>1. now \in Nat /\ \A p \in DOMAIN entries : Shaped(entries[p])
    BY ConstantsAssumption DEF ConstantsOK, Clocked, Times, Listed
  <1>2. ASSUME NEW c \in Conns, CheckBan(c) PROVE Listed' /\ BansStand /\ Escalation
    <2>1. entries' = Checked(entries, Peer(c), now) /\ UNCHANGED <<loaded, hadEntries, file>>
      BY <1>2 DEF CheckBan, manual
    <2>2. Succeeds(entries, entries', now) /\ DOMAIN entries' = DOMAIN entries
      BY <1>1, <2>1, CheckedSucceeds
    <2>3. DOMAIN entries' \subseteq Peers
      BY <2>2 DEF Listed
    <2> QED
      BY <2>1, <2>2, <2>3, TableFollows
  <1>3. ASSUME NEW c \in Conns, Blame(c) PROVE Listed' /\ BansStand /\ Escalation
    <2>1. entries' \in RecordFailure(entries, Peer(c), now) /\ UNCHANGED <<loaded, hadEntries, file>>
      BY <1>3 DEF Blame, Charge, manual
    <2>2. Peer(c) \in Peers
      BY <1>3, PeerKnown DEF Blame, At
    <2>3. Succeeds(entries, entries', now) /\ DOMAIN entries' \subseteq DOMAIN entries \cup {Peer(c)}
      BY <1>1, <2>1, RecordSucceeds
    <2>4. DOMAIN entries' \subseteq Peers
      BY <2>2, <2>3 DEF Listed
    <2> QED
      BY <2>1, <2>3, <2>4, TableFollows
  <1>4. CASE Reload
    <2>1. file' = file
      BY <1>4 DEF Reload
    <2>2. CASE KnownEmpty /\ Apply({}) /\ UNCHANGED hadEntries
      <3>1. hadEntries = FALSE /\ loaded = {}
        BY <2>2 DEF KnownEmpty, Listed
      <3>2. hadEntries' = ({} # {})
        BY <2>2, <3>1
      <3> QED
        BY <2>1, <2>2, <3>1, <3>2, ApplyFollows
    <2>3. CASE file.kind = "list" /\ Apply(file.list) /\ hadEntries' = (file.list # {})
      <3>1. file.list \in SUBSET Ips
        BY DEF Listed, Absent, Corrupt, FileWith
      <3> QED
        BY <2>1, <2>3, <3>1, ApplyFollows
    <2> QED
      BY <1>4, <2>2, <2>3 DEF Reload
  <1>5. CASE Restart
    <2>1. entries' = <<>> /\ hadEntries' = FALSE /\ loaded' = {} /\ file' = file /\ up = "down"
      BY <1>5 DEF Restart
    <2>2. DOMAIN entries' = {} /\ ManualKeys(entries') = {}
      BY <2>1, EmptyTable
    <2>3. Listed'
      BY <2>1, <2>2 DEF Listed
    <2> QED
      BY <2>1, <2>2, <2>3 DEF BansStand, Escalation
  <1>6. CASE UNCHANGED <<entries, loaded, hadEntries>> /\ file' \in {Absent, Corrupt} \cup {FileWith(list) : list \in SUBSET Ips}
    <2>1. Listed'
      BY <1>6 DEF Listed
    <2>2. BansStand
      BY <1>6 DEF BansStand
    <2>3. Escalation
      <3>1. \A p \in DOMAIN entries : entries[p].strikes \in Nat
        BY <1>1 DEF Shaped
      <3> QED
        BY <1>6, <3>1 DEF Escalation
    <2> QED
      BY <2>1, <2>2, <2>3
  <1>7. ASSUME ~Restart, ~Reload, \A c \in Conns : ~CheckBan(c) /\ ~Blame(c)
        PROVE  UNCHANGED <<entries, loaded, hadEntries>>
               /\ file' \in {Absent, Corrupt} \cup {FileWith(list) : list \in SUBSET Ips}
    <2>1. UNCHANGED <<entries, loaded, hadEntries>>
      BY <1>7 DEF Next, Accept, Step, CheckRate, Handshake, Serve, Close, SecurityBan, SecurityUnban,
                  Order, FileDamaged, Shutdown, Stop, Tick, SetBack, vars, bans, manual
    <2>2. \/ file' = file
          \/ FileDamaged
          \/ \E ip \in Ips : SecurityBan(ip) \/ SecurityUnban(ip)
      BY <1>7 DEF Next, Accept, Step, CheckRate, Handshake, Serve, Close, Shutdown, Stop, Tick, SetBack, vars, manual
    <2>3. file.list \in SUBSET Ips
      BY DEF Listed, Absent, Corrupt, FileWith
    <2>4. file' \in {Absent, Corrupt} \cup {FileWith(list) : list \in SUBSET Ips}
      BY <2>2, <2>3 DEF Listed, FileDamaged, SecurityBan, SecurityUnban
    <2> QED
      BY <2>1, <2>4
  <1> QED
    BY <1>2, <1>3, <1>4, <1>5, <1>6, <1>7

\* A ban with time left ends by nothing but a list without it; strikes are
\* kept, given only to peers that were not banned, and the last one bans for
\* ever; the manual bans are always the last list that was read.
THEOREM BansAlwaysStand == Spec => BanRules
  <1> DEFINE Inv == SlotsInv /\ Clocked /\ Listed
  <1>1. Init => Inv
    <2>1. Init => Clocked
      BY ConstantsAssumption DEF ConstantsOK, Init, Clocked, Times
    <2> QED
      BY <2>1, SlotsInit, BansInit
  <1>2. Inv /\ [Next]_vars => Inv' /\ BansStand /\ Escalation
    <2> SUFFICES ASSUME Inv, [Next]_vars PROVE Inv' /\ BansStand /\ Escalation
      OBVIOUS
    <2>1. SlotsInv'
      BY SlotsStep
    <2>2. DoorType
      BY DEF SlotsInv
    <2>3. Clocked'
      BY <2>2, ClockStep
    <2>4. Listed' /\ BansStand /\ Escalation
      BY <2>2, BansStep
    <2> QED
      BY <2>1, <2>3, <2>4
  <1>3. Inv => ManualListHolds
    BY DEF Listed, ManualListHolds, ManualKeys, IsActive, Shaped
  <1> QED
    BY <1>1, <1>2, <1>3, PTL DEF Spec, BanRules

-----------------------------------------------------------------------------
(* The sizes of the tables *)

LEMMA RateEvictedSmaller ==
  ASSUME NEW table, IsFiniteSet(DOMAIN table), NEW t, NEW left \in RateEvicted(table, t)
  PROVE  IsFiniteSet(DOMAIN left) /\ Cardinality(DOMAIN left) <= RateEntries - 1
  <1>0. RateEntries \in Nat /\ RateEntries >= 1
    BY ConstantsAssumption DEF ConstantsOK
  <1> DEFINE kept == Restrict(table, {p \in DOMAIN table : table[p].tokens + (t - table[p].last) < Burst})
  <1> DEFINE size == Cardinality(DOMAIN kept)
  <1>1. DOMAIN kept \subseteq DOMAIN table
    BY DEF Restrict
  <1>2. IF size < RateEntries THEN left = kept
        ELSE \E v \in kSubset(size - (RateEntries - 1), DOMAIN kept) : left = Restrict(kept, DOMAIN kept \ v)
    BY DEF RateEvicted
  <1> HIDE DEF kept
  <1>3. IsFiniteSet(DOMAIN kept) /\ size \in Nat
    BY <1>1, FS_Subset, FS_CardinalityType
  <1>4. CASE size < RateEntries
    BY <1>0, <1>2, <1>3, <1>4
  <1>5. CASE ~(size < RateEntries)
    <2>1. PICK v \in SUBSET DOMAIN kept : Cardinality(v) = size - (RateEntries - 1) /\ left = Restrict(kept, DOMAIN kept \ v)
      BY <1>2, <1>5 DEF kSubset
    <2>2. DOMAIN left = DOMAIN kept \ v /\ DOMAIN kept \cap v = v
      BY <2>1 DEF Restrict
    <2>3. IsFiniteSet(DOMAIN kept \ v) /\ Cardinality(DOMAIN kept \ v) = size - Cardinality(DOMAIN kept \cap v)
      BY <1>3, FS_Difference
    <2> HIDE DEF size
    <2> QED
      BY <1>0, <1>3, <2>1, <2>2, <2>3
  <1> QED
    BY <1>4, <1>5

LEMMA RateTableBounded ==
  ASSUME NEW table, IsFiniteSet(DOMAIN table), Cardinality(DOMAIN table) <= RateEntries, NEW p, NEW t,
         NEW answer \in RateCheck(table, p, t)
  PROVE  IsFiniteSet(DOMAIN answer[2]) /\ Cardinality(DOMAIN answer[2]) <= RateEntries
  <1>0. RateEntries \in Nat /\ RateEntries >= 1
    BY ConstantsAssumption DEF ConstantsOK
  <1>1. CASE p \in DOMAIN table
    <2> DEFINE b == Refilled(table[p], t)
               x == [b EXCEPT !.tokens = b.tokens - 1]
    <2>1. answer = <<TRUE, WithBucket(table, p, x)>> \/ answer = <<FALSE, WithBucket(table, p, b)>>
      BY <1>1 DEF RateCheck
    <2> HIDE DEF b, x
    <2>2. DOMAIN answer[2] = DOMAIN table
      <3>1. CASE answer = <<TRUE, WithBucket(table, p, x)>>
        <4>1. answer[2] = WithBucket(table, p, x)
          BY <3>1
        <4> QED
          BY <1>1, <4>1 DEF WithBucket
      <3>2. CASE answer = <<FALSE, WithBucket(table, p, b)>>
        <4>1. answer[2] = WithBucket(table, p, b)
          BY <3>2
        <4> QED
          BY <1>1, <4>1 DEF WithBucket
      <3> QED
        BY <2>1, <3>1, <3>2
    <2> QED
      BY <2>2
  <1>2. CASE p \notin DOMAIN table
    <2>1. PICK left : /\ answer = <<TRUE, WithBucket(left, p, NewBucket(t))>>
                      /\ \/ left = table /\ Cardinality(DOMAIN table) < RateEntries
                         \/ left \in RateEvicted(table, t)
      BY <1>2 DEF RateCheck
    <2>2. DOMAIN answer[2] = DOMAIN left \cup {p}
      <3>1. answer[2] = WithBucket(left, p, NewBucket(t))
        BY <2>1
      <3> QED
        BY <3>1 DEF WithBucket
    <2>3. IsFiniteSet(DOMAIN left) /\ Cardinality(DOMAIN left) <= RateEntries - 1
      <3>1. CASE left \in RateEvicted(table, t)
        BY <3>1, RateEvictedSmaller
      <3>2. CASE left = table /\ Cardinality(DOMAIN table) < RateEntries
        <4>1. Cardinality(DOMAIN table) \in Nat
          BY FS_CardinalityType
        <4> QED
          BY <1>0, <3>2, <4>1
      <3> QED
        BY <2>1, <3>1, <3>2
    <2>4. IsFiniteSet(DOMAIN left \cup {p}) /\ Cardinality(DOMAIN left \cup {p}) <= Cardinality(DOMAIN left) + 1
          /\ Cardinality(DOMAIN left) \in Nat /\ Cardinality(DOMAIN left \cup {p}) \in Nat
      <3>1. Cardinality(DOMAIN left) \in Nat
        BY <2>3, FS_CardinalityType
      <3> QED
        BY <2>3, <3>1, FS_AddElement
    <2> QED
      BY <1>0, <2>2, <2>3, <2>4
  <1> QED
    BY <1>1, <1>2

\* A failure is recorded only where there is room for it.
LEMMA BanTableBounded ==
  ASSUME NEW table, \A p \in DOMAIN table : Shaped(table[p]), IsFiniteSet(DOMAIN table),
         Cardinality(DOMAIN table \ ManualKeys(table)) <= BanEntries,
         NEW p, NEW t \in Nat, NEW new \in RecordFailure(table, p, t)
  PROVE  IsFiniteSet(DOMAIN new) /\ Cardinality(DOMAIN new \ ManualKeys(new)) <= BanEntries
  <1>0. BanEntries \in Nat /\ BanEntries >= 1
    BY ConstantsAssumption DEF ConstantsOK
  <1>1. ManualKeys(new) = ManualKeys(table) /\ DOMAIN new \subseteq DOMAIN table \cup {p}
    BY RecordSucceeds DEF Succeeds
  <1>2. IsFiniteSet(DOMAIN new)
    BY <1>1, FS_AddElement, FS_Subset
  <1>3. ASSUME NEW e, NEW left, new = WithEntry(left, p, e), IsFiniteSet(DOMAIN left), Cardinality(DOMAIN left) < BanEntries
        PROVE  Cardinality(DOMAIN new \ ManualKeys(new)) <= BanEntries
    <2>1. DOMAIN new = DOMAIN left \cup {p}
      BY <1>3 DEF WithEntry
    <2>2. Cardinality(DOMAIN left) \in Nat
      BY <1>3, FS_CardinalityType
    <2>3. Cardinality(DOMAIN left \cup {p}) \in {Cardinality(DOMAIN left), Cardinality(DOMAIN left) + 1}
      BY <1>3, FS_AddElement
    <2>4. Cardinality(DOMAIN new) <= BanEntries /\ Cardinality(DOMAIN new) \in Nat
      BY <1>0, <1>3, <2>1, <2>2, <2>3
    <2> DEFINE rest == DOMAIN new \ ManualKeys(new)
    <2>5. IsFiniteSet(rest) /\ Cardinality(rest) <= Cardinality(DOMAIN new)
      BY <1>2, FS_Subset
    <2>6. Cardinality(rest) \in Nat
      BY <2>5, FS_CardinalityType
    <2> HIDE DEF rest
    <2>7. Cardinality(rest) <= BanEntries
      BY <1>0, <2>4, <2>5, <2>6
    <2> QED
      BY <2>7 DEF rest
  <1>4. ASSUME DOMAIN new \subseteq DOMAIN table
        PROVE  Cardinality(DOMAIN new \ ManualKeys(new)) <= BanEntries
    <2> DEFINE rest == DOMAIN new \ ManualKeys(new)
    <2> DEFINE was == DOMAIN table \ ManualKeys(table)
    <2>1. rest \in SUBSET was
      BY <1>1, <1>4
    <2>2. IsFiniteSet(was)
      BY FS_Subset
    <2>3. IsFiniteSet(rest) /\ Cardinality(rest) <= Cardinality(was)
      BY <2>1, <2>2, FS_Subset
    <2>4. Cardinality(rest) \in Nat /\ Cardinality(was) \in Nat /\ Cardinality(was) <= BanEntries
      BY <2>2, <2>3, FS_CardinalityType
    <2> HIDE DEF rest, was
    <2>5. Cardinality(rest) <= BanEntries
      BY <1>0, <2>3, <2>4
    <2> QED
      BY <2>5 DEF rest
  <1>5. CASE p \in DOMAIN table
    BY <1>1, <1>2, <1>4, <1>5
  <1>6. CASE p \notin DOMAIN table
    <2> DEFINE fresh == Charged(DefaultEntry, t)
    <2>1. \/ new = WithEntry(table, p, fresh) /\ Cardinality(DOMAIN table) < BanEntries
          \/ \E left \in Evicted(table, t) : \/ new = WithEntry(left, p, fresh) /\ Cardinality(DOMAIN left) < BanEntries
                                             \/ new = left
      BY <1>6 DEF RecordFailure
    <2> HIDE DEF fresh
    <2>2. CASE new = WithEntry(table, p, fresh) /\ Cardinality(DOMAIN table) < BanEntries
      BY <1>2, <1>3, <2>2
    <2>3. ASSUME NEW left \in Evicted(table, t), new = left \/ (new = WithEntry(left, p, fresh) /\ Cardinality(DOMAIN left) < BanEntries)
          PROVE  Cardinality(DOMAIN new \ ManualKeys(new)) <= BanEntries
      <3>1. DOMAIN left \subseteq DOMAIN table
        BY EvictedKeeps
      <3>2. IsFiniteSet(DOMAIN left)
        BY <3>1, FS_Subset
      <3> QED
        BY <1>3, <1>4, <2>3, <3>1, <3>2
    <2> QED
      BY <1>2, <2>1, <2>2, <2>3
  <1> QED
    BY <1>2, <1>5, <1>6

LEMMA CountedStep ==
  ASSUME DoorType, Clocked, Listed, Counted, [Next]_vars
  PROVE  Counted'
  <1>0. BanEntries \in Nat /\ RateEntries \in Nat
    BY ConstantsAssumption DEF ConstantsOK
  <1>1. now \in Nat /\ \A p \in DOMAIN entries : Shaped(entries[p])
    BY ConstantsAssumption DEF ConstantsOK, Clocked, Times, Listed
  <1> DEFINE Bans(t) == IsFiniteSet(DOMAIN t) /\ Cardinality(DOMAIN t \ ManualKeys(t)) <= BanEntries
  <1> DEFINE Rates(t) == IsFiniteSet(DOMAIN t) /\ Cardinality(DOMAIN t) <= RateEntries
  <1>2. Bans(entries) /\ Rates(buckets)
    BY DEF Counted, TablesBounded
  <1>3. IsFiniteSet(KeysOf(file'.list))
    <2>1. CASE file' = file
      BY <2>1 DEF Counted
    <2>2. CASE FileDamaged
      <3>1. file'.list = {}
        BY <2>2 DEF FileDamaged, Absent, Corrupt
      <3>2. KeysOf(file'.list) = {}
        BY <3>1 DEF KeysOf
      <3> QED
        BY <3>2, FS_EmptySet
    <2>3. ASSUME NEW ip \in Ips, SecurityBan(ip) \/ SecurityUnban(ip) PROVE IsFiniteSet(KeysOf(file'.list))
      <3>1. file'.list = file.list \cup {ip} \/ file'.list = file.list \ {ip}
        BY <2>3 DEF SecurityBan, SecurityUnban, FileWith
      <3>2. KeysOf(file'.list) \subseteq KeysOf(file.list) \cup {Key[ip]}
        BY <3>1 DEF KeysOf
      <3>3. IsFiniteSet(KeysOf(file.list) \cup {Key[ip]})
        BY FS_AddElement DEF Counted
      <3> QED
        BY <3>2, <3>3, FS_Subset
    <2>4. \/ file' = file
          \/ FileDamaged
          \/ \E ip \in Ips : SecurityBan(ip) \/ SecurityUnban(ip)
      BY DEF Next, Accept, Step, CheckBan, CheckRate, Blame, Handshake, Serve, Close, Reload, Shutdown, Stop, Restart,
             Tick, SetBack, vars, manual
    <2> QED
      BY <2>1, <2>2, <2>3, <2>4
  <1>4. Rates(buckets')
    <2>1. ASSUME NEW c \in Conns, CheckRate(c) PROVE Rates(buckets')
      <3>1. PICK answer \in RateCheck(buckets, Peer(c), now) : buckets' = answer[2]
        BY <2>1 DEF CheckRate
      <3>2. IsFiniteSet(DOMAIN answer[2]) /\ Cardinality(DOMAIN answer[2]) <= RateEntries
        BY <1>2, <3>1, RateTableBounded
      <3> QED
        BY <3>1, <3>2
    <2>2. CASE Restart
      <3>1. DOMAIN buckets' = {}
        BY <2>2, EmptyTable DEF Restart
      <3> QED
        BY <1>0, <3>1, FS_EmptySet
    <2>3. CASE buckets' = buckets
      BY <1>2, <2>3
    <2>4. ASSUME ~Restart, \A c \in Conns : ~CheckRate(c) PROVE buckets' = buckets
      BY <2>4 DEF Next, Accept, Step, CheckBan, Blame, Handshake, Serve, Close, SecurityBan, SecurityUnban,
                  Order, FileDamaged, Reload, Shutdown, Stop, Tick, SetBack, vars, bans
    <2> QED
      BY <2>1, <2>2, <2>3, <2>4
  <1>5. Bans(entries')
    <2>1. ASSUME NEW c \in Conns, CheckBan(c) PROVE Bans(entries')
      <3>1. Succeeds(entries, entries', now) /\ DOMAIN entries' = DOMAIN entries
        BY <1>1, <2>1, CheckedSucceeds DEF CheckBan
      <3>2. ManualKeys(entries') = ManualKeys(entries)
        BY <3>1 DEF Succeeds
      <3> QED
        BY <1>2, <3>1, <3>2
    <2>2. ASSUME NEW c \in Conns, Blame(c) PROVE Bans(entries')
      <3>1. entries' \in RecordFailure(entries, Peer(c), now)
        BY <2>2 DEF Blame, Charge
      <3> QED
        BY <1>1, <1>2, <3>1, BanTableBounded
    <2>3. ASSUME NEW list, Apply(list), IsFiniteSet(KeysOf(list)) PROVE Bans(entries')
      <3> DEFINE wanted == KeysOf(list)
      <3>1. Agrees(entries, ApplyManual(entries, wanted), wanted, now) /\ entries' = ApplyManual(entries, wanted)
        BY <1>1, <2>3, ApplyAgrees DEF Apply
      <3>2. /\ DOMAIN entries' \subseteq DOMAIN entries \cup wanted
            /\ ManualKeys(entries') = wanted
            /\ DOMAIN entries' \ wanted \subseteq DOMAIN entries \ ManualKeys(entries)
        BY <3>1 DEF Agrees
      <3>3. IsFiniteSet(DOMAIN entries \cup wanted)
        BY <1>2, <2>3, FS_Union
      <3>4. IsFiniteSet(DOMAIN entries')
        BY <3>2, <3>3, FS_Subset
      <3> DEFINE rest == DOMAIN entries' \ wanted
      <3> DEFINE was == DOMAIN entries \ ManualKeys(entries)
      <3>5. IsFiniteSet(was) /\ Cardinality(was) <= BanEntries
        BY <1>2, FS_Subset
      <3>6. IsFiniteSet(rest) /\ Cardinality(rest) <= Cardinality(was)
        BY <3>2, <3>5, FS_Subset
      <3>7. Cardinality(rest) \in Nat /\ Cardinality(was) \in Nat
        BY <3>5, <3>6, FS_CardinalityType
      <3>8. Cardinality(rest) <= BanEntries
        <4> HIDE DEF rest, was
        <4> QED
          BY <1>0, <3>5, <3>6, <3>7
      <3> QED
        BY <3>2, <3>4, <3>8
    <2>4. CASE Reload
      <3>1. Apply({}) \/ Apply(file.list)
        BY <2>4 DEF Reload
      <3>2. IsFiniteSet(KeysOf({})) /\ IsFiniteSet(KeysOf(file.list))
        <4>1. KeysOf({}) = {}
          BY DEF KeysOf
        <4> QED
          BY <4>1, FS_EmptySet DEF Counted
      <3> QED
        BY <2>3, <3>1, <3>2
    <2>5. CASE Restart
      <3>1. DOMAIN entries' = {} /\ ManualKeys(entries') = {}
        BY <2>5, EmptyTable DEF Restart
      <3> QED
        BY <1>0, <3>1, FS_EmptySet
    <2>6. CASE entries' = entries
      BY <1>2, <2>6
    <2>7. ASSUME ~Restart, ~Reload, \A c \in Conns : ~CheckBan(c) /\ ~Blame(c) PROVE entries' = entries
      BY <2>7 DEF Next, Accept, Step, CheckRate, Handshake, Serve, Close, SecurityBan, SecurityUnban,
                  Order, FileDamaged, Shutdown, Stop, Tick, SetBack, vars, bans
    <2> QED
      BY <2>1, <2>2, <2>4, <2>5, <2>6, <2>7
  <1> QED
    BY <1>3, <1>4, <1>5 DEF Counted, TablesBounded

\* The tables about peers stay within their limits, whoever connects and
\* however failures, evictions and reloads interleave; only the operator's
\* own list may exceed the limit of the ban table.
THEOREM TablesAlwaysBounded == Spec => []TablesBounded
  <1> DEFINE Inv == SlotsInv /\ Clocked /\ Listed /\ Counted
  <1>1. Init => Inv
    <2> SUFFICES ASSUME Init PROVE Clocked /\ Counted
      BY SlotsInit, BansInit
    <2>1. Clocked
      BY ConstantsAssumption DEF ConstantsOK, Init, Clocked, Times
    <2>2. DOMAIN entries = {} /\ DOMAIN buckets = {} /\ KeysOf(file.list) = {}
      BY EmptyTable DEF Init, Absent, KeysOf
    <2>3. BanEntries \in Nat /\ RateEntries \in Nat
      BY ConstantsAssumption DEF ConstantsOK
    <2>4. DOMAIN entries \ ManualKeys(entries) = {}
      BY <2>2
    <2>5. Counted
      BY <2>2, <2>3, <2>4, FS_EmptySet DEF Counted, TablesBounded
    <2> QED
      BY <2>1, <2>5
  <1>2. Inv /\ [Next]_vars => Inv'
    <2> SUFFICES ASSUME Inv, [Next]_vars PROVE Inv'
      OBVIOUS
    <2>1. SlotsInv'
      BY SlotsStep
    <2>2. DoorType
      BY DEF SlotsInv
    <2>3. Clocked'
      BY <2>2, ClockStep
    <2>4. Listed'
      BY <2>2, BansStep
    <2>5. Counted'
      BY <2>2, CountedStep
    <2> QED
      BY <2>1, <2>3, <2>4, <2>5
  <1>3. Inv => TablesBounded
    BY DEF Counted
  <1> QED
    BY <1>1, <1>2, <1>3, PTL DEF Spec
=============================================================================
