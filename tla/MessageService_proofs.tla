----------------------- MODULE MessageService_proofs -----------------------
(***************************************************************************)
(* Safety of the work threads for every number of threads, connections,    *)
(* UDP sources and messages, and for every limit of the queues.            *)
(*                                                                         *)
(* TypeOK is not inductive alone: the thread CheckQueue routes to is       *)
(* computed from what the CMessage of the producer carries, so the proof   *)
(* needs HandBase; HandBase needs that nobody else fills that CMessage,    *)
(* which is OneHolder.  The three together are inductive.                  *)
(***************************************************************************)
EXTENDS MessageService, SequenceTheorems, FiniteSetTheorems, TLAPS

\* What a producer has in hand is its own packet, of its own kind.
HandBase ==
  \A p \in Producers : ppc[p] # "idle" =>
    /\ base[hand[p]].from = p
    /\ p \in UdpSources => base[hand[p]].type = "UDP"

IInd == TypeOK /\ HandBase /\ OneHolder

\* Producer p takes cell c from the pool of thread t.
CreateStep(p, t, c) ==
  /\ free' = [free EXCEPT ![t] = @ \ {c}]
  /\ used' = [used EXCEPT ![t] = @ \cup {c}]
  /\ base' = [base EXCEPT ![c] = SetMessage(@, p, sent[p] + 1)]
  /\ hand' = [hand EXCEPT ![p] = c]

-----------------------------------------------------------------------------
\* The loops over the threads, and the route of a connection, stay in range.
LEMMA ModThreads == \A n \in Nat : n % NThreads \in Threads
BY ThreadsAssumption, SMT DEF Threads

\* Inside the range, the loop index is the number itself.
LEMMA ModIdentity == ASSUME NEW n \in Nat, n < NThreads PROVE n % NThreads = n
BY ThreadsAssumption, Z3T(30)

\* The route of what a producer has in hand leads to a thread.
LEMMA RouteInThreads ==
  ASSUME TypeOK, HandBase, NEW p \in Producers, ppc[p] = "filled"
  PROVE  /\ hand[p] \in Cells
         /\ GetWorkThreadID(base[hand[p]].from, base[hand[p]].type) \subseteq Threads
<1>1. hand[p] \in Cells
  BY DEF TypeOK
<1>2. base[hand[p]].from = p /\ (p \in UdpSources => base[hand[p]].type = "UDP")
  BY DEF HandBase
<1>3. CASE base[hand[p]].type = "TCP"
  <2>1. p \in Nat
    BY <1>2, <1>3, ProducersAssumption DEF Producers
  <2> QED BY <1>1, <1>2, <1>3, <2>1, ModThreads DEF GetWorkThreadID
<1>4. CASE base[hand[p]].type # "TCP"
  BY <1>1, <1>4 DEF GetWorkThreadID
<1> QED BY <1>3, <1>4

\* What SetMessage leaves in a message is a legal base.
LEMMA SetMessageType ==
  ASSUME NEW b \in Bases, NEW p \in Producers, NEW n \in 0 .. MaxPackets
  PROVE  /\ SetMessage(b, p, n) \in Bases
         /\ SetMessage(b, p, n).from = p
         /\ p \in UdpSources => SetMessage(b, p, n).type = "UDP"
BY DEF SetMessage, Bases

-----------------------------------------------------------------------------
(* Type correctness, one lemma per group of actions                        *)

LEMMA TypeInit == Init => TypeOK
BY ThreadsAssumption, LimitsAssumption, CellsAssumption
   DEF Init, TypeOK, Threads, FreshBase, Bases

LEMMA TypeCreate ==
  ASSUME TypeOK, NEW p \in Producers, CreateAndSet(p)
  PROVE  TypeOK'
<1>t. PICK t \in GetWorkThreadID(p, IF p \in UdpSources THEN "UDP" ELSE "TCP") :
        \E c \in CreateFrom(t) : CreateStep(p, t, c)
  BY DEF CreateAndSet, CreateStep
<1>1. PICK c \in CreateFrom(t) : CreateStep(p, t, c)
  BY <1>t
<1>2. t \in Threads
  <2>1. CASE p \in UdpSources
    BY <2>1 DEF GetWorkThreadID
  <2>2. CASE p \notin UdpSources
    BY <2>2, ModThreads, ProducersAssumption DEF GetWorkThreadID, Producers
  <2> QED BY <2>1, <2>2
<1>3. c \in Cells
  BY <1>2 DEF CreateFrom, TypeOK
<1>4. base[c] \in Bases /\ sent[p] + 1 \in 0 .. MaxPackets
  BY <1>3, LimitsAssumption DEF TypeOK, CreateAndSet
<1>5. SetMessage(base[c], p, sent[p] + 1) \in Bases
  BY <1>4, SetMessageType
<1>6. /\ free' \in [Threads -> SUBSET Cells]
      /\ used' \in [Threads -> SUBSET Cells]
      /\ base' \in [Cells -> Bases]
      /\ hand' \in [Producers -> Cells \cup {NoCell}]
  BY <1>1, <1>2, <1>3, <1>5 DEF TypeOK, CreateStep
<1>7. /\ ppc' \in [Producers -> {"idle", "filled", "checked"}]
      /\ sent' \in [Producers -> 0 .. MaxPackets]
  BY <1>4 DEF TypeOK, CreateAndSet
<1>8. \A q \in Producers : ppc'[q] = "idle" <=> hand'[q] = NoCell
  BY <1>1, <1>3, CellsAssumption DEF TypeOK, CreateAndSet, CreateStep
<1> QED BY <1>6, <1>7, <1>8 DEF TypeOK, CreateAndSet, workVars, unloVars

LEMMA TypePut ==
  ASSUME TypeOK, HandBase, NEW p \in Producers, Put(p)
  PROVE  TypeOK'
<1>1. CASE CheckQueue(p)
  <2>1. PICK t \in GetWorkThreadID(base[hand[p]].from, base[hand[p]].type) :
          \/ target' = [target EXCEPT ![p] = t] /\ ppc' = [ppc EXCEPT ![p] = "checked"]
             /\ hand' = hand
          \/ Forget(p) /\ target' = target
    BY <1>1 DEF CheckQueue
  <2>2. t \in Threads /\ ppc[p] = "filled"
    BY <1>1, RouteInThreads DEF CheckQueue
  <2>3. /\ ppc' \in [Producers -> {"idle", "filled", "checked"}]
        /\ hand' \in [Producers -> Cells \cup {NoCell}]
        /\ target' \in [Producers -> Threads]
    <3>1. /\ ppc \in [Producers -> {"idle", "filled", "checked"}]
          /\ hand \in [Producers -> Cells \cup {NoCell}]
          /\ target \in [Producers -> Threads]
      BY DEF TypeOK
    <3>2. CASE Forget(p) /\ target' = target
      BY <3>1, <3>2 DEF Forget
    <3>3. CASE ~(Forget(p) /\ target' = target)
      BY <2>1, <2>2, <3>1, <3>3
    <3> QED BY <3>2, <3>3
  <2>4. \A q \in Producers : ppc'[q] = "idle" <=> hand'[q] = NoCell
    BY <2>1, <2>2 DEF TypeOK, Forget
  <2> QED BY <1>1, <2>3, <2>4 DEF TypeOK, CheckQueue, poolVars, workVars, unloVars
<1>2. CASE Putq(p)
  <2>1. hand[p] \in Cells /\ target[p] \in Threads /\ queue[target[p]] \in Seq(Cells)
    BY <1>2 DEF Putq, TypeOK
  <2>2. Append(queue[target[p]], hand[p]) \in Seq(Cells)
    BY <2>1, AppendProperties
  <2>3. queue' \in [Threads -> Seq(Cells)]
    BY <1>2, <2>2 DEF Putq, TypeOK
  <2> QED BY <1>2, <2>3 DEF TypeOK, Putq, Forget, poolVars, workVars, unloVars
<1>3. CASE PutqTimeout(p)
  BY <1>3 DEF TypeOK, PutqTimeout, Forget, poolVars, workVars, unloVars
<1> QED BY <1>1, <1>2, <1>3 DEF Put

LEMMA TypePoolDelete ==
  ASSUME TypeOK, NEW w \in Threads, NEW c \in Cells, PoolDelete(w, c)
  PROVE  free' \in [Threads -> SUBSET Cells] /\ used' \in [Threads -> SUBSET Cells]
BY DEF TypeOK, PoolDelete

LEMMA TypeHandled ==
  ASSUME TypeOK, NEW w \in Threads, Handled(w)
  PROVE  served' \in [Conns -> 0 .. MaxPackets]
<1>1. cmd[w].num \in 0 .. MaxPackets
  BY DEF TypeOK, Bases
<1> QED BY <1>1 DEF TypeOK, Handled

LEMMA TypeWork ==
  ASSUME TypeOK, NEW w \in Threads, Work(w)
  PROVE  TypeOK'
<1> USE CellsAssumption
<1>1. CASE Getq(w)
  <2>1. queue[w] \in Seq(Cells) /\ queue[w] # <<>>
    BY <1>1 DEF Getq, TypeOK
  <2>2. Head(queue[w]) \in Cells /\ Tail(queue[w]) \in Seq(Cells)
    BY <2>1, HeadTailProperties
  <2> QED BY <1>1, <2>2 DEF TypeOK, Getq, poolVars, prodVars, unloVars
<1>2. CASE PassGate(w)
  BY <1>2 DEF TypeOK, PassGate, poolVars, prodVars, unloVars
<1>3. CASE Begin(w)
  BY <1>3 DEF TypeOK, Begin, poolVars, prodVars, unloVars
<1>4. CASE Refuse(w)
  <2>1. cur[w] \in Cells
    BY <1>4 DEF TypeOK, Refuse
  <2>2. free' \in [Threads -> SUBSET Cells] /\ used' \in [Threads -> SUBSET Cells]
    BY <1>4, <2>1, TypePoolDelete DEF Refuse
  <2>3. served' \in [Conns -> 0 .. MaxPackets]
    BY <1>4, TypeHandled DEF Refuse
  <2> QED BY <1>4, <2>2, <2>3 DEF TypeOK, Refuse, prodVars, unloVars
<1>5. CASE DoMessage(w)
  <2>1. cur[w] \in Cells
    BY <1>5 DEF TypeOK, DoMessage
  <2>2. served' \in [Conns -> 0 .. MaxPackets]
    BY <1>5, TypeHandled DEF DoMessage
  <2>3. /\ wpc' \in [Threads -> {"getq", "gate", "passed", "begun", "delete", "tail"}]
        /\ kept' \subseteq Cells
    BY <1>5, <2>1 DEF TypeOK, DoMessage
  <2>4. wpc[w] = "begun" /\ wpc'[w] # "getq" /\ \A v \in Threads : v # w => wpc'[v] = wpc[v]
    BY <1>5 DEF TypeOK, DoMessage
  <2>5. /\ UNCHANGED <<free, used, base, queue, ppc, hand, target, sent, cur, cmd, step,
                       state, upc, uidx, unloads, entered>>
    BY <1>5 DEF DoMessage, poolVars, prodVars, unloVars
  <2>6. \A v \in Threads : wpc'[v] = "getq" <=> cur'[v] = NoCell
    BY <2>4, <2>5 DEF TypeOK
  <2> QED BY <2>2, <2>3, <2>5, <2>6 DEF TypeOK
<1>6. CASE DeleteMessage(w)
  <2>1. cur[w] \in Cells
    BY <1>6 DEF TypeOK, DeleteMessage
  <2>2. free' \in [Threads -> SUBSET Cells] /\ used' \in [Threads -> SUBSET Cells]
    BY <1>6, <2>1, TypePoolDelete DEF DeleteMessage
  <2> QED BY <1>6, <2>2 DEF TypeOK, DeleteMessage, prodVars, unloVars
<1>7. CASE Finish(w)
  BY <1>7 DEF TypeOK, Finish, poolVars, prodVars, unloVars
<1> QED BY <1>1, <1>2, <1>3, <1>4, <1>5, <1>6, <1>7 DEF Work

LEMMA TypeAdvance ==
  ASSUME TypeOK, NEW next \in {"idle", "scan", "unload"}, Advance(next)
  PROVE  /\ uidx' \in Threads
         /\ upc' \in {upc, next}
         /\ unloads' = unloads
<1>1. uidx + 1 \in Nat
  BY ThreadsAssumption DEF TypeOK, Threads
<1> QED BY <1>1, ModThreads DEF Advance, TypeOK

LEMMA TypeUnload ==
  ASSUME TypeOK, StartUnload \/ Unload
  PROVE  TypeOK'
<1>1. CASE StartUnload
  <2>1. 0 \in Threads
    BY ThreadsAssumption DEF Threads
  <2>2. unloads' \in 0 .. MaxUnloads
    BY <1>1, LimitsAssumption DEF StartUnload, TypeOK
  <2> QED BY <1>1, <2>1, <2>2 DEF TypeOK, StartUnload, poolVars, prodVars, workVars
<1>2. CASE MarkThread
  <2>1. uidx' \in Threads /\ upc' \in {upc, "scan"} /\ unloads' = unloads
    BY <1>2, TypeAdvance DEF MarkThread
  <2> QED BY <1>2, <2>1 DEF TypeOK, MarkThread, poolVars, prodVars, workVars
<1>3. CASE ScanThread
  <2>1. 0 \in Threads
    BY ThreadsAssumption DEF Threads
  <2>2. uidx' \in Threads /\ upc' \in {upc, "unload"} /\ unloads' = unloads
    BY <1>3, <2>1, TypeAdvance DEF ScanThread
  <2> QED BY <1>3, <2>2 DEF TypeOK, ScanThread, poolVars, prodVars, workVars
<1>4. CASE UnloadModuleCommand
  BY <1>4 DEF TypeOK, UnloadModuleCommand, poolVars, prodVars
<1>5. CASE ResumeThread
  <2>1. uidx' \in Threads /\ upc' \in {upc, "idle"} /\ unloads' = unloads
    BY <1>5, TypeAdvance DEF ResumeThread
  <2> QED BY <1>5, <2>1 DEF TypeOK, ResumeThread, poolVars, prodVars, workVars
<1> QED BY <1>1, <1>2, <1>3, <1>4, <1>5 DEF Unload

LEMMA TypeStutter == TypeOK /\ UNCHANGED vars => TypeOK'
BY DEF TypeOK, vars

-----------------------------------------------------------------------------
(* One holder per message                                                  *)

\* What a step says of the places a message can be in.
SameQueues == queue' = queue
SameHands  == hand' = hand
SameKept   == kept' = kept
SamePools  == free' = free /\ used' = used
SameWork   ==
  \A w \in Threads : (Owns(w)' <=> Owns(w)) /\ (Owns(w) => cur'[w] = cur[w])

LEMMA HolderInit == Init => OneHolder
<1> SUFFICES ASSUME Init PROVE OneHolder
  OBVIOUS
<1>1. \A t \in Threads : queue[t] = <<>> /\ used[t] = {} /\ ~Owns(t)
  BY DEF Init, Owns
<1>2. \A p \in Producers : hand[p] = NoCell
  BY DEF Init
<1>3. \A c \in Cells : ~InQueue(c) /\ ~InHand(c) /\ ~AtWork(c) /\ c \notin kept
  BY <1>1, <1>2, CellsAssumption DEF Init, InQueue, InHand, AtWork
<1>4. \A t, u \in Threads : t # u => free[t] \cap free[u] = {}
  BY DEF Init
<1>5. QueuedOnce /\ HandsDiffer /\ WorksDiffer
  BY <1>1, <1>2 DEF QueuedOnce, HandsDiffer, WorksDiffer
<1>6. OneKindOfHolder /\ CountedAsUsed
  BY <1>3 DEF OneKindOfHolder, CountedAsUsed, InFlight
<1>7. PoolsDisjoint
  BY <1>1, <1>4 DEF PoolsDisjoint
<1> QED BY <1>5, <1>6, <1>7 DEF OneHolder

\* A place that a step leaves alone holds the same messages after it.
LEMMA PlacesKept ==
  /\ SameQueues => \A c : InQueue(c)' <=> InQueue(c)
  /\ SameHands => \A c : InHand(c)' <=> InHand(c)
  /\ SameWork => \A c : AtWork(c)' <=> AtWork(c)
  /\ SameQueues => (QueuedOnce => QueuedOnce')
  /\ SameHands => (HandsDiffer => HandsDiffer')
  /\ SameWork => (WorksDiffer => WorksDiffer')
<1>1. SameQueues => \A c : InQueue(c)' <=> InQueue(c)
  BY DEF SameQueues, InQueue
<1>2. SameHands => \A c : InHand(c)' <=> InHand(c)
  BY DEF SameHands, InHand
<1>3. SameWork => \A c : AtWork(c)' <=> AtWork(c)
  BY DEF SameWork, AtWork
<1>4. SameQueues => (QueuedOnce => QueuedOnce')
  BY DEF SameQueues, QueuedOnce
<1>5. SameHands => (HandsDiffer => HandsDiffer')
  BY DEF SameHands, HandsDiffer
<1>6. SameWork => (WorksDiffer => WorksDiffer')
  BY DEF SameWork, WorksDiffer
<1> QED BY <1>1, <1>2, <1>3, <1>4, <1>5, <1>6

\* A message taken from a pool has no holder yet.
LEMMA FreshCell ==
  ASSUME TypeOK, OneHolder, NEW t \in Threads, NEW c \in CreateFrom(t)
  PROVE  /\ c \in Cells
         /\ ~InFlight(c)
         /\ \A u \in Threads : c \notin used[u] /\ (u # t => c \notin free[u])
<1>1. CASE free[t] # {}
  <2>1. c \in free[t] /\ c \in Cells
    BY <1>1 DEF CreateFrom, TypeOK
  <2> QED BY <2>1 DEF OneHolder, PoolsDisjoint, CountedAsUsed
<1>2. CASE free[t] = {}
  <2>1. c \in Cells /\ c \notin Allocated
    BY <1>2 DEF CreateFrom
  <2>2. \A u \in Threads : c \notin used[u] /\ c \notin free[u]
    BY <2>1 DEF Allocated
  <2> QED BY <2>1, <2>2 DEF OneHolder, CountedAsUsed
<1> QED BY <1>1, <1>2

LEMMA HolderCreate ==
  ASSUME TypeOK, OneHolder, NEW p \in Producers, CreateAndSet(p)
  PROVE  OneHolder'
<1>t. PICK t \in GetWorkThreadID(p, IF p \in UdpSources THEN "UDP" ELSE "TCP") :
        \E c \in CreateFrom(t) : CreateStep(p, t, c)
  BY DEF CreateAndSet, CreateStep
<1>1. PICK c \in CreateFrom(t) : CreateStep(p, t, c)
  BY <1>t
<1>2. t \in Threads
  BY ModThreads, ProducersAssumption DEF GetWorkThreadID, Producers
<1>3. /\ c \in Cells
      /\ ~InFlight(c)
      /\ \A u \in Threads : c \notin used[u] /\ (u # t => c \notin free[u])
  BY <1>2, FreshCell
<1>4. SameQueues /\ SameKept /\ SameWork
  BY DEF CreateAndSet, workVars, SameQueues, SameKept, SameWork, Owns
<1>5. hand[p] = NoCell /\ hand' = [hand EXCEPT ![p] = c]
  BY <1>1 DEF CreateAndSet, CreateStep, TypeOK
<1>6. \A d \in Cells : InHand(d)' => InHand(d) \/ d = c
  BY <1>5 DEF TypeOK, InHand
<1>7. /\ free' = [free EXCEPT ![t] = @ \ {c}]
      /\ used' = [used EXCEPT ![t] = @ \cup {c}]
  BY <1>1 DEF CreateStep
<1>8. QueuedOnce' /\ WorksDiffer'
  BY <1>4, PlacesKept DEF OneHolder
<1>9. HandsDiffer'
  BY <1>3, <1>5 DEF OneHolder, HandsDiffer, TypeOK, InFlight, InHand
<1>10. OneKindOfHolder'
  BY <1>3, <1>4, <1>6, PlacesKept DEF OneHolder, OneKindOfHolder, SameKept, InFlight
<1>11. CountedAsUsed'
  <2> SUFFICES ASSUME NEW d \in Cells, InFlight(d)' PROVE \E u \in Threads : d \in used'[u]
    BY DEF CountedAsUsed
  <2>1. CASE d = c
    BY <2>1, <1>2, <1>7 DEF TypeOK
  <2>2. CASE d # c
    <3>1. InFlight(d)
      BY <2>2, <1>4, <1>6, PlacesKept DEF InFlight, SameKept
    <3>2. PICK u \in Threads : d \in used[u]
      BY <3>1 DEF OneHolder, CountedAsUsed
    <3> QED BY <3>2, <1>2, <1>7 DEF TypeOK
  <2> QED BY <2>1, <2>2
<1>12. PoolsDisjoint'
  BY <1>2, <1>3, <1>7 DEF OneHolder, PoolsDisjoint, TypeOK
<1> QED BY <1>8, <1>9, <1>10, <1>11, <1>12 DEF OneHolder

\* An empty hand: its message is in no hand any more.
LEMMA HandDropped ==
  ASSUME TypeOK, OneHolder, NEW p \in Producers, hand' = [hand EXCEPT ![p] = NoCell]
  PROVE  /\ HandsDiffer'
         /\ \A d \in Cells : InHand(d)' => InHand(d) /\ d # hand[p]
<1>1. /\ hand \in [Producers -> Cells \cup {NoCell}]
      /\ \A q \in Producers : hand'[q] = IF q = p THEN NoCell ELSE hand[q]
  BY DEF TypeOK
<1>2. \A q, r \in Producers : hand[q] = hand[r] /\ hand[q] # NoCell => q = r
  BY DEF OneHolder, HandsDiffer
<1>3. HandsDiffer'
  BY <1>1, <1>2 DEF HandsDiffer
<1>4. ASSUME NEW d \in Cells, InHand(d)' PROVE InHand(d) /\ d # hand[p]
  <2>1. PICK q \in Producers : hand'[q] = d
    BY <1>4 DEF InHand
  <2>2. q # p /\ hand[q] = d /\ d # NoCell
    BY <1>1, <2>1, CellsAssumption
  <2> QED BY <1>2, <2>2 DEF InHand
<1> QED BY <1>3, <1>4

\* A producer that forgets its message leaves it, still used, to nobody.
LEMMA HolderPut ==
  ASSUME TypeOK, OneHolder, NEW p \in Producers, Put(p)
  PROVE  OneHolder'
<1>0. SameWork /\ SameKept /\ SamePools
  BY DEF Put, CheckQueue, Putq, PutqTimeout, poolVars, workVars, SameWork, SameKept,
         SamePools, Owns
<1>1. PoolsDisjoint' /\ WorksDiffer'
  BY <1>0, PlacesKept DEF OneHolder, PoolsDisjoint, SamePools
<1>2. CASE queue' = queue /\ (hand' = hand \/ Forget(p))
  <2>1. HandsDiffer' /\ \A d \in Cells : InHand(d)' => InHand(d)
    <3>1. CASE hand' = hand
      BY <3>1, PlacesKept DEF OneHolder, SameHands
    <3>2. CASE hand' = [hand EXCEPT ![p] = NoCell]
      BY <3>2, HandDropped
    <3> QED BY <1>2, <3>1, <3>2 DEF Forget
  <2>2. SameQueues
    BY <1>2 DEF SameQueues
  <2>3. QueuedOnce'
    BY <2>2, PlacesKept DEF OneHolder
  <2>4. OneKindOfHolder' /\ CountedAsUsed'
    BY <1>0, <2>1, <2>2, PlacesKept
       DEF OneHolder, OneKindOfHolder, CountedAsUsed, InFlight, SameKept, SamePools
  <2> QED BY <1>1, <2>1, <2>3, <2>4 DEF OneHolder
<1>3. CASE Putq(p)
  <2>a. PICK c \in Cells : c = hand[p]
    BY <1>3 DEF Putq, TypeOK
  <2>b. PICK t \in Threads : t = target[p]
    BY <1>3 DEF Putq, TypeOK
  <2>1. InHand(c) /\ queue[t] \in Seq(Cells)
    BY <2>a DEF TypeOK, InHand
  <2>2. queue' = [queue EXCEPT ![t] = Append(@, c)] /\ hand' = [hand EXCEPT ![p] = NoCell]
    BY <1>3, <2>a, <2>b DEF Putq, Forget
  <2>3. /\ DOMAIN Append(queue[t], c) = 1 .. Len(queue[t]) + 1
        /\ \A i \in DOMAIN queue[t] : Append(queue[t], c)[i] = queue[t][i]
        /\ Append(queue[t], c)[Len(queue[t]) + 1] = c
        /\ DOMAIN queue[t] = 1 .. Len(queue[t]) /\ Len(queue[t]) \in Nat
    BY <2>1
  <2>4. /\ \A u \in Threads : u # t => queue'[u] = queue[u]
        /\ DOMAIN queue'[t] = DOMAIN queue[t] \cup {Len(queue[t]) + 1}
        /\ Len(queue[t]) + 1 \notin DOMAIN queue[t]
        /\ \A i \in DOMAIN queue[t] : queue'[t][i] = queue[t][i]
        /\ queue'[t][Len(queue[t]) + 1] = c
    BY <2>1, <2>2, <2>3 DEF TypeOK
  <2>5. ~InQueue(c) /\ ~AtWork(c) /\ c \notin kept
    BY <2>1 DEF OneHolder, OneKindOfHolder
  <2>6. \A u \in Threads : \A i \in DOMAIN queue'[u] :
          \/ i \in DOMAIN queue[u] /\ queue'[u][i] = queue[u][i] /\ queue[u][i] # c
          \/ u = t /\ i = Len(queue[t]) + 1 /\ queue'[u][i] = c
    BY <2>1, <2>4, <2>5 DEF InQueue
  <2>7. QueuedOnce'
    BY <2>6 DEF OneHolder, QueuedOnce
  <2>8. \A d \in Cells : InQueue(d)' => InQueue(d) \/ d = c
    BY <2>6 DEF InQueue
  <2>9. ~InHand(c)' /\ HandsDiffer' /\ \A d \in Cells : InHand(d)' => InHand(d)
    BY <2>2, <2>a, HandDropped
  <2>10. OneKindOfHolder'
    <3> SUFFICES ASSUME NEW d \in Cells
                 PROVE  /\ InQueue(d)' => ~InHand(d)' /\ ~AtWork(d)' /\ d \notin kept'
                        /\ InHand(d)' => ~AtWork(d)' /\ d \notin kept'
                        /\ AtWork(d)' => d \notin kept'
      BY DEF OneKindOfHolder
    <3>1. kept' = kept /\ (AtWork(d)' <=> AtWork(d))
      BY <1>0, PlacesKept DEF SameKept
    <3>2. CASE d = c
      BY <3>1, <3>2, <2>5, <2>9
    <3>3. CASE d # c
      BY <3>1, <3>3, <2>8, <2>9 DEF OneHolder, OneKindOfHolder
    <3> QED BY <3>2, <3>3
  <2>11. CountedAsUsed'
    BY <1>0, <2>1, <2>8, <2>9, PlacesKept
       DEF OneHolder, CountedAsUsed, InFlight, SameKept, SamePools
  <2> QED BY <1>1, <2>7, <2>9, <2>10, <2>11 DEF OneHolder
<1>4. Putq(p) \/ (queue' = queue /\ (hand' = hand \/ Forget(p)))
  BY DEF Put, CheckQueue, PutqTimeout
<1> QED BY <1>2, <1>3, <1>4

\* A work thread that gives its message to its pool owns it no more.  The
\* pool offers it again only if it counted it as used.
LEMMA HolderPoolDelete ==
  ASSUME TypeOK, OneHolder, NEW w \in Threads, PoolDelete(w, cur[w]),
         Owns(w), ~Owns(w)',
         \A v \in Threads : v # w => (Owns(v)' <=> Owns(v)) /\ cur'[v] = cur[v],
         SameQueues, SameHands, SameKept
  PROVE  OneHolder'
<1>a. PICK c \in Cells : c = cur[w]
  BY DEF Owns, TypeOK
<1>1. \A d \in Cells : AtWork(d)' => AtWork(d) /\ d # c
  BY <1>a DEF AtWork, OneHolder, WorksDiffer
<1>2. AtWork(c)
  BY <1>a DEF AtWork
<1>3. ~InQueue(c) /\ ~InHand(c) /\ c \notin kept
  BY <1>2 DEF OneHolder, OneKindOfHolder
<1>4. /\ free \in [Threads -> SUBSET Cells]
      /\ used \in [Threads -> SUBSET Cells]
      /\ used' = [used EXCEPT ![w] = @ \ {c}]
      /\ free' = [free EXCEPT ![w] = IF c \in used[w] THEN @ \cup {c} ELSE @]
  BY <1>a DEF PoolDelete, TypeOK
<1>5. QueuedOnce' /\ HandsDiffer'
  BY PlacesKept DEF OneHolder
<1>6. WorksDiffer'
  BY DEF OneHolder, WorksDiffer
<1>7. OneKindOfHolder'
  BY <1>1, PlacesKept DEF OneHolder, OneKindOfHolder, SameKept
<1>8. CountedAsUsed'
  <2> SUFFICES ASSUME NEW d \in Cells, InFlight(d)' PROVE \E u \in Threads : d \in used'[u]
    BY DEF CountedAsUsed
  <2>1. InFlight(d) /\ d # c
    BY <1>1, <1>3, PlacesKept DEF InFlight, SameKept
  <2>2. PICK u \in Threads : d \in used[u]
    BY <2>1 DEF OneHolder, CountedAsUsed
  <2> QED BY <2>1, <2>2, <1>4
<1>9. PoolsDisjoint'
  <2> SUFFICES ASSUME NEW t \in Threads, NEW u \in Threads
               PROVE  /\ free'[t] \cap used'[u] = {}
                      /\ t # u => /\ free'[t] \cap free'[u] = {}
                                  /\ used'[t] \cap used'[u] = {}
    BY DEF PoolsDisjoint
  <2>1. /\ free[t] \cap used[u] = {}
        /\ t # u => free[t] \cap free[u] = {} /\ used[t] \cap used[u] = {}
        /\ \A v \in Threads : free[v] \cap used[w] = {}
        /\ \A v \in Threads : v # w => used[v] \cap used[w] = {}
    BY DEF OneHolder, PoolsDisjoint
  <2>2. CASE c \in used[w]
    BY <2>1, <2>2, <1>4
  <2>3. CASE c \notin used[w]
    BY <2>1, <2>3, <1>4
  <2> QED BY <2>2, <2>3
<1> QED BY <1>5, <1>6, <1>7, <1>8, <1>9 DEF OneHolder

LEMMA HolderWork ==
  ASSUME TypeOK, OneHolder, NEW w \in Threads, Work(w)
  PROVE  OneHolder'
<1>0. SameHands
  BY DEF Work, Getq, PassGate, Begin, Refuse, DoMessage, DeleteMessage, Finish,
         prodVars, SameHands
<1>1. CASE Getq(w)
  <2>1. queue[w] \in Seq(Cells) /\ queue[w] # <<>> /\ ~Owns(w)
    BY <1>1 DEF Getq, TypeOK, Owns
  <2>2. PICK c \in Cells : c = queue[w][1]
    BY <2>1
  <2>3. /\ queue' = [queue EXCEPT ![w] = Tail(@)]
        /\ cur' = [cur EXCEPT ![w] = c]
        /\ wpc' = [wpc EXCEPT ![w] = "gate"]
    BY <1>1, <2>1, <2>2 DEF Getq
  <2>4. /\ 1 \in DOMAIN queue[w]
        /\ \A i \in DOMAIN Tail(queue[w]) :
             /\ i + 1 \in DOMAIN queue[w] /\ i + 1 # 1 /\ i \in Nat
             /\ Tail(queue[w])[i] = queue[w][i + 1]
    BY <2>1
  <2>5. InQueue(c)
    BY <2>2, <2>4 DEF InQueue
  <2>6. ~InHand(c) /\ ~AtWork(c) /\ c \notin kept
    BY <2>5 DEF OneHolder, OneKindOfHolder
  <2>7. \A u \in Threads : \A i \in DOMAIN queue'[u] :
          \/ u # w /\ i \in DOMAIN queue[u] /\ queue'[u][i] = queue[u][i]
          \/ /\ u = w /\ i + 1 \in DOMAIN queue[w] /\ i + 1 # 1 /\ i \in Nat
             /\ queue'[u][i] = queue[w][i + 1]
    BY <2>3, <2>4 DEF TypeOK
  <2>8. ~InQueue(c)' /\ \A d \in Cells : InQueue(d)' => InQueue(d)
    BY <2>2, <2>4, <2>7 DEF InQueue, OneHolder, QueuedOnce
  <2>9. QueuedOnce'
    BY <2>7 DEF OneHolder, QueuedOnce
  <2>10. /\ Owns(w)' /\ cur'[w] = c
         /\ \A v \in Threads : v # w => (Owns(v)' <=> Owns(v)) /\ cur'[v] = cur[v]
    BY <2>3 DEF Owns, TypeOK
  <2>11. \A d \in Cells : AtWork(d)' => AtWork(d) \/ d = c
    BY <2>10 DEF AtWork
  <2>12. WorksDiffer'
    BY <2>6, <2>10 DEF OneHolder, WorksDiffer, AtWork
  <2>13. HandsDiffer' /\ kept' = kept /\ free' = free /\ used' = used
    BY <1>0, <1>1, PlacesKept DEF OneHolder, Getq, poolVars
  <2>14. OneKindOfHolder'
    BY <1>0, <2>6, <2>8, <2>11, <2>13, PlacesKept DEF OneHolder, OneKindOfHolder
  <2>15. CountedAsUsed'
    BY <1>0, <2>5, <2>8, <2>11, <2>13, PlacesKept DEF OneHolder, CountedAsUsed, InFlight
  <2>16. PoolsDisjoint'
    BY <2>13 DEF OneHolder, PoolsDisjoint
  <2> QED BY <2>9, <2>12, <2>13, <2>14, <2>15, <2>16 DEF OneHolder
<1>2. CASE PassGate(w) \/ Begin(w) \/ Finish(w)
  <2>1. SameQueues /\ SameKept /\ SameWork /\ SamePools
    BY <1>2 DEF PassGate, Begin, Finish, poolVars, SameQueues, SameKept, SameWork,
                SamePools, Owns, TypeOK
  <2>2. QueuedOnce' /\ HandsDiffer' /\ WorksDiffer'
    BY <1>0, <2>1, PlacesKept DEF OneHolder
  <2>3. OneKindOfHolder' /\ CountedAsUsed' /\ PoolsDisjoint'
    BY <1>0, <2>1, PlacesKept
       DEF OneHolder, OneKindOfHolder, CountedAsUsed, PoolsDisjoint, InFlight,
           SameKept, SamePools
  <2> QED BY <2>2, <2>3 DEF OneHolder
<1>3. CASE Refuse(w) \/ DeleteMessage(w)
  <2>1. /\ PoolDelete(w, cur[w]) /\ Owns(w) /\ ~Owns(w)'
        /\ \A v \in Threads : v # w => (Owns(v)' <=> Owns(v)) /\ cur'[v] = cur[v]
        /\ SameQueues /\ SameKept
    BY <1>3 DEF Refuse, DeleteMessage, Owns, TypeOK, SameQueues, SameKept
  <2> QED BY <1>0, <2>1, HolderPoolDelete
<1>4. CASE DoMessage(w)
  <2>1. SameQueues /\ SamePools /\ cur' = cur
    BY <1>4 DEF DoMessage, poolVars, SameQueues, SamePools
  <2>2. PICK c \in Cells : c = cur[w]
    BY <1>4 DEF DoMessage, TypeOK
  <2>3. QueuedOnce' /\ HandsDiffer' /\ PoolsDisjoint'
    BY <1>0, <2>1, PlacesKept DEF OneHolder, PoolsDisjoint, SamePools
  <2>4. CASE wpc' = [wpc EXCEPT ![w] = "delete"] /\ kept' = kept
    <3>1. SameWork
      BY <1>4, <2>1, <2>4 DEF DoMessage, SameWork, Owns, TypeOK
    <3>2. WorksDiffer' /\ OneKindOfHolder' /\ CountedAsUsed'
      BY <1>0, <2>1, <2>4, <3>1, PlacesKept
         DEF OneHolder, OneKindOfHolder, CountedAsUsed, InFlight, SamePools
    <3> QED BY <2>3, <3>2 DEF OneHolder
  <2>5. CASE wpc' = [wpc EXCEPT ![w] = "tail"] /\ kept' = kept \cup {cur[w]}
    <3>1. /\ Owns(w) /\ ~Owns(w)'
          /\ \A v \in Threads : v # w => (Owns(v)' <=> Owns(v))
      BY <1>4, <2>5 DEF DoMessage, Owns, TypeOK
    <3>2. \A d \in Cells : AtWork(d)' => AtWork(d) /\ d # c
      BY <2>1, <2>2, <3>1 DEF AtWork, OneHolder, WorksDiffer
    <3>3. AtWork(c) /\ ~InQueue(c) /\ ~InHand(c)
      BY <2>2, <3>1 DEF AtWork, OneHolder, OneKindOfHolder
    <3>4. WorksDiffer'
      BY <2>1, <3>1 DEF OneHolder, WorksDiffer
    <3>5. OneKindOfHolder'
      BY <1>0, <2>1, <2>2, <2>5, <3>2, <3>3, PlacesKept DEF OneHolder, OneKindOfHolder
    <3>6. CountedAsUsed'
      BY <1>0, <2>1, <2>2, <2>5, <3>2, <3>3, PlacesKept
         DEF OneHolder, CountedAsUsed, InFlight, SamePools
    <3> QED BY <2>3, <3>4, <3>5, <3>6 DEF OneHolder
  <2> QED BY <1>4, <2>4, <2>5 DEF DoMessage
<1> QED BY <1>1, <1>2, <1>3, <1>4 DEF Work

\* Unloading a module, and stuttering, move no message.
LEMMA HolderUnload ==
  ASSUME OneHolder, StartUnload \/ Unload \/ UNCHANGED vars
  PROVE  OneHolder'
<1>1. SameQueues /\ SameHands /\ SameKept /\ SameWork /\ SamePools
  BY DEF StartUnload, Unload, MarkThread, ScanThread, UnloadModuleCommand,
         ResumeThread, vars, poolVars, prodVars, workVars,
         SameQueues, SameHands, SameKept, SameWork, SamePools, Owns
<1>2. QueuedOnce' /\ HandsDiffer' /\ WorksDiffer'
  BY <1>1, PlacesKept DEF OneHolder
<1>3. OneKindOfHolder' /\ CountedAsUsed' /\ PoolsDisjoint'
  BY <1>1, PlacesKept
     DEF OneHolder, OneKindOfHolder, CountedAsUsed, PoolsDisjoint, InFlight,
         SameKept, SamePools
<1> QED BY <1>2, <1>3 DEF OneHolder

-----------------------------------------------------------------------------
(* The inductive invariant                                                 *)

LEMMA HandBaseInit == Init => HandBase
BY DEF Init, HandBase

LEMMA HandBaseStep ==
  ASSUME TypeOK, HandBase, OneHolder, [Next]_vars
  PROVE  HandBase'
<1>1. ASSUME NEW p \in Producers, CreateAndSet(p) PROVE HandBase'
  <2>t. PICK t \in GetWorkThreadID(p, IF p \in UdpSources THEN "UDP" ELSE "TCP") :
          \E c \in CreateFrom(t) : CreateStep(p, t, c)
    BY <1>1 DEF CreateAndSet, CreateStep
  <2>1. PICK c \in CreateFrom(t) : CreateStep(p, t, c)
    BY <2>t
  <2>2. t \in Threads
    BY ModThreads, ProducersAssumption DEF GetWorkThreadID, Producers
  <2>3. c \in Cells /\ ~InFlight(c)
    BY <2>2, FreshCell
  <2>4. base[c] \in Bases /\ sent[p] + 1 \in 0 .. MaxPackets
    BY <1>1, <2>3, LimitsAssumption DEF TypeOK, CreateAndSet
  <2>5. /\ SetMessage(base[c], p, sent[p] + 1).from = p
        /\ p \in UdpSources => SetMessage(base[c], p, sent[p] + 1).type = "UDP"
    BY <2>4, SetMessageType
  <2>6. /\ base' = [base EXCEPT ![c] = SetMessage(base[c], p, sent[p] + 1)]
        /\ hand' = [hand EXCEPT ![p] = c]
        /\ ppc' = [ppc EXCEPT ![p] = "filled"]
    BY <1>1, <2>1, <2>3 DEF CreateStep, CreateAndSet, TypeOK
  <2> SUFFICES ASSUME NEW q \in Producers, ppc'[q] # "idle"
               PROVE  /\ base'[hand'[q]].from = q
                      /\ q \in UdpSources => base'[hand'[q]].type = "UDP"
    BY DEF HandBase
  <2>7. CASE q = p
    BY <2>3, <2>5, <2>6, <2>7 DEF TypeOK
  <2>8. CASE q # p
    <3>1. ppc[q] # "idle" /\ hand'[q] = hand[q] /\ hand[q] \in Cells
      BY <2>6, <2>8 DEF TypeOK
    <3>2. hand[q] # c
      BY <2>3, <3>1 DEF InFlight, InHand
    <3> QED BY <2>6, <3>1, <3>2 DEF HandBase, TypeOK
  <2> QED BY <2>7, <2>8
<1>2. ASSUME NEW p \in Producers, Put(p) PROVE HandBase'
  <2>1. /\ base' = base
        /\ \A q \in Producers : ppc'[q] # "idle" => ppc[q] # "idle" /\ hand'[q] = hand[q]
    BY <1>2 DEF Put, CheckQueue, Putq, PutqTimeout, Forget, poolVars, TypeOK
  <2> QED BY <2>1 DEF HandBase
<1>3. ASSUME NEW w \in Threads, Work(w) PROVE HandBase'
  BY <1>3 DEF Work, Getq, PassGate, Begin, Refuse, DoMessage, DeleteMessage, Finish,
              PoolDelete, poolVars, prodVars, HandBase
<1>4. CASE StartUnload \/ Unload \/ UNCHANGED vars
  BY <1>4 DEF StartUnload, Unload, MarkThread, ScanThread, UnloadModuleCommand,
              ResumeThread, vars, poolVars, prodVars, HandBase
<1> QED BY <1>1, <1>2, <1>3, <1>4 DEF Next

LEMMA IIndInit == Init => IInd
BY TypeInit, HandBaseInit, HolderInit DEF IInd

LEMMA IIndStep == IInd /\ [Next]_vars => IInd'
<1> SUFFICES ASSUME IInd, [Next]_vars PROVE IInd'
  OBVIOUS
<1>0. TypeOK /\ HandBase /\ OneHolder
  BY DEF IInd
<1>1. HandBase'
  BY <1>0, HandBaseStep
<1>2. TypeOK'
  BY <1>0, TypeCreate, TypePut, TypeWork, TypeUnload, TypeStutter DEF Next
<1>3. OneHolder'
  BY <1>0, HolderCreate, HolderPut, HolderWork, HolderUnload DEF Next
<1> QED BY <1>1, <1>2, <1>3 DEF IInd

LEMMA Inductive == Spec => []IInd
<1> QED BY IIndInit, IIndStep, PTL DEF Spec

\* The variables keep their types, and hands and threads agree with their step:
\* what the packets that arrive, the unload commands and the limits may be.
THEOREM TypeCorrect == Spec => []TypeOK
<1>1. IInd => TypeOK
  BY DEF IInd
<1> QED BY <1>1, Inductive, PTL

\* No CMessage ever has two holders, for TCP and UDP alike, although UDP
\* messages are created in the pool of one thread and deleted in another's.
THEOREM MessagesHaveOneHolder == Spec => []OneHolder
<1>1. IInd => OneHolder
  BY DEF IInd
<1> QED BY <1>1, Inductive, PTL

-----------------------------------------------------------------------------
(* The bound of the queues                                                 *)

LEMMA CheckedFinite ==
  \A t \in Threads : /\ Checked(t) \subseteq Producers
                     /\ IsFiniteSet(Checked(t))
                     /\ Cardinality(Checked(t)) \in Nat
                     /\ Cardinality(Checked(t)) <= Cardinality(Producers)
                     /\ Cardinality(Producers) \in Nat
BY ProducersAssumption, FS_Subset, FS_CardinalityType DEF Checked

LEMMA BoundInit == Init => QueueBound
<1> SUFFICES ASSUME Init, NEW t \in Threads
             PROVE  /\ Len(queue[t]) <= HighMark
                    /\ Len(queue[t]) + Cardinality(Checked(t))
                         <= MaxQueue + Cardinality(Producers) - 1
  BY DEF QueueBound
<1>1. Len(queue[t]) = 0
  BY DEF Init
<1>2. Checked(t) = {}
  BY DEF Init, Checked
<1>3. Cardinality(Checked(t)) = 0
  BY <1>2, FS_EmptySet
<1> QED BY <1>1, <1>3, CheckedFinite, LimitsAssumption

\* Neither the queues nor the producers that checked them change.
LEMMA BoundKept ==
  ASSUME QueueBound, queue' = queue, \A t \in Threads : Checked(t)' = Checked(t)
  PROVE  QueueBound'
BY DEF QueueBound

LEMMA BoundPut ==
  ASSUME IInd, QueueBound, NEW p \in Producers, Put(p)
  PROVE  QueueBound'
<1> USE DEF IInd
<1>1. CASE CheckQueue(p)
  <2>1. queue' = queue /\ ppc[p] = "filled"
    BY <1>1 DEF CheckQueue
  <2>2. CASE Forget(p) /\ target' = target
    <3>1. \A t \in Threads : Checked(t)' = Checked(t)
      BY <2>1, <2>2 DEF Checked, Forget, TypeOK
    <3> QED BY <2>1, <3>1, BoundKept
  <2>3. ASSUME NEW t \in Threads, Len(queue[t]) < MaxQueue,
               target' = [target EXCEPT ![p] = t], ppc' = [ppc EXCEPT ![p] = "checked"]
        PROVE  QueueBound'
    <3> SUFFICES ASSUME NEW u \in Threads
                 PROVE  /\ Len(queue'[u]) <= HighMark
                        /\ Len(queue'[u]) + Cardinality(Checked(u)')
                             <= MaxQueue + Cardinality(Producers) - 1
      BY DEF QueueBound
    <3>0. queue[u] \in Seq(Cells) /\ Len(queue[u]) <= HighMark
      BY DEF TypeOK, QueueBound
    <3>1. CASE u = t
      <4>1. Checked(u)' \subseteq Producers
        BY DEF Checked
      <4>2. /\ Cardinality(Checked(u)') \in Nat
            /\ Cardinality(Checked(u)') <= Cardinality(Producers)
            /\ Cardinality(Producers) \in Nat
        BY <4>1, ProducersAssumption, FS_Subset, FS_CardinalityType
      <4> QED BY <2>1, <2>3, <3>0, <3>1, <4>2, LimitsAssumption
    <3>2. CASE u # t
      <4>1. Checked(u)' = Checked(u)
        BY <2>1, <2>3, <3>2 DEF Checked, TypeOK
      <4> QED BY <2>1, <3>0, <4>1 DEF QueueBound
    <3> QED BY <3>1, <3>2
  <2>4. GetWorkThreadID(base[hand[p]].from, base[hand[p]].type) \subseteq Threads
    BY <2>1, RouteInThreads
  <2> QED BY <1>1, <2>2, <2>3, <2>4 DEF CheckQueue
<1>2. CASE Putq(p) \/ PutqTimeout(p)
  <2>0. /\ ppc[p] = "checked" /\ ppc' = [ppc EXCEPT ![p] = "idle"] /\ target' = target
        /\ target[p] \in Threads
    BY <1>2 DEF Putq, PutqTimeout, Forget, TypeOK
  <2> SUFFICES ASSUME NEW u \in Threads
               PROVE  /\ Len(queue'[u]) <= HighMark
                      /\ Len(queue'[u]) + Cardinality(Checked(u)')
                           <= MaxQueue + Cardinality(Producers) - 1
    BY DEF QueueBound
  <2>1. /\ queue[u] \in Seq(Cells) /\ Len(queue[u]) <= HighMark
        /\ Len(queue[u]) + Cardinality(Checked(u)) <= MaxQueue + Cardinality(Producers) - 1
    BY DEF TypeOK, QueueBound
  <2>2. CASE u # target[p]
    <3>1. Checked(u)' = Checked(u) /\ queue'[u] = queue[u]
      BY <1>2, <2>0, <2>2 DEF Checked, Putq, PutqTimeout, TypeOK
    <3> QED BY <2>1, <3>1
  <2>3. CASE u = target[p]
    <3>1. p \in Checked(u) /\ Checked(u)' = Checked(u) \ {p}
      BY <2>0, <2>3 DEF Checked, TypeOK
    <3>2. /\ Cardinality(Checked(u)') = Cardinality(Checked(u)) - 1
          /\ Cardinality(Checked(u)) \in Nat
          /\ Cardinality(Producers) \in Nat
      BY <3>1, CheckedFinite, FS_RemoveElement
    <3>3. CASE Putq(p)
      <4>1. hand[p] \in Cells /\ Len(queue[u]) < HighMark
        BY <3>3, <2>3 DEF Putq, TypeOK
      <4>2. queue'[u] = Append(queue[u], hand[p])
        BY <3>3, <2>3 DEF Putq, TypeOK
      <4>3. Len(queue'[u]) = Len(queue[u]) + 1 /\ Len(queue[u]) \in Nat
        BY <2>1, <4>1, <4>2
      <4> QED BY <2>1, <3>2, <4>1, <4>3, LimitsAssumption
    <3>4. CASE PutqTimeout(p)
      <4>1. queue'[u] = queue[u]
        BY <3>4 DEF PutqTimeout
      <4> QED BY <2>1, <3>2, <4>1, LimitsAssumption
    <3> QED BY <1>2, <3>3, <3>4
  <2> QED BY <2>2, <2>3
<1> QED BY <1>1, <1>2 DEF Put

LEMMA BoundStep == IInd /\ QueueBound /\ [Next]_vars => QueueBound'
<1> SUFFICES ASSUME IInd, QueueBound, [Next]_vars PROVE QueueBound'
  OBVIOUS
<1>1. ASSUME NEW p \in Producers, CreateAndSet(p) PROVE QueueBound'
  <2>1. queue' = queue /\ ppc[p] = "idle" /\ ppc' = [ppc EXCEPT ![p] = "filled"]
        /\ target' = target
    BY <1>1 DEF CreateAndSet
  <2>2. \A t \in Threads : Checked(t)' = Checked(t)
    BY <2>1 DEF Checked, IInd, TypeOK
  <2> QED BY <2>1, <2>2, BoundKept
<1>2. ASSUME NEW w \in Threads, Getq(w) PROVE QueueBound'
  <2>1. queue[w] \in Seq(Cells) /\ queue[w] # <<>>
    BY <1>2 DEF Getq, IInd, TypeOK
  <2>2. Len(Tail(queue[w])) = Len(queue[w]) - 1
    BY <2>1
  <2>3. \A t \in Threads : Checked(t)' = Checked(t)
    BY <1>2 DEF Checked, Getq, prodVars
  <2> SUFFICES ASSUME NEW u \in Threads
               PROVE  /\ Len(queue'[u]) <= HighMark
                      /\ Len(queue'[u]) + Cardinality(Checked(u)')
                           <= MaxQueue + Cardinality(Producers) - 1
    BY DEF QueueBound
  <2>4. /\ queue[u] \in Seq(Cells) /\ Len(queue[u]) <= HighMark
        /\ Len(queue[u]) + Cardinality(Checked(u)) <= MaxQueue + Cardinality(Producers) - 1
    BY DEF IInd, TypeOK, QueueBound
  <2>5. queue'[u] = IF u = w THEN Tail(queue[w]) ELSE queue[u]
    BY <1>2 DEF Getq, IInd, TypeOK
  <2>6. CASE u = w
    BY <2>1, <2>2, <2>3, <2>4, <2>5, <2>6, CheckedFinite, LimitsAssumption
  <2>7. CASE u # w
    BY <2>3, <2>4, <2>5, <2>7
  <2> QED BY <2>6, <2>7
<1>3. ASSUME NEW w \in Threads,
             PassGate(w) \/ Begin(w) \/ Refuse(w) \/ DoMessage(w) \/ DeleteMessage(w)
               \/ Finish(w)
      PROVE QueueBound'
  <2>1. queue' = queue /\ \A t \in Threads : Checked(t)' = Checked(t)
    BY <1>3 DEF PassGate, Begin, Refuse, DoMessage, DeleteMessage, Finish, prodVars, Checked
  <2> QED BY <2>1, BoundKept
<1>4. CASE StartUnload \/ Unload \/ UNCHANGED vars
  <2>1. queue' = queue /\ \A t \in Threads : Checked(t)' = Checked(t)
    BY <1>4 DEF StartUnload, Unload, MarkThread, ScanThread, UnloadModuleCommand,
                ResumeThread, vars, prodVars, Checked
  <2> QED BY <2>1, BoundKept
<1> QED BY <1>1, <1>2, <1>3, <1>4, BoundPut DEF Next, Work

\* However many network threads put at once, a queue passes m_u4MaxQueue by at
\* most the number of them less one, and never passes its high water mark.
THEOREM QueuesAreBounded == Spec => []QueueBound
<1> QED BY BoundInit, BoundStep, Inductive, PTL DEF Spec

-----------------------------------------------------------------------------
(* Unloading a module                                                      *)

\* Until the last thread is marked nobody is counted; from then on every thread
\* is marked, and one that had passed the gate still has its message to begin.
StragglerInv ==
  /\ upc = "mark" => \A w \in Threads : w < uidx => state[w] = "MODULE_UNLOAD"
  /\ upc \notin {"scan", "unload"} => \A w \in Threads : entered[w] = 0
  /\ upc \in {"scan", "unload"} =>
       \A w \in Threads :
         /\ state[w] = "MODULE_UNLOAD"
         /\ entered[w] = 0 \/ (entered[w] = 1 /\ wpc[w] # "passed")

LEMMA StragglerInit == Init => StragglerInv
BY DEF Init, StragglerInv

LEMMA StragglerKept ==
  ASSUME StragglerInv, UNCHANGED <<upc, uidx, state, entered>>,
         \A w \in Threads : wpc'[w] = "passed" => wpc[w] = "passed"
  PROVE  StragglerInv'
BY DEF StragglerInv

LEMMA StragglerUnload ==
  ASSUME TypeOK, StragglerInv, StartUnload \/ Unload
  PROVE  StragglerInv'
<1>0. wpc' = wpc
  BY DEF StartUnload, Unload, MarkThread, ScanThread, UnloadModuleCommand, ResumeThread,
         workVars
<1>1. CASE StartUnload
  BY <1>1 DEF StartUnload, StragglerInv, Threads, workVars
<1>2. CASE MarkThread
  <2>1. /\ upc = "mark" /\ entered' = entered
        /\ state' = [state EXCEPT ![uidx] = "MODULE_UNLOAD"]
        /\ uidx' = (uidx + 1) % NThreads
        /\ upc' = IF uidx + 1 = NThreads THEN "scan" ELSE upc
    BY <1>2 DEF MarkThread, Advance, workVars
  <2>2. \A w \in Threads : w < uidx + 1 => state'[w] = "MODULE_UNLOAD"
    BY <2>1 DEF StragglerInv, TypeOK, Threads
  <2>3. CASE uidx + 1 = NThreads
    BY <2>1, <2>2, <2>3, ThreadsAssumption DEF StragglerInv, Threads
  <2>4. CASE uidx + 1 # NThreads
    <3>1. uidx + 1 \in Nat /\ uidx + 1 < NThreads
      BY <2>4, ThreadsAssumption DEF TypeOK, Threads
    <3>2. uidx' = uidx + 1
      BY <2>1, <3>1, ModIdentity
    <3> QED BY <2>1, <2>2, <2>4, <3>2 DEF StragglerInv
  <2> QED BY <2>3, <2>4
<1>3. CASE ScanThread
  <2>1. /\ upc = "scan" /\ upc' \in {"scan", "unload"}
        /\ entered' = entered /\ state' = state
    BY <1>3 DEF ScanThread, Advance, workVars
  <2> QED BY <1>0, <2>1 DEF StragglerInv
<1>4. CASE UnloadModuleCommand
  BY <1>4 DEF UnloadModuleCommand, StragglerInv
<1>5. CASE ResumeThread
  <2>1. upc = "resume" /\ upc' \in {"resume", "idle"} /\ entered' = entered
    BY <1>5 DEF ResumeThread, Advance, workVars
  <2> QED BY <2>1 DEF StragglerInv
<1> QED BY <1>1, <1>2, <1>3, <1>4, <1>5 DEF Unload

LEMMA StragglerStep == TypeOK /\ StragglerInv /\ [Next]_vars => StragglerInv'
<1> SUFFICES ASSUME TypeOK, StragglerInv, [Next]_vars PROVE StragglerInv'
  OBVIOUS
<1>1. ASSUME NEW p \in Producers, CreateAndSet(p) \/ Put(p) PROVE StragglerInv'
  <2>1. UNCHANGED <<upc, uidx, state, entered, wpc>>
    BY <1>1 DEF CreateAndSet, Put, CheckQueue, Putq, PutqTimeout, workVars, unloVars
  <2> QED BY <2>1, StragglerKept
<1>2. ASSUME NEW w \in Threads, PassGate(w) PROVE StragglerInv'
  <2>1. /\ state[w] = "RUN" /\ UNCHANGED <<upc, uidx, state, entered>>
    BY <1>2 DEF PassGate, unloVars
  <2>2. upc \notin {"scan", "unload"}
    BY <2>1 DEF StragglerInv
  <2> QED BY <2>1, <2>2 DEF StragglerInv
<1>3. ASSUME NEW w \in Threads, Begin(w) PROVE StragglerInv'
  <2>1. /\ wpc[w] = "passed" /\ wpc' = [wpc EXCEPT ![w] = "begun"]
        /\ entered' = [entered EXCEPT ![w] = IF upc \in {"scan", "unload"} THEN @ + 1 ELSE @]
        /\ UNCHANGED <<upc, uidx, state>>
    BY <1>3 DEF Begin, unloVars
  <2>2. CASE upc \notin {"scan", "unload"}
    BY <2>1, <2>2 DEF StragglerInv, TypeOK
  <2>3. CASE upc \in {"scan", "unload"}
    <3>1. entered[w] = 0 /\ entered'[w] = 1 /\ wpc'[w] # "passed"
      BY <2>1, <2>3 DEF StragglerInv, TypeOK
    <3>2. \A v \in Threads : v # w => entered'[v] = entered[v] /\ wpc'[v] = wpc[v]
      BY <2>1 DEF TypeOK
    <3> QED BY <2>1, <2>3, <3>1, <3>2 DEF StragglerInv
  <2> QED BY <2>2, <2>3
<1>4. ASSUME NEW w \in Threads,
             Getq(w) \/ Refuse(w) \/ DoMessage(w) \/ DeleteMessage(w) \/ Finish(w)
      PROVE  StragglerInv'
  <2>1. UNCHANGED <<upc, uidx, state, entered>>
    BY <1>4 DEF Getq, Refuse, DoMessage, DeleteMessage, Finish, unloVars
  <2>2. \A v \in Threads : wpc'[v] = "passed" => wpc[v] = "passed"
    BY <1>4 DEF Getq, Refuse, DoMessage, DeleteMessage, Finish, TypeOK
  <2> QED BY <2>1, <2>2, StragglerKept
<1>5. CASE UNCHANGED vars
  BY <1>5, StragglerKept DEF vars
<1> QED BY <1>1, <1>2, <1>3, <1>4, <1>5, StragglerUnload DEF Next, Work

\* While a module is removed no thread begins more than the one message with
\* which it had passed the gate; the handshake of UnloadModule stops the others.
THEOREM OneStragglerPerThread == Spec => []AtMostOneStraggler
<1>1. TypeOK /\ StragglerInv => AtMostOneStraggler
  BY DEF StragglerInv, AtMostOneStraggler
<1> QED BY <1>1, StragglerInit, StragglerStep, TypeCorrect, PTL DEF Spec
=============================================================================
