------------------------ MODULE MessageOrder_proofs ------------------------
(***************************************************************************)
(* The order of the packets of a connection, for every number of work      *)
(* threads and connections and every limit of the queues, on a server that *)
(* has no UDP source: with one, a message once used for UDP is routed at   *)
(* random for ever after (SetMessage), and no connection keeps its order.  *)
(*                                                                         *)
(* The packets of a connection meet in one thread (AtHome).  There they    *)
(* stand in a row: the one at work, the ones in the queue from front to    *)
(* back, the one in the hand of the handler; along it the numbers rise,    *)
(* from the packet handled last to the packet received last (Ranged,       *)
(* Rising).  The row is the channel ConnectionOrder speaks of.             *)
(***************************************************************************)
EXTENDS MessageService_proofs

Home(c) == c % NThreads

\* A thread that has yet to handle the message it has.
Ahead(w) == wpc[w] \in {"gate", "passed", "begun"}

\* The newest packet of c that is not in the hand of its handler.
Newest(c) == IF ppc[c] = "idle" THEN sent[c] ELSE sent[c] - 1

OnlyTcp == \A x \in Cells : base[x].type = "TCP"

HandNum == \A c \in Conns : ppc[c] # "idle" => base[hand[c]].num = sent[c]

\* What thread w, or the message x, has to do with one connection.
OfThread(x, w) == base[x].from \in Conns /\ Home(base[x].from) = w
InRange(x) ==
  /\ served[base[x].from] < base[x].num
  /\ base[x].num <= Newest(base[x].from)
Before(x, y) == base[x].from = base[y].from => base[x].num < base[y].num

AtHome ==
  /\ \A p \in Producers : ppc[p] = "checked" => target[p] = Home(p)
  /\ \A t \in Threads : \A i \in DOMAIN queue[t] : OfThread(queue[t][i], t)
  /\ \A w \in Threads : Owns(w) => OfThread(cur[w], w)

CmdRead == \A w \in Threads : wpc[w] = "begun" => cmd[w] = base[cur[w]]

Ranged ==
  /\ \A c \in Conns : served[c] <= Newest(c)
  /\ \A t \in Threads : \A i \in DOMAIN queue[t] : InRange(queue[t][i])
  /\ \A w \in Threads : Ahead(w) => InRange(cur[w])

Rising ==
  \A t \in Threads :
    /\ \A i, j \in DOMAIN queue[t] : i < j => Before(queue[t][i], queue[t][j])
    /\ Ahead(t) => \A j \in DOMAIN queue[t] : Before(cur[t], queue[t][j])

Row  == OnlyTcp /\ HandNum /\ AtHome /\ CmdRead /\ Ranged /\ Rising
OInd == IInd /\ Row

-----------------------------------------------------------------------------
(* Facts about one state                                                   *)

\* What the types say of a message somebody holds.
LEMMA RowTypes ==
  ASSUME TypeOK
  PROVE  /\ \A t \in Threads : /\ queue[t] \in Seq(Cells)
                               /\ DOMAIN queue[t] = 1 .. Len(queue[t])
                               /\ Len(queue[t]) \in Nat
                               /\ \A i \in DOMAIN queue[t] : queue[t][i] \in Cells
         /\ \A w \in Threads : Owns(w) => cur[w] \in Cells
         /\ \A p \in Producers : ppc[p] # "idle" => hand[p] \in Cells
         /\ \A x \in Cells : base[x].num \in 0 .. MaxPackets /\ 0 .. MaxPackets \subseteq Nat
         /\ \A c \in Conns : sent[c] \in Nat /\ served[c] \in Nat /\ c \in Producers
<1>1. \A t \in Threads : queue[t] \in Seq(Cells)
  BY DEF TypeOK
<1>2. \A t \in Threads : /\ DOMAIN queue[t] = 1 .. Len(queue[t])
                         /\ Len(queue[t]) \in Nat
                         /\ \A i \in DOMAIN queue[t] : queue[t][i] \in Cells
  BY <1>1
<1>3. \A w \in Threads : Owns(w) => cur[w] \in Cells
  BY DEF TypeOK, Owns
<1>4. \A p \in Producers : ppc[p] # "idle" => hand[p] \in Cells
  BY DEF TypeOK
<1>5. \A x \in Cells : base[x].num \in 0 .. MaxPackets /\ 0 .. MaxPackets \subseteq Nat
  BY LimitsAssumption DEF TypeOK, Bases
<1>6. \A c \in Conns : sent[c] \in Nat /\ served[c] \in Nat /\ c \in Producers
  BY LimitsAssumption DEF TypeOK, Producers
<1> QED BY <1>1, <1>2, <1>3, <1>4, <1>5, <1>6

\* A connection has one thread: what is said of its thread holds for all.
LEMMA OneHome ==
  ASSUME NEW t \in Threads, NEW u \in Threads, NEW x, NEW y,
         OfThread(x, t), OfThread(y, u), base[x].from = base[y].from
  PROVE  t = u
BY DEF OfThread

LEMMA RowInit == ASSUME UdpSources = {}, Init PROVE Row
<1>1. OnlyTcp
  BY DEF Init, OnlyTcp, FreshBase
<1>2. HandNum /\ AtHome /\ CmdRead
  BY DEF Init, HandNum, AtHome, CmdRead, Owns, Producers
<1>3. Ranged /\ Rising
  BY DEF Init, Ranged, Rising, Newest, Ahead, Producers
<1> QED BY <1>1, <1>2, <1>3 DEF Row

-----------------------------------------------------------------------------
(* The steps                                                               *)

\* A step that leaves messages, queues and hands alone, and no thread with
\* more to handle than before.
LEMMA RowKept ==
  ASSUME TypeOK, Row, UNCHANGED <<base, queue, ppc, hand, target, sent, served>>,
         \A w \in Threads : /\ Owns(w)' => Owns(w) /\ cur'[w] = cur[w]
                            /\ Ahead(w)' => Ahead(w) /\ cur'[w] = cur[w],
         CmdRead'
  PROVE  Row'
<1>1. OnlyTcp' /\ HandNum'
  BY DEF Row, OnlyTcp, HandNum
<1>2. AtHome'
  BY DEF Row, AtHome, OfThread
<1>3. Ranged'
  BY DEF Row, Ranged, InRange, Newest
<1>4. Rising'
  BY DEF Row, Rising, Before
<1> QED BY <1>1, <1>2, <1>3, <1>4 DEF Row

\* The message of CreateAndSet is nobody's, and its packet the newest.
LEMMA RowCreate ==
  ASSUME UdpSources = {}, OInd, NEW p \in Producers, CreateAndSet(p)
  PROVE  Row'
<1>0. TypeOK /\ OneHolder /\ Row /\ p \in Conns
  BY DEF OInd, IInd, Producers
<1>t. PICK t \in GetWorkThreadID(p, IF p \in UdpSources THEN "UDP" ELSE "TCP") :
        \E c \in CreateFrom(t) : CreateStep(p, t, c)
  BY DEF CreateAndSet, CreateStep
<1>1. PICK c \in CreateFrom(t) : CreateStep(p, t, c)
  BY <1>t
<1>2. t \in Threads
  BY ModThreads, ProducersAssumption DEF GetWorkThreadID, Producers
<1>3. c \in Cells /\ ~InFlight(c)
  BY <1>0, <1>2, FreshCell
<1>4. /\ base \in [Cells -> Bases]
      /\ base' = [base EXCEPT ![c] = SetMessage(base[c], p, sent[p] + 1)]
      /\ hand' = [hand EXCEPT ![p] = c]
  BY <1>0, <1>1, <1>3 DEF CreateStep, TypeOK
<1>5. /\ ppc[p] = "idle" /\ ppc' = [ppc EXCEPT ![p] = "filled"]
      /\ sent' = [sent EXCEPT ![p] = @ + 1]
      /\ UNCHANGED <<queue, target, wpc, cur, cmd, served>>
  BY DEF CreateAndSet, workVars
<1>6. /\ base'[c].type = base[c].type /\ base'[c].num = sent[p] + 1
      /\ \A x \in Cells : x # c => base'[x] = base[x]
  BY <1>0, <1>3, <1>4 DEF SetMessage
<1>7. \A u \in Threads : \A i \in DOMAIN queue[u] :
        queue[u][i] \in Cells /\ base'[queue[u][i]] = base[queue[u][i]]
  BY <1>0, <1>3, <1>6, RowTypes DEF InFlight, InQueue
<1>8. \A w \in Threads : Owns(w) => cur[w] \in Cells /\ base'[cur[w]] = base[cur[w]]
  BY <1>0, <1>3, <1>6, RowTypes DEF InFlight, AtWork
<1>9. \A q \in Producers : q # p /\ ppc[q] # "idle" =>
        hand'[q] = hand[q] /\ base'[hand[q]] = base[hand[q]]
  BY <1>0, <1>3, <1>4, <1>6, RowTypes DEF InFlight, InHand, TypeOK
<1>10. \A d \in Conns : Newest(d)' = Newest(d)
  BY <1>0, <1>5 DEF Newest, TypeOK, Producers
<1>11. OnlyTcp'
  BY <1>0, <1>6 DEF Row, OnlyTcp
<1>12. HandNum'
  BY <1>0, <1>3, <1>4, <1>5, <1>6, <1>9 DEF Row, HandNum, TypeOK, Producers
<1>13. AtHome'
  BY <1>0, <1>5, <1>7, <1>8 DEF Row, AtHome, OfThread, Owns, TypeOK
<1>14. CmdRead'
  BY <1>0, <1>5, <1>8 DEF Row, CmdRead, Owns
<1>15. Ranged'
  BY <1>0, <1>5, <1>7, <1>8, <1>10 DEF Row, Ranged, InRange, Ahead, Owns, AtHome, OfThread
<1>16. Rising'
  BY <1>0, <1>5, <1>7, <1>8 DEF Row, Rising, Before, Ahead, Owns
<1> QED BY <1>11, <1>12, <1>13, <1>14, <1>15, <1>16 DEF Row

\* A hand that is emptied without a put: the newest packet is lost.
LEMMA RowForget ==
  ASSUME TypeOK, Row, NEW p \in Conns, ppc[p] # "idle", Forget(p),
         UNCHANGED <<base, queue, target, sent, wpc, cur, cmd, served>>
  PROVE  Row'
<1>0. p \in Producers /\ sent[p] \in Nat
  BY RowTypes
<1>1. \A q \in Producers : ppc'[q] # "idle" => ppc'[q] = ppc[q] /\ hand'[q] = hand[q]
  BY DEF Forget, TypeOK
<1>2. \A d \in Conns : Newest(d) <= Newest(d)' /\ Newest(d) \in Int /\ Newest(d)' \in Int
  <2>1. /\ Newest(p) = sent[p] - 1 /\ Newest(p)' = sent[p]
        /\ \A d \in Conns : d # p => Newest(d)' = Newest(d)
    BY <1>0, RowTypes DEF Newest, Forget, TypeOK
  <2>2. \A d \in Conns : Newest(d) \in Int
    BY RowTypes DEF Newest
  <2> QED BY <1>0, <2>1, <2>2
<1>3. OnlyTcp' /\ HandNum' /\ CmdRead'
  BY <1>1, RowTypes DEF Row, OnlyTcp, HandNum, CmdRead
<1>4. AtHome'
  BY <1>1 DEF Row, AtHome, OfThread, Owns
<1>5. Ranged'
  <2>1. \A x \in Cells : base[x].from \in Conns /\ InRange(x) => InRange(x)'
    BY <1>2, RowTypes DEF InRange
  <2>2. \A d \in Conns : served'[d] <= Newest(d)'
    BY <1>2, RowTypes DEF Row, Ranged
  <2>3. \A t \in Threads : \A i \in DOMAIN queue'[t] : InRange(queue[t][i])'
    BY <2>1, RowTypes DEF Row, Ranged, AtHome, OfThread, InRange
  <2>4. \A w \in Threads : Ahead(w)' => InRange(cur[w])'
    BY <2>1, RowTypes DEF Row, Ranged, AtHome, OfThread, InRange, Ahead, Owns
  <2> QED BY <2>2, <2>3, <2>4 DEF Ranged
<1>6. Rising'
  BY DEF Row, Rising, Before, Ahead
<1> QED BY <1>3, <1>4, <1>5, <1>6 DEF Row

\* The newest packet of the connection goes to the end of the queue.
LEMMA RowPutq ==
  ASSUME TypeOK, HandBase, Row, NEW p \in Conns, Putq(p)
  PROVE  Row'
<1>0. p \in Producers /\ sent[p] \in Nat /\ ppc[p] = "checked"
  BY RowTypes DEF Putq
<1>1. PICK c \in Cells : c = hand[p]
  BY <1>0, RowTypes
<1>2. PICK t \in Threads : t = target[p]
  BY <1>0 DEF TypeOK
<1>3. base[c].from = p /\ base[c].num = sent[p] /\ t = Home(p)
  BY <1>0, <1>1, <1>2 DEF HandBase, Row, HandNum, AtHome
<1>4. /\ queue' = [queue EXCEPT ![t] = Append(@, c)]
      /\ ppc' = [ppc EXCEPT ![p] = "idle"] /\ hand' = [hand EXCEPT ![p] = NoCell]
      /\ UNCHANGED <<base, target, sent, wpc, cur, cmd, served>>
  BY <1>1, <1>2 DEF Putq, Forget, poolVars, workVars
<1>5. /\ queue[t] \in Seq(Cells) /\ Len(queue[t]) \in Nat
      /\ DOMAIN queue[t] = 1 .. Len(queue[t])
      /\ DOMAIN Append(queue[t], c) = 1 .. Len(queue[t]) + 1
      /\ \A i \in DOMAIN queue[t] : Append(queue[t], c)[i] = queue[t][i]
      /\ Append(queue[t], c)[Len(queue[t]) + 1] = c
  BY RowTypes
<1>6. \A u \in Threads : \A i \in DOMAIN queue'[u] :
        \/ i \in DOMAIN queue[u] /\ queue'[u][i] = queue[u][i]
        \/ u = t /\ i = Len(queue[t]) + 1 /\ queue'[u][i] = c
  BY <1>4, <1>5 DEF TypeOK
<1>7. Newest(p) = sent[p] - 1 /\ Newest(p)' = sent[p]
  BY <1>0, <1>4 DEF Newest, TypeOK
<1>8. \A d \in Conns : d # p => Newest(d)' = Newest(d)
  BY <1>0, <1>4, RowTypes DEF Newest, TypeOK
<1>9. \A x \in Cells : base[x].from \in Conns /\ InRange(x) => InRange(x)'
  BY <1>0, <1>4, <1>7, <1>8, RowTypes DEF InRange
<1>10. OfThread(c, t)' /\ InRange(c)'
  BY <1>0, <1>3, <1>4, <1>7, RowTypes DEF OfThread, InRange, Row, Ranged
<1>11. \A x \in Cells : InRange(x) => Before(x, c)
  BY <1>0, <1>3, <1>7, RowTypes DEF InRange, Before
<1>12. OnlyTcp' /\ CmdRead'
  BY <1>4 DEF Row, OnlyTcp, CmdRead
<1>13. HandNum'
  BY <1>0, <1>4 DEF Row, HandNum, TypeOK, Producers
<1>14. AtHome'
  <2>1. \A q \in Producers : ppc'[q] = "checked" => target'[q] = Home(q)
    BY <1>0, <1>4 DEF Row, AtHome, TypeOK
  <2>2. \A u \in Threads : \A i \in DOMAIN queue'[u] : OfThread(queue'[u][i], u)
    BY <1>4, <1>6, <1>10 DEF Row, AtHome, OfThread
  <2>3. \A w \in Threads : Owns(w)' => OfThread(cur'[w], w)
    BY <1>4 DEF Row, AtHome, Owns
  <2> QED BY <1>4, <2>1, <2>2, <2>3 DEF AtHome, OfThread
<1>15. Ranged'
  <2>1. \A d \in Conns : served'[d] <= Newest(d)'
    BY <1>0, <1>4, <1>7, <1>8, RowTypes DEF Row, Ranged
  <2>2. ASSUME NEW u \in Threads, NEW i \in DOMAIN queue'[u]
        PROVE  InRange(queue[u][i])'
    <3>1. CASE i \in DOMAIN queue[u] /\ queue'[u][i] = queue[u][i]
      <4>1. /\ queue[u][i] \in Cells /\ base[queue[u][i]].from \in Conns
            /\ InRange(queue[u][i])
        BY <3>1, RowTypes DEF Row, Ranged, AtHome, OfThread
      <4>2. PICK x \in Cells : x = queue[u][i] /\ InRange(x)'
        BY <1>9, <4>1
      <4> QED BY <3>1, <4>2 DEF InRange
    <3>2. CASE queue'[u][i] = c
      BY <3>2, <1>10 DEF InRange
    <3> QED BY <1>6, <3>1, <3>2
  <2>3. \A w \in Threads : Ahead(w)' => InRange(cur[w])'
    BY <1>4, <1>9, RowTypes DEF Row, Ranged, AtHome, OfThread, InRange, Ahead, Owns
  <2> QED BY <2>1, <2>2, <2>3 DEF Ranged
<1>16. Rising'
  <2> SUFFICES ASSUME NEW u \in Threads
               PROVE  /\ \A i, j \in DOMAIN queue'[u] : i < j =>
                           Before(queue'[u][i], queue'[u][j])
                      /\ Ahead(u) => \A j \in DOMAIN queue'[u] : Before(cur[u], queue'[u][j])
    BY <1>4 DEF Rising, Before, Ahead
  <2>1. \A i \in DOMAIN queue[u] : queue[u][i] \in Cells /\ InRange(queue[u][i])
    BY RowTypes DEF Row, Ranged
  <2>2. Ahead(u) => cur[u] \in Cells /\ InRange(cur[u])
    BY RowTypes DEF Row, Ranged, Ahead, Owns
  <2>3. \A i, j \in DOMAIN queue'[u] : i < j => Before(queue'[u][i], queue'[u][j])
    BY <1>5, <1>6, <1>11, <2>1 DEF Row, Rising
  <2>4. Ahead(u) => \A j \in DOMAIN queue'[u] : Before(cur[u], queue'[u][j])
    BY <1>6, <1>11, <2>2 DEF Row, Rising
  <2> QED BY <2>3, <2>4
<1> QED BY <1>12, <1>13, <1>14, <1>15, <1>16 DEF Row

\* CheckQueue looks at the queue of the one thread of the connection.
LEMMA RowPut ==
  ASSUME UdpSources = {}, OInd, NEW p \in Producers, Put(p)
  PROVE  Row'
<1>0. TypeOK /\ HandBase /\ OneHolder /\ Row /\ p \in Conns
  BY DEF OInd, IInd, Producers
<1>1. CASE CheckQueue(p)
  <2>1. /\ ppc[p] = "filled" /\ UNCHANGED <<base, queue, sent, wpc, cur, cmd, served>>
        /\ hand[p] \in Cells
    BY <1>0, <1>1, RowTypes DEF CheckQueue, poolVars, workVars
  <2>2. GetWorkThreadID(base[hand[p]].from, base[hand[p]].type) = {Home(p)}
    BY <1>0, <2>1 DEF HandBase, Row, OnlyTcp, GetWorkThreadID, Home
  <2>3. CASE target' = [target EXCEPT ![p] = Home(p)] /\ ppc' = [ppc EXCEPT ![p] = "checked"]
             /\ hand' = hand
    <3>1. \A d \in Conns : Newest(d)' = Newest(d)
      BY <1>0, <2>1, <2>3 DEF Newest, TypeOK, Producers
    <3>2. OnlyTcp' /\ CmdRead'
      BY <1>0, <2>1, <2>3 DEF Row, OnlyTcp, CmdRead
    <3>3. HandNum'
      BY <1>0, <2>1, <2>3 DEF Row, HandNum, TypeOK, Producers
    <3>4. AtHome'
      BY <1>0, <2>1, <2>3 DEF Row, AtHome, OfThread, Owns, TypeOK
    <3>5. Ranged'
      BY <1>0, <2>1, <3>1 DEF Row, Ranged, InRange, AtHome, OfThread, Ahead, Owns
    <3>6. Rising'
      BY <1>0, <2>1 DEF Row, Rising, Before, Ahead
    <3> QED BY <3>2, <3>3, <3>4, <3>5, <3>6 DEF Row
  <2>4. CASE Forget(p) /\ target' = target
    BY <1>0, <2>1, <2>4, RowForget
  <2> QED BY <1>1, <2>2, <2>3, <2>4 DEF CheckQueue
<1>2. CASE Putq(p)
  BY <1>0, <1>2, RowPutq
<1>3. CASE PutqTimeout(p)
  <2>1. ppc[p] # "idle" /\ Forget(p)
        /\ UNCHANGED <<base, queue, target, sent, wpc, cur, cmd, served>>
    BY <1>3 DEF PutqTimeout, poolVars, workVars
  <2> QED BY <1>0, <2>1, RowForget
<1> QED BY <1>1, <1>2, <1>3 DEF Put

\* The oldest message of the queue is the next the thread handles.
LEMMA RowGetq ==
  ASSUME TypeOK, Row, NEW w \in Threads, Getq(w)
  PROVE  Row'
<1>1. /\ queue[w] \in Seq(Cells) /\ queue[w] # <<>> /\ wpc[w] = "getq"
      /\ UNCHANGED <<base, ppc, hand, target, sent, cmd, served>>
  BY RowTypes DEF Getq, poolVars, prodVars
<1>2. PICK x \in Cells : x = queue[w][1]
  BY <1>1
<1>3. /\ queue' = [queue EXCEPT ![w] = Tail(@)]
      /\ cur' = [cur EXCEPT ![w] = x]
      /\ wpc' = [wpc EXCEPT ![w] = "gate"]
  BY <1>1, <1>2 DEF Getq
<1>4. /\ 1 \in DOMAIN queue[w]
      /\ \A i \in DOMAIN Tail(queue[w]) :
           /\ i \in Nat /\ i + 1 \in DOMAIN queue[w] /\ i + 1 > 1
           /\ Tail(queue[w])[i] = queue[w][i + 1]
  BY <1>1
<1>5. \A u \in Threads : \A i \in DOMAIN queue'[u] :
        \/ u # w /\ i \in DOMAIN queue[u] /\ queue'[u][i] = queue[u][i]
        \/ /\ u = w /\ i \in Nat /\ i + 1 \in DOMAIN queue[w] /\ i + 1 > 1
           /\ queue'[u][i] = queue[w][i + 1]
  BY <1>3, <1>4 DEF TypeOK
<1>6. /\ cur'[w] = x /\ Ahead(w)' /\ ~Owns(w)
      /\ \A v \in Threads : v # w => /\ Owns(v)' = Owns(v) /\ Ahead(v)' = Ahead(v)
                                     /\ cur'[v] = cur[v]
  BY <1>1, <1>3 DEF TypeOK, Ahead, Owns
<1>7. OfThread(x, w) /\ InRange(x)
  BY <1>2, <1>4 DEF Row, AtHome, Ranged
<1>8. OnlyTcp' /\ HandNum'
  BY <1>1 DEF Row, OnlyTcp, HandNum
<1>9. CmdRead'
  BY <1>1, <1>3 DEF Row, CmdRead, TypeOK
<1>10. AtHome'
  <2>1. \A u \in Threads : \A i \in DOMAIN queue'[u] : OfThread(queue'[u][i], u)
    BY <1>5 DEF Row, AtHome
  <2>2. \A v \in Threads : Owns(v)' => OfThread(cur'[v], v)
    BY <1>6, <1>7 DEF Row, AtHome
  <2> QED BY <1>1, <2>1, <2>2 DEF Row, AtHome, OfThread
<1>11. Ranged'
  <2>1. \A u \in Threads : \A i \in DOMAIN queue'[u] : InRange(queue'[u][i])
    BY <1>5 DEF Row, Ranged
  <2>2. \A v \in Threads : Ahead(v)' => InRange(cur'[v])
    BY <1>6, <1>7 DEF Row, Ranged
  <2> QED BY <1>1, <2>1, <2>2 DEF Row, Ranged, InRange, Newest
<1>12. Rising'
  <2>1. ASSUME NEW u \in Threads
        PROVE  \A i, j \in DOMAIN queue'[u] : i < j => Before(queue'[u][i], queue'[u][j])
    <3>1. CASE u = w
      <4>1. ASSUME NEW i \in DOMAIN queue'[u], NEW j \in DOMAIN queue'[u], i < j
            PROVE  Before(queue'[u][i], queue'[u][j])
        <5>1. /\ i \in Nat /\ i + 1 \in DOMAIN queue[w] /\ queue'[u][i] = queue[w][i + 1]
              /\ j \in Nat /\ j + 1 \in DOMAIN queue[w] /\ queue'[u][j] = queue[w][j + 1]
          BY <1>5, <3>1, <4>1
        <5>2. i + 1 < j + 1
          BY <4>1, <5>1
        <5> QED BY <5>1, <5>2 DEF Row, Rising
      <4> QED BY <4>1
    <3>2. CASE u # w
      BY <1>5, <3>2 DEF Row, Rising
    <3> QED BY <3>1, <3>2
  <2>2. ASSUME NEW u \in Threads, Ahead(u)', NEW j \in DOMAIN queue'[u]
        PROVE  Before(cur'[u], queue'[u][j])
    <3>1. CASE u = w
      <4>1. /\ j + 1 \in DOMAIN queue[w] /\ 1 < j + 1 /\ queue'[u][j] = queue[w][j + 1]
            /\ cur'[u] = queue[w][1]
        BY <1>2, <1>5, <1>6, <2>2, <3>1
      <4> QED BY <1>4, <4>1 DEF Row, Rising
    <3>2. CASE u # w
      BY <1>5, <1>6, <2>2, <3>2 DEF Row, Rising
    <3> QED BY <3>1, <3>2
  <2> QED BY <1>1, <2>1, <2>2 DEF Rising, Before
<1> QED BY <1>8, <1>9, <1>10, <1>11, <1>12 DEF Row

\* What was handled is the lowest number of its connection, and only one
\* thread has messages of it.
LEMMA RowHandled ==
  ASSUME TypeOK, Row, NEW w \in Threads, wpc[w] = "begun", Handled(w),
         UNCHANGED <<base, queue, ppc, hand, target, sent, cmd>>,
         ~Ahead(w)', Owns(w)' => cur'[w] = cur[w], wpc'[w] # "begun",
         \A v \in Threads : v # w => wpc'[v] = wpc[v] /\ cur'[v] = cur[v]
  PROVE  Row'
<1>1. Owns(w) /\ Ahead(w)
  BY DEF Owns, Ahead
<1>2. PICK x \in Cells : x = cur[w] /\ cmd[w] = base[x]
  BY <1>1, RowTypes DEF Row, CmdRead
<1>3. OfThread(x, w) /\ InRange(x)
  BY <1>1, <1>2 DEF Row, AtHome, Ranged
<1>4. served' = [d \in Conns |-> IF d = base[x].from THEN base[x].num ELSE served[d]]
  BY <1>2 DEF Handled
<1>5. \A v \in Threads : v # w => /\ Owns(v)' = Owns(v) /\ Ahead(v)' = Ahead(v)
                                  /\ cur'[v] = cur[v]
  BY DEF Owns, Ahead
<1>6. OnlyTcp' /\ HandNum' /\ CmdRead'
  BY <1>5 DEF Row, OnlyTcp, HandNum, CmdRead
<1>7. AtHome'
  BY <1>1, <1>5 DEF Row, AtHome, OfThread
<1>8. \A d \in Conns : Newest(d)' = Newest(d)
  BY DEF Newest
<1>9. \A y \in Cells : /\ base[y].from \in Conns /\ InRange(y)
                       /\ base[y].from # base[x].from \/ base[x].num < base[y].num
                       => InRange(y)'
  BY <1>3, <1>4, <1>8 DEF InRange, OfThread
<1>10. Ranged'
  <2>1. \A d \in Conns : served'[d] <= Newest(d)'
    BY <1>3, <1>4, <1>8 DEF Row, Ranged, InRange, OfThread
  <2>2. ASSUME NEW u \in Threads, NEW i \in DOMAIN queue[u]
        PROVE  InRange(queue[u][i])'
    <3>1. PICK y \in Cells : y = queue[u][i]
      BY RowTypes
    <3>2. OfThread(y, u) /\ InRange(y)
      BY <3>1 DEF Row, AtHome, Ranged
    <3>3. base[y].from # base[x].from \/ base[x].num < base[y].num
      <4>1. CASE u = w
        BY <1>1, <1>2, <3>1, <4>1 DEF Row, Rising, Before
      <4>2. CASE u # w
        BY <1>3, <3>2, <4>2, OneHome
      <4> QED BY <4>1, <4>2
    <3> QED BY <1>9, <3>1, <3>2, <3>3 DEF OfThread, InRange
  <2>3. ASSUME NEW v \in Threads, Ahead(v)'
        PROVE  InRange(cur[v])'
    <3>1. v # w /\ Ahead(v) /\ Owns(v) /\ cur'[v] = cur[v]
      BY <1>5, <2>3 DEF Ahead, Owns
    <3>2. PICK y \in Cells : y = cur[v]
      BY <3>1, RowTypes
    <3>3. OfThread(y, v) /\ InRange(y)
      BY <3>1, <3>2 DEF Row, AtHome, Ranged
    <3>4. base[y].from # base[x].from
      BY <1>3, <3>1, <3>3, OneHome
    <3> QED BY <1>9, <3>1, <3>2, <3>3, <3>4 DEF OfThread, InRange
  <2> QED BY <2>1, <2>2, <2>3 DEF Ranged
<1>11. Rising'
  BY <1>5 DEF Row, Rising, Before
<1> QED BY <1>6, <1>7, <1>10, <1>11 DEF Row

LEMMA RowWork ==
  ASSUME TypeOK, Row, NEW w \in Threads, Work(w)
  PROVE  Row'
<1>1. CASE Getq(w)
  BY <1>1, RowGetq
<1>2. CASE PassGate(w) \/ Begin(w) \/ DeleteMessage(w) \/ Finish(w)
  <2>1. UNCHANGED <<base, queue, ppc, hand, target, sent, served>>
    BY <1>2 DEF PassGate, Begin, DeleteMessage, Finish, poolVars, prodVars
  <2>2. \A v \in Threads : /\ Owns(v)' => Owns(v) /\ cur'[v] = cur[v]
                           /\ Ahead(v)' => Ahead(v) /\ cur'[v] = cur[v]
    BY <1>2 DEF PassGate, Begin, DeleteMessage, Finish, Owns, Ahead, TypeOK
  <2>3. CmdRead'
    <3>1. CASE Begin(w)
      BY <3>1 DEF Begin, Row, CmdRead, TypeOK, poolVars
    <3>2. CASE PassGate(w) \/ DeleteMessage(w) \/ Finish(w)
      BY <3>2 DEF PassGate, DeleteMessage, Finish, Row, CmdRead, TypeOK, poolVars
    <3> QED BY <1>2, <3>1, <3>2
  <2> QED BY <2>1, <2>2, <2>3, RowKept
<1>3. CASE Refuse(w) \/ DoMessage(w)
  <2>1. /\ wpc[w] = "begun" /\ Handled(w)
        /\ UNCHANGED <<base, queue, ppc, hand, target, sent, cmd>>
    BY <1>3 DEF Refuse, DoMessage, poolVars, prodVars
  <2>2. /\ ~Ahead(w)' /\ (Owns(w)' => cur'[w] = cur[w]) /\ wpc'[w] # "begun"
        /\ \A v \in Threads : v # w => wpc'[v] = wpc[v] /\ cur'[v] = cur[v]
    BY <1>3 DEF Refuse, DoMessage, Ahead, Owns, TypeOK
  <2> QED BY <2>1, <2>2, RowHandled
<1> QED BY <1>1, <1>2, <1>3 DEF Work

LEMMA RowStep == ASSUME UdpSources = {} PROVE OInd /\ [Next]_vars => Row'
<1> SUFFICES ASSUME OInd, [Next]_vars PROVE Row'
  OBVIOUS
<1>0. TypeOK /\ Row
  BY DEF OInd, IInd
<1>1. CASE StartUnload \/ Unload \/ UNCHANGED vars
  <2>1. UNCHANGED <<base, queue, ppc, hand, target, sent, served, wpc, cur, cmd>>
    BY <1>1 DEF StartUnload, Unload, MarkThread, ScanThread, UnloadModuleCommand,
                ResumeThread, vars, poolVars, prodVars, workVars
  <2>2. CmdRead'
    BY <1>0, <2>1 DEF Row, CmdRead
  <2> QED BY <1>0, <2>1, <2>2, RowKept DEF Owns, Ahead
<1> QED BY <1>0, <1>1, RowCreate, RowPut, RowWork DEF Next

LEMMA RowInductive == ASSUME UdpSources = {} PROVE Spec => []OInd
<1>1. Init => OInd
  BY IIndInit, RowInit DEF OInd
<1>2. OInd /\ [Next]_vars => OInd'
  BY IIndStep, RowStep DEF OInd
<1> QED BY <1>1, <1>2, PTL DEF Spec

\* Packets of a connection are never handled twice, nor one after a newer one,
\* whatever the network threads, the work threads and the console do meanwhile.
THEOREM TcpServedInOrder == ASSUME UdpSources = {} PROVE Spec => []ServedInOrder
<1>1. OInd => ServedInOrder
  BY DEF OInd, Row, CmdRead, Ranged, InRange, Ahead, ServedInOrder
<1> QED BY <1>1, RowInductive, PTL

\* Two work threads never have packets of one connection at a time.
THEOREM TcpOneThread == ASSUME UdpSources = {} PROVE Spec => []OneThreadPerConnection
<1>1. OInd => OneThreadPerConnection
  <2> SUFFICES ASSUME OInd, NEW t \in Threads, NEW u \in Threads,
                      NEW c \in SourcesAt(t), c \in SourcesAt(u)
               PROVE  t = u
    BY DEF OneThreadPerConnection
  <2>1. \A v \in Threads : \A d \in SourcesAt(v) : Home(d) = v
    BY DEF SourcesAt, OInd, Row, AtHome, OfThread
  <2> QED BY <2>1
<1> QED BY <1>1, RowInductive, PTL

-----------------------------------------------------------------------------
(* No message is lost while no queue refuses one                           *)

\* A message is counted as used by the pool of the thread of its connection.
UsedAtHome == \A x \in Cells : InFlight(x) => x \in used[Home(base[x].from)]

Kept == UsedAtHome /\ NothingLost

\* Limits of the queues that all the messages together do not reach.
Roomy == /\ IsFiniteSet(Cells)
         /\ Cardinality(Cells) <= MaxQueue
         /\ Cardinality(Cells) <= HighMark

\* A queue holds a message once, so with one elsewhere it is not full.
LEMMA QueueFits ==
  ASSUME Roomy, TypeOK, OneHolder, NEW t \in Threads, NEW x \in Cells, ~InQueue(x)
  PROVE  Len(queue[t]) < MaxQueue /\ Len(queue[t]) < HighMark
<1>1. /\ queue[t] \in Seq(Cells) /\ Len(queue[t]) \in Nat
      /\ DOMAIN queue[t] = 1 .. Len(queue[t])
  BY RowTypes
<1>2. /\ IsFiniteSet(Cells \ {x}) /\ Cardinality(Cells \ {x}) = Cardinality(Cells) - 1
      /\ Cardinality(Cells) \in Nat
  BY FS_RemoveElement, FS_CardinalityType DEF Roomy
<1>3. queue[t] \in [1 .. Len(queue[t]) -> Cells \ {x}]
  BY <1>1 DEF InQueue
<1>4. /\ IsFiniteSet(1 .. Len(queue[t]))
      /\ Cardinality(1 .. Len(queue[t])) = Len(queue[t])
  BY <1>1, FS_Interval
<1>5. ~ \E i, j \in 1 .. Len(queue[t]) : i # j /\ queue[t][i] = queue[t][j]
  BY <1>1 DEF OneHolder, QueuedOnce
<1>6. ~ Cardinality(Cells \ {x}) < Cardinality(1 .. Len(queue[t]))
  BY <1>2, <1>3, <1>4, <1>5, FS_PigeonHole
<1> QED BY <1>1, <1>2, <1>4, <1>6, LimitsAssumption DEF Roomy

LEMMA KeptInit == Init => Kept
<1> SUFFICES ASSUME Init PROVE Kept
  OBVIOUS
<1>1. \A x \in Cells : ~InFlight(x)
  BY CellsAssumption DEF Init, InFlight, InQueue, InHand, AtWork, Owns
<1> QED BY <1>1 DEF Kept, UsedAtHome, NothingLost, Init

\* A step that moves messages from one place to another.
LEMMA KeptMoved ==
  ASSUME TypeOK, Kept, base' = base, SamePools,
         \A x \in Cells : InFlight(x)' <=> InFlight(x)
  PROVE  Kept'
BY DEF Kept, UsedAtHome, NothingLost, SamePools, TypeOK

LEMMA KeptCreate ==
  ASSUME UdpSources = {}, OInd, Kept, NEW p \in Producers, CreateAndSet(p)
  PROVE  Kept'
<1>0. TypeOK /\ OneHolder /\ Row /\ p \in Conns
  BY DEF OInd, IInd, Producers
<1>1. PICK t \in GetWorkThreadID(p, "TCP") : \E c \in CreateFrom(t) : CreateStep(p, t, c)
  BY DEF CreateAndSet, CreateStep
<1>2. t = Home(p) /\ t \in Threads
  BY <1>0, <1>1, ModThreads, ProducersAssumption DEF GetWorkThreadID, Home
<1>3. PICK c \in CreateFrom(t) : CreateStep(p, t, c)
  BY <1>1
<1>4. c \in Cells /\ ~InFlight(c)
  BY <1>0, <1>2, FreshCell
<1>5. /\ base'[c].from = p /\ \A x \in Cells : x # c => base'[x] = base[x]
      /\ hand' = [hand EXCEPT ![p] = c] /\ hand[p] = NoCell
      /\ used' = [used EXCEPT ![t] = @ \cup {c}]
  BY <1>0, <1>3, <1>4 DEF CreateStep, CreateAndSet, SetMessage, TypeOK
<1>6. UNCHANGED <<queue, wpc, cur, kept>>
  BY DEF CreateAndSet, workVars
<1>7. \A x \in Cells : InHand(x)' <=> InHand(x) \/ x = c
  BY <1>0, <1>5, CellsAssumption DEF InHand, TypeOK
<1>8. \A x \in Cells : InFlight(x)' <=> InFlight(x) \/ x = c
  BY <1>6, <1>7 DEF InFlight, InQueue, AtWork, Owns
<1>9. UsedAtHome'
  BY <1>0, <1>2, <1>4, <1>5, <1>8 DEF Kept, UsedAtHome, TypeOK
<1>10. NothingLost'
  BY <1>0, <1>4, <1>5, <1>8 DEF Kept, NothingLost, TypeOK
<1> QED BY <1>9, <1>10 DEF Kept

\* Putq takes the message out of the hand and puts it in the queue.
LEMMA PutqPlaces ==
  ASSUME TypeOK, OneHolder, NEW p \in Producers, Putq(p), NEW c \in Cells, c = hand[p]
  PROVE  \A x \in Cells : /\ InQueue(x)' <=> InQueue(x) \/ x = c
                          /\ InHand(x) <=> InHand(x)' \/ x = c
<1>1. PICK t \in Threads : t = target[p]
  BY DEF Putq, TypeOK
<1>2. queue' = [queue EXCEPT ![t] = Append(@, c)] /\ hand' = [hand EXCEPT ![p] = NoCell]
  BY <1>1 DEF Putq, Forget
<1>3. /\ queue[t] \in Seq(Cells) /\ Len(queue[t]) \in Nat
      /\ DOMAIN queue[t] = 1 .. Len(queue[t])
      /\ DOMAIN Append(queue[t], c) = 1 .. Len(queue[t]) + 1
      /\ \A i \in DOMAIN queue[t] : Append(queue[t], c)[i] = queue[t][i]
      /\ Append(queue[t], c)[Len(queue[t]) + 1] = c
  BY RowTypes
<1>4. \A x \in Cells : InQueue(x)' <=> InQueue(x) \/ x = c
  <2>1. ASSUME NEW x \in Cells, InQueue(x)' PROVE InQueue(x) \/ x = c
    BY <1>2, <1>3, <2>1 DEF InQueue, TypeOK
  <2>2. ASSUME NEW x \in Cells, InQueue(x) PROVE InQueue(x)'
    <3>1. PICK u \in Threads : \E i \in DOMAIN queue[u] : queue[u][i] = x
      BY <2>2 DEF InQueue
    <3>2. PICK i \in DOMAIN queue[u] : queue[u][i] = x
      BY <3>1
    <3>3. i \in DOMAIN queue'[u] /\ queue'[u][i] = x
      BY <1>2, <1>3, <3>2 DEF TypeOK
    <3> QED BY <3>3 DEF InQueue
  <2>3. InQueue(c)'
    <3>1. Len(queue[t]) + 1 \in DOMAIN queue'[t] /\ queue'[t][Len(queue[t]) + 1] = c
      BY <1>2, <1>3 DEF TypeOK
    <3> QED BY <3>1 DEF InQueue
  <2> QED BY <2>1, <2>2, <2>3
<1>5. \A x \in Cells : InHand(x) <=> InHand(x)' \/ x = c
  BY <1>2, CellsAssumption DEF InHand, TypeOK
<1> QED BY <1>4, <1>5

\* With room for everything, PutMessage neither refuses nor waits in vain.
LEMMA KeptPut ==
  ASSUME Roomy, OInd, Kept, NEW p \in Producers, Put(p)
  PROVE  Kept'
<1>0. TypeOK /\ HandBase /\ OneHolder
  BY DEF OInd, IInd
<1>1. PICK c \in Cells : c = hand[p]
  BY <1>0, RowTypes DEF Put, CheckQueue, Putq, PutqTimeout
<1>2. ~InQueue(c)
  BY <1>0, <1>1 DEF InHand, OneHolder, OneKindOfHolder
<1>3. \A t \in Threads : /\ Len(queue[t]) < MaxQueue /\ Len(queue[t]) < HighMark
                         /\ Len(queue[t]) \in Nat /\ MaxQueue \in Nat /\ HighMark \in Nat
  BY <1>0, <1>2, QueueFits, RowTypes, LimitsAssumption
<1>4. UNCHANGED <<base, wpc, cur, kept>> /\ SamePools
  BY DEF Put, CheckQueue, Putq, PutqTimeout, poolVars, workVars, SamePools
<1>5. CASE CheckQueue(p)
  <2>1. hand' = hand /\ queue' = queue
    BY <1>0, <1>3, <1>5, RouteInThreads DEF CheckQueue
  <2> QED BY <1>0, <1>4, <2>1, KeptMoved DEF InFlight, InQueue, InHand, AtWork, Owns
<1>6. CASE Putq(p)
  <2>1. \A x \in Cells : InQueue(x)' <=> InQueue(x) \/ x = c
    BY <1>0, <1>1, <1>6, PutqPlaces
  <2>2. \A x \in Cells : InHand(x) <=> InHand(x)' \/ x = c
    BY <1>0, <1>1, <1>6, PutqPlaces
  <2>3. \A x \in Cells : AtWork(x)' <=> AtWork(x)
    BY <1>4 DEF AtWork, Owns
  <2>4. \A x \in Cells : InFlight(x)' <=> InFlight(x)
    <3> SUFFICES ASSUME NEW x \in Cells PROVE InFlight(x)' <=> InFlight(x)
      OBVIOUS
    <3>1. (InQueue(x)' <=> InQueue(x) \/ x = c) /\ (AtWork(x)' <=> AtWork(x)) /\ kept' = kept
      BY <1>4, <2>1, <2>3
    <3>2. InHand(x) <=> InHand(x)' \/ x = c
      BY <2>2
    <3> QED BY <3>1, <3>2 DEF InFlight
  <2> QED BY <1>0, <1>4, <2>4, KeptMoved
<1>7. CASE PutqTimeout(p)
  BY <1>0, <1>3, <1>7 DEF PutqTimeout, TypeOK
<1> QED BY <1>5, <1>6, <1>7 DEF Put

\* A message is given back to the pool that counts it: the one of its thread.
LEMMA KeptDelete ==
  ASSUME OInd, Kept, NEW w \in Threads, PoolDelete(w, cur[w]), Owns(w), ~Owns(w)',
         \A v \in Threads : v # w => (Owns(v)' <=> Owns(v)) /\ cur'[v] = cur[v],
         UNCHANGED <<base, queue, hand, kept>>
  PROVE  Kept'
<1>0. TypeOK /\ OneHolder /\ Row
  BY DEF OInd, IInd
<1>1. PICK c \in Cells : c = cur[w]
  BY <1>0, RowTypes
<1>2. InFlight(c) /\ AtWork(c) /\ Home(base[c].from) = w
  BY <1>0, <1>1 DEF InFlight, AtWork, Row, AtHome, OfThread
<1>3. c \in used[w] /\ \A u \in Threads : u # w => c \notin used[u]
  BY <1>0, <1>2 DEF Kept, UsedAtHome, OneHolder, PoolsDisjoint
<1>4. used' = [used EXCEPT ![w] = @ \ {c}]
  BY <1>1 DEF PoolDelete
<1>5. \A x \in Cells : AtWork(x)' <=> AtWork(x) /\ x # c
  BY <1>0, <1>1 DEF AtWork, OneHolder, WorksDiffer
<1>6. \A x \in Cells : InFlight(x)' <=> InFlight(x) /\ x # c
  BY <1>0, <1>2, <1>5 DEF InFlight, InQueue, InHand, OneHolder, OneKindOfHolder
<1>7. UsedAtHome'
  <2> SUFFICES ASSUME NEW x \in Cells, InFlight(x)'
               PROVE  x \in used'[Home(base[x].from)]
    BY DEF UsedAtHome
  <2>1. x # c /\ x \in used[Home(base[x].from)]
    BY <1>6 DEF Kept, UsedAtHome
  <2> QED BY <1>0, <1>4, <2>1 DEF TypeOK
<1>8. NothingLost'
  BY <1>0, <1>3, <1>4, <1>6 DEF Kept, NothingLost, TypeOK
<1> QED BY <1>7, <1>8 DEF Kept

\* Getq takes a message out of the queue and puts it to work, and moves no
\* other; the places of a message after the step, for InFlight and Waiting.
LEMMA GetqPlaces ==
  ASSUME TypeOK, OneHolder, NEW w \in Threads, Getq(w)
  PROVE  \E c \in Cells :
           /\ wpc' = [wpc EXCEPT ![w] = "gate"] /\ wpc[w] = "getq"
           /\ cur' = [cur EXCEPT ![w] = c]
           /\ \A x \in Cells : InQueue(x) <=> InQueue(x)' \/ x = c
<1>1. queue[w] \in Seq(Cells) /\ queue[w] # <<>> /\ wpc[w] = "getq"
  BY RowTypes DEF Getq
<1>2. PICK c \in Cells : c = queue[w][1]
  BY <1>1
<1>3. /\ queue' = [queue EXCEPT ![w] = Tail(@)]
      /\ cur' = [cur EXCEPT ![w] = c]
      /\ wpc' = [wpc EXCEPT ![w] = "gate"]
  BY <1>1, <1>2 DEF Getq
<1>4. /\ 1 \in DOMAIN queue[w] /\ Len(queue[w]) \in Nat
      /\ DOMAIN queue[w] = 1 .. Len(queue[w])
      /\ DOMAIN Tail(queue[w]) = 1 .. Len(queue[w]) - 1
      /\ \A i \in DOMAIN Tail(queue[w]) : Tail(queue[w])[i] = queue[w][i + 1]
  BY <1>1
<1>5. /\ queue'[w] = Tail(queue[w])
      /\ \A u \in Threads : u # w => queue'[u] = queue[u]
  BY <1>3 DEF TypeOK
<1>6. ASSUME NEW x \in Cells, InQueue(x) PROVE InQueue(x)' \/ x = c
  <2>1. PICK u \in Threads : \E i \in DOMAIN queue[u] : queue[u][i] = x
    BY <1>6 DEF InQueue
  <2>2. PICK i \in DOMAIN queue[u] : queue[u][i] = x
    BY <2>1
  <2>3. CASE u # w
    BY <1>5, <2>2, <2>3 DEF InQueue
  <2>4. CASE u = w /\ i = 1
    BY <1>2, <2>2, <2>4
  <2>5. CASE u = w /\ i # 1
    <3>1. i - 1 \in DOMAIN Tail(queue[w]) /\ (i - 1) + 1 = i
      BY <1>4, <2>2, <2>5
    <3>2. Tail(queue[w])[i - 1] = x
      BY <1>4, <2>2, <2>5, <3>1
    <3> QED BY <1>5, <3>1, <3>2 DEF InQueue
  <2> QED BY <2>3, <2>4, <2>5
<1>7. ASSUME NEW x \in Cells, InQueue(x)' PROVE InQueue(x)
  <2>1. PICK u \in Threads : \E i \in DOMAIN queue'[u] : queue'[u][i] = x
    BY <1>7 DEF InQueue
  <2>2. PICK i \in DOMAIN queue'[u] : queue'[u][i] = x
    BY <2>1
  <2>3. CASE u # w
    BY <1>5, <2>2, <2>3 DEF InQueue
  <2>4. CASE u = w
    <3>1. i + 1 \in DOMAIN queue[w] /\ queue[w][i + 1] = x
      <4>1. i \in 1 .. Len(queue[w]) - 1 /\ Tail(queue[w])[i] = x
        BY <1>4, <1>5, <2>2, <2>4
      <4> QED BY <1>4, <4>1
    <3> QED BY <3>1 DEF InQueue
  <2> QED BY <2>3, <2>4
<1>8. InQueue(c)
  BY <1>2, <1>4 DEF InQueue
<1> QED BY <1>1, <1>2, <1>3, <1>6, <1>7, <1>8

LEMMA KeptWork ==
  ASSUME OInd, Kept, NEW w \in Threads, Work(w)
  PROVE  Kept'
<1>0. TypeOK /\ OneHolder
  BY DEF OInd, IInd
<1>1. CASE Getq(w)
  <2>1. PICK c \in Cells :
          /\ wpc' = [wpc EXCEPT ![w] = "gate"] /\ wpc[w] = "getq"
          /\ cur' = [cur EXCEPT ![w] = c]
          /\ \A x \in Cells : InQueue(x) <=> InQueue(x)' \/ x = c
    BY <1>0, <1>1, GetqPlaces
  <2>2. \A x \in Cells : AtWork(x)' <=> AtWork(x) \/ x = c
    BY <1>0, <2>1 DEF AtWork, Owns, TypeOK
  <2>3. base' = base /\ SamePools /\ hand' = hand /\ kept' = kept
    BY <1>1 DEF Getq, poolVars, prodVars, SamePools
  <2>4. \A x \in Cells : InFlight(x)' <=> InFlight(x)
    BY <2>1, <2>2, <2>3 DEF InFlight, InHand
  <2> QED BY <1>0, <2>3, <2>4, KeptMoved
<1>2. CASE PassGate(w) \/ Begin(w) \/ Finish(w)
  <2>1. base' = base /\ SamePools /\ hand' = hand /\ kept' = kept /\ queue' = queue
    BY <1>2 DEF PassGate, Begin, Finish, poolVars, prodVars, SamePools
  <2>2. SameWork
    BY <1>0, <1>2 DEF PassGate, Begin, Finish, SameWork, Owns, TypeOK
  <2>3. \A x \in Cells : InFlight(x)' <=> InFlight(x)
    BY <2>1, <2>2, PlacesKept DEF InFlight, InHand, InQueue
  <2> QED BY <1>0, <2>1, <2>3, KeptMoved
<1>3. CASE Refuse(w) \/ DeleteMessage(w)
  <2>1. /\ PoolDelete(w, cur[w]) /\ Owns(w) /\ ~Owns(w)'
        /\ \A v \in Threads : v # w => (Owns(v)' <=> Owns(v)) /\ cur'[v] = cur[v]
        /\ UNCHANGED <<base, queue, hand, kept>>
    BY <1>0, <1>3 DEF Refuse, DeleteMessage, Owns, TypeOK, prodVars
  <2> QED BY <2>1, KeptDelete
<1>4. CASE DoMessage(w)
  <2>1. /\ base' = base /\ SamePools /\ hand' = hand /\ queue' = queue /\ cur' = cur
        /\ wpc[w] = "begun" /\ cur[w] \in Cells
    BY <1>0, <1>4 DEF DoMessage, poolVars, prodVars, SamePools, TypeOK
  <2>2. CASE wpc' = [wpc EXCEPT ![w] = "delete"] /\ kept' = kept
    <3>1. SameWork
      BY <1>0, <2>1, <2>2 DEF SameWork, Owns, TypeOK
    <3>2. \A x \in Cells : InFlight(x)' <=> InFlight(x)
      BY <2>1, <2>2, <3>1, PlacesKept DEF InFlight, InHand, InQueue
    <3> QED BY <1>0, <2>1, <3>2, KeptMoved
  <2>3. CASE wpc' = [wpc EXCEPT ![w] = "tail"] /\ kept' = kept \cup {cur[w]}
    <3>1. Owns(w) /\ ~Owns(w)' /\ \A v \in Threads : v # w => (Owns(v)' <=> Owns(v))
      BY <1>0, <2>1, <2>3 DEF Owns, TypeOK
    <3>2. \A x \in Cells : AtWork(x) <=> AtWork(x)' \/ x = cur[w]
      BY <2>1, <3>1 DEF AtWork
    <3>3. \A x \in Cells : InFlight(x)' <=> InFlight(x)
      BY <2>1, <2>3, <3>2 DEF InFlight, InHand, InQueue
    <3> QED BY <1>0, <2>1, <3>3, KeptMoved
  <2> QED BY <1>4, <2>2, <2>3 DEF DoMessage
<1> QED BY <1>1, <1>2, <1>3, <1>4 DEF Work

LEMMA KeptStep == ASSUME UdpSources = {}, Roomy PROVE OInd /\ Kept /\ [Next]_vars => Kept'
<1> SUFFICES ASSUME OInd, Kept, [Next]_vars PROVE Kept'
  OBVIOUS
<1>1. CASE StartUnload \/ Unload \/ UNCHANGED vars
  <2>1. UNCHANGED <<base, queue, hand, kept, wpc, cur>> /\ SamePools
    BY <1>1 DEF StartUnload, Unload, MarkThread, ScanThread, UnloadModuleCommand,
                ResumeThread, vars, poolVars, prodVars, workVars, SamePools
  <2>2. \A x \in Cells : InFlight(x)' <=> InFlight(x)
    BY <2>1 DEF InFlight, InQueue, InHand, AtWork, Owns
  <2> QED BY <2>1, <2>2, KeptMoved DEF OInd, IInd
<1> QED BY <1>1, KeptCreate, KeptPut, KeptWork DEF Next

\* As long as the limits are never reached, every CMessage that a pool counts
\* as used is somewhere on its way: it comes back to the pool it was taken from.
\* (With UDP, or with a full queue, it does not: CreateAndSet and Forget.)
THEOREM TcpNothingLost == ASSUME UdpSources = {}, Roomy PROVE Spec => []NothingLost
<1>1. Kept => NothingLost
  BY DEF Kept
<1> QED BY <1>1, KeptInit, KeptStep, RowInductive, PTL DEF Spec

-----------------------------------------------------------------------------
(* The work threads implement the channels                                 *)

\* The places of a message that waits, by what a step does to them.
LEMMA WaitingKept ==
  ASSUME hand' = hand, queue' = queue,
         \A w \in Threads : (Ahead(w)' <=> Ahead(w)) /\ (Ahead(w) => cur'[w] = cur[w])
  PROVE  \A x \in Cells : Waiting(x)' <=> Waiting(x)
BY DEF Waiting, InHand, InQueue, Ahead

\* A step that moves no packet in or out.
LEMMA ChannelStutter ==
  ASSUME base' = base, sent' = sent, served' = served,
         \A x \in Cells : Waiting(x)' <=> Waiting(x)
  PROVE  UNCHANGED Channel!vars
<1>1. \A c \in Conns : InTransit(c)' = InTransit(c)
  BY DEF InTransit
<1> QED BY <1>1 DEF Channel!vars

\* A message that leaves, the only one with its packet.
LEMMA TransitWithout ==
  ASSUME base' = base, NEW x \in Cells, Waiting(x),
         \A y \in Cells : Waiting(y)' <=> Waiting(y) /\ y # x,
         \A y \in Cells : Waiting(y) /\ y # x /\ base[y].from = base[x].from =>
                            base[y].num # base[x].num
  PROVE  \A c \in Conns : InTransit(c)' = IF c = base[x].from
                                          THEN InTransit(c) \ {base[x].num}
                                          ELSE InTransit(c)
BY DEF InTransit

\* The one at work comes first, the one in hand last.
LEMMA FirstAndLast ==
  ASSUME OInd, UdpSources = {}, NEW y \in Cells, Waiting(y)
  PROVE  /\ \A w \in Threads :
              Ahead(w) /\ base[y].from = base[cur[w]].from /\ y # cur[w]
                => base[cur[w]].num < base[y].num
         /\ \A p \in Conns :
              ppc[p] # "idle" /\ base[y].from = p /\ y # hand[p]
                => base[y].num < sent[p]
<1>0. TypeOK /\ HandBase /\ Row /\ Producers = Conns
  BY DEF OInd, IInd, Producers
<1>1. CASE InHand(y)
  <2>1. PICK q \in Conns : hand[q] = y /\ ppc[q] # "idle"
    BY <1>0, <1>1, CellsAssumption DEF InHand, TypeOK
  <2>2. base[y].from = q /\ base[y].num = sent[q]
    BY <1>0, <2>1 DEF HandBase, Row, HandNum
  <2>3. \A w \in Threads : Ahead(w) => InRange(cur[w]) /\ cur[w] \in Cells
    BY <1>0, RowTypes DEF Row, Ranged, Ahead, Owns
  <2> QED BY <1>0, <2>1, <2>2, <2>3, RowTypes DEF InRange, Newest
<1>2. CASE InQueue(y)
  <2>1. PICK u \in Threads : \E i \in DOMAIN queue[u] : queue[u][i] = y
    BY <1>2 DEF InQueue
  <2>2. PICK i \in DOMAIN queue[u] : queue[u][i] = y
    BY <2>1
  <2>3. OfThread(y, u) /\ InRange(y)
    BY <1>0, <2>2 DEF Row, AtHome, Ranged
  <2>4. ASSUME NEW w \in Threads, Ahead(w), base[y].from = base[cur[w]].from
        PROVE  base[cur[w]].num < base[y].num
    <3>1. OfThread(cur[w], w)
      BY <1>0, <2>4 DEF Row, AtHome, Ahead, Owns
    <3>2. u = w
      BY <2>3, <2>4, <3>1, OneHome
    <3> QED BY <1>0, <2>2, <2>4, <3>2 DEF Row, Rising, Before
  <2>5. ASSUME NEW p \in Conns, ppc[p] # "idle", base[y].from = p
        PROVE  base[y].num < sent[p]
    BY <1>0, <2>3, <2>5, RowTypes DEF InRange, Newest
  <2> QED BY <2>4, <2>5
<1>3. CASE \E v \in Threads : Ahead(v) /\ cur[v] = y
  <2>1. PICK v \in Threads : Ahead(v) /\ cur[v] = y
    BY <1>3
  <2>2. OfThread(y, v) /\ InRange(y)
    BY <1>0, <2>1 DEF Row, AtHome, Ranged, Ahead, Owns
  <2>3. ASSUME NEW w \in Threads, Ahead(w), base[y].from = base[cur[w]].from
        PROVE  y = cur[w]
    <3>1. OfThread(cur[w], w)
      BY <1>0, <2>3 DEF Row, AtHome, Ahead, Owns
    <3> QED BY <2>1, <2>2, <2>3, <3>1, OneHome
  <2>4. ASSUME NEW p \in Conns, ppc[p] # "idle", base[y].from = p
        PROVE  base[y].num < sent[p]
    BY <1>0, <2>2, <2>4, RowTypes DEF InRange, Newest
  <2> QED BY <2>3, <2>4
<1> QED BY <1>1, <1>2, <1>3 DEF Waiting, Ahead

LEMMA ChannelInit == Init => Channel!Init
<1> SUFFICES ASSUME Init PROVE Channel!Init
  OBVIOUS
<1>1. \A x \in Cells : ~Waiting(x)
  BY CellsAssumption DEF Init, Waiting, InQueue, InHand
<1>2. \A c \in Conns : InTransit(c) = {} /\ sent[c] = 0
  BY <1>1 DEF InTransit, Init, Producers
<1>3. served = [c \in Conns |-> 0]
  BY DEF Init
<1> QED BY <1>2, <1>3 DEF Channel!Init

\* CreateAndSet is the receipt of the packet.
LEMMA ChannelReceive ==
  ASSUME UdpSources = {}, OInd, NEW p \in Producers, CreateAndSet(p)
  PROVE  Channel!Receive(p)
<1>0. TypeOK /\ OneHolder /\ Row /\ p \in Conns
  BY DEF OInd, IInd, Producers
<1>1. PICK t \in GetWorkThreadID(p, "TCP") : \E c \in CreateFrom(t) : CreateStep(p, t, c)
  BY DEF CreateAndSet, CreateStep
<1>2. t \in Threads
  BY <1>0, <1>1, ModThreads, ProducersAssumption DEF GetWorkThreadID
<1>3. PICK c \in CreateFrom(t) : CreateStep(p, t, c)
  BY <1>1
<1>4. c \in Cells /\ ~InFlight(c)
  BY <1>0, <1>2, FreshCell
<1>5. /\ base'[c].from = p /\ base'[c].num = sent[p] + 1
      /\ \A x \in Cells : x # c => base'[x] = base[x]
      /\ hand' = [hand EXCEPT ![p] = c] /\ hand[p] = NoCell
  BY <1>0, <1>3, <1>4 DEF CreateStep, CreateAndSet, SetMessage, TypeOK
<1>6. /\ UNCHANGED <<queue, wpc, cur, served>>
      /\ sent[p] < MaxPackets /\ sent' = [sent EXCEPT ![p] = @ + 1]
  BY DEF CreateAndSet, workVars
<1>7. \A x \in Cells : InHand(x)' <=> InHand(x) \/ x = c
  BY <1>0, <1>5, CellsAssumption DEF InHand, TypeOK
<1>8. \A x \in Cells : Waiting(x)' <=> Waiting(x) \/ x = c
  BY <1>6, <1>7 DEF Waiting, InQueue
<1>9. ~Waiting(c)
  BY <1>4 DEF InFlight, Waiting, AtWork, Owns
<1>10. \A d \in Conns : InTransit(d)' = IF d = p THEN InTransit(d) \cup {sent[p] + 1}
                                       ELSE InTransit(d)
  BY <1>4, <1>5, <1>8, <1>9 DEF InTransit
<1>11. \A d \in Conns : sent'[d] = IF d = p THEN sent[p] + 1 ELSE sent[d]
  BY <1>0, <1>6 DEF TypeOK, Producers
<1> QED BY <1>0, <1>6, <1>10, <1>11 DEF Channel!Receive

\* Forget is the loss of the newest packet.
LEMMA ChannelRefuse ==
  ASSUME UdpSources = {}, OInd, NEW p \in Producers, ppc[p] # "idle", Forget(p),
         UNCHANGED <<base, queue, sent, wpc, cur, served>>
  PROVE  Channel!Refuse(p)
<1>0. TypeOK /\ HandBase /\ OneHolder /\ Row /\ p \in Conns
  BY DEF OInd, IInd, Producers
<1>1. PICK x \in Cells : x = hand[p]
  BY <1>0, RowTypes
<1>2. Waiting(x) /\ base[x].from = p /\ base[x].num = sent[p]
  BY <1>0, <1>1 DEF Waiting, InHand, HandBase, Row, HandNum
<1>3. InHand(x) /\ ~InQueue(x) /\ ~AtWork(x)
  BY <1>0, <1>1 DEF InHand, OneHolder, OneKindOfHolder
<1>4. \A y \in Cells : InHand(y)' <=> InHand(y) /\ y # x
  BY <1>0, <1>1, CellsAssumption DEF InHand, Forget, OneHolder, HandsDiffer, TypeOK
<1>5. \A y \in Cells : Waiting(y)' <=> Waiting(y) /\ y # x
  BY <1>3, <1>4 DEF Waiting, InQueue, AtWork, Owns
<1>6. \A y \in Cells : Waiting(y) /\ y # x /\ base[y].from = base[x].from =>
                         base[y].num # base[x].num
  BY <1>0, <1>1, <1>2, FirstAndLast, RowTypes
<1>7. \A c \in Conns : InTransit(c)' = IF c = p THEN InTransit(c) \ {sent[p]}
                                      ELSE InTransit(c)
  BY <1>2, <1>5, <1>6, TransitWithout
<1>8. sent[p] \in InTransit(p)
  BY <1>2 DEF InTransit
<1> QED BY <1>0, <1>7, <1>8 DEF Channel!Refuse

\* DoMessage, and the busy answer, handle the oldest packet.
LEMMA ChannelHandle ==
  ASSUME UdpSources = {}, OInd, NEW w \in Threads, Refuse(w) \/ DoMessage(w)
  PROVE  \E c \in Conns : Channel!Handle(c)
<1>0. TypeOK /\ OneHolder /\ Row
  BY DEF OInd, IInd
<1>1. /\ wpc[w] = "begun" /\ Handled(w) /\ UNCHANGED <<base, hand, queue, sent>>
      /\ Ahead(w) /\ Owns(w) /\ ~Ahead(w)'
      /\ \A v \in Threads : v # w => (Ahead(v)' <=> Ahead(v)) /\ cur'[v] = cur[v]
  BY <1>0 DEF Refuse, DoMessage, Ahead, Owns, TypeOK, poolVars, prodVars
<1>2. PICK x \in Cells : x = cur[w] /\ cmd[w] = base[x]
  BY <1>0, <1>1, RowTypes DEF Row, CmdRead
<1>3. PICK c \in Conns : c = base[x].from
  BY <1>0, <1>1, <1>2 DEF Row, AtHome, OfThread
<1>4. InRange(x) /\ Waiting(x) /\ AtWork(x)
  BY <1>0, <1>1, <1>2 DEF Row, Ranged, Waiting, AtWork, Ahead
<1>5. ~InQueue(x) /\ ~InHand(x)
  BY <1>0, <1>4 DEF OneHolder, OneKindOfHolder
<1>6. \A y \in Cells : Waiting(y)' <=> Waiting(y) /\ y # x
  <2>1. \A y \in Cells : (InHand(y)' <=> InHand(y)) /\ (InQueue(y)' <=> InQueue(y))
    BY <1>1 DEF InHand, InQueue
  <2>2. ASSUME NEW y \in Cells, NEW v \in Threads, Ahead(v)', cur'[v] = y
        PROVE  Ahead(v) /\ cur[v] = y /\ y # x
    BY <1>0, <1>1, <1>2, <2>2 DEF OneHolder, WorksDiffer, Ahead, Owns
  <2>3. ASSUME NEW y \in Cells, NEW v \in Threads, Ahead(v), cur[v] = y, y # x
        PROVE  Ahead(v)' /\ cur'[v] = y
    BY <1>1, <1>2, <2>3
  <2> QED BY <1>5, <2>1, <2>2, <2>3 DEF Waiting, Ahead
<1>7. \A y \in Cells : Waiting(y) /\ y # x /\ base[y].from = c => base[x].num < base[y].num
  BY <1>1, <1>2, <1>3, FirstAndLast
<1>8. \A d \in Conns : InTransit(d)' = IF d = c THEN InTransit(d) \ {base[x].num}
                                       ELSE InTransit(d)
  BY <1>0, <1>1, <1>3, <1>4, <1>6, <1>7, RowTypes, TransitWithout
<1>9. base[x].num \in InTransit(c) /\ \A k \in InTransit(c) : base[x].num <= k
  BY <1>0, <1>3, <1>4, <1>7, RowTypes DEF InTransit
<1>10. base[x].num > served[c] /\ served' = [served EXCEPT ![c] = base[x].num]
  <2>1. base[x].num > served[c]
    BY <1>0, <1>3, <1>4, RowTypes DEF InRange, TypeOK
  <2>2. served' = [served EXCEPT ![c] = base[x].num]
    <3>1. cmd[w].from = c /\ cmd[w].num = base[x].num
      BY <1>2, <1>3
    <3>2. served' = [d \in Conns |-> IF d = cmd[w].from THEN cmd[w].num ELSE served[d]]
      BY <1>1 DEF Handled
    <3>3. served \in [Conns -> 0 .. MaxPackets]
      BY <1>0 DEF TypeOK
    <3> QED BY <3>1, <3>2, <3>3
  <2> QED BY <2>1, <2>2
<1>11. \A d \in Conns : sent'[d] = sent[d]
  BY <1>1
<1> QED BY <1>8, <1>9, <1>10, <1>11 DEF Channel!Handle

\* The other steps of the work threads move a message from place to place.
LEMMA ChannelWork ==
  ASSUME UdpSources = {}, OInd, NEW w \in Threads, Work(w)
  PROVE  (\E c \in Conns : Channel!Handle(c)) \/ UNCHANGED Channel!vars
<1>0. TypeOK /\ OneHolder
  BY DEF OInd, IInd
<1>1. CASE Getq(w)
  <2>1. PICK c \in Cells :
          /\ wpc' = [wpc EXCEPT ![w] = "gate"] /\ wpc[w] = "getq"
          /\ cur' = [cur EXCEPT ![w] = c]
          /\ \A x \in Cells : InQueue(x) <=> InQueue(x)' \/ x = c
    BY <1>0, <1>1, GetqPlaces
  <2>2. UNCHANGED <<base, hand, sent, served>>
    BY <1>1 DEF Getq, poolVars, prodVars
  <2>3. \A x \in Cells : (\E v \in Threads : Ahead(v)' /\ cur'[v] = x)
                           <=> (\E v \in Threads : Ahead(v) /\ cur[v] = x) \/ x = c
    BY <1>0, <2>1 DEF Ahead, TypeOK
  <2>4. \A x \in Cells : Waiting(x)' <=> Waiting(x)
    BY <2>1, <2>2, <2>3 DEF Waiting, Ahead, InHand
  <2> QED BY <2>2, <2>4, ChannelStutter
<1>2. CASE PassGate(w) \/ Begin(w) \/ DeleteMessage(w) \/ Finish(w)
  <2>1. UNCHANGED <<base, hand, queue, sent, served>>
    BY <1>2 DEF PassGate, Begin, DeleteMessage, Finish, poolVars, prodVars
  <2>2. \A v \in Threads : (Ahead(v)' <=> Ahead(v)) /\ (Ahead(v) => cur'[v] = cur[v])
    BY <1>0, <1>2 DEF PassGate, Begin, DeleteMessage, Finish, Ahead, TypeOK
  <2> QED BY <2>1, <2>2, WaitingKept, ChannelStutter
<1> QED BY <1>1, <1>2, ChannelHandle DEF Work

LEMMA ChannelPut ==
  ASSUME UdpSources = {}, OInd, NEW p \in Producers, Put(p)
  PROVE  Channel!Refuse(p) \/ UNCHANGED Channel!vars
<1>0. TypeOK /\ HandBase /\ OneHolder
  BY DEF OInd, IInd
<1>1. ppc[p] # "idle" /\ UNCHANGED <<base, sent, wpc, cur, served>>
  BY DEF Put, CheckQueue, Putq, PutqTimeout, poolVars, workVars
<1>2. CASE queue' = queue /\ Forget(p)
  BY <1>1, <1>2, ChannelRefuse
<1>3. CASE queue' = queue /\ hand' = hand
  BY <1>1, <1>3, WaitingKept, ChannelStutter DEF Ahead
<1>4. CASE Putq(p)
  <2>1. PICK c \in Cells : c = hand[p]
    BY <1>0, <1>1, RowTypes
  <2>2. \A x \in Cells : InQueue(x)' <=> InQueue(x) \/ x = c
    BY <1>0, <1>4, <2>1, PutqPlaces
  <2>3. \A x \in Cells : InHand(x) <=> InHand(x)' \/ x = c
    BY <1>0, <1>4, <2>1, PutqPlaces
  <2>4. \A x \in Cells : Waiting(x)' <=> Waiting(x)
    BY <1>1, <2>2, <2>3 DEF Waiting
  <2> QED BY <1>1, <2>4, ChannelStutter
<1> QED BY <1>2, <1>3, <1>4 DEF Put, CheckQueue, PutqTimeout

LEMMA ChannelStep ==
  ASSUME UdpSources = {}
  PROVE  OInd /\ [Next]_vars => [Channel!Next]_Channel!vars
<1> SUFFICES ASSUME OInd, [Next]_vars PROVE Channel!Next \/ UNCHANGED Channel!vars
  OBVIOUS
<1>0. Producers = Conns
  BY DEF Producers
<1>1. ASSUME NEW p \in Producers, CreateAndSet(p) PROVE Channel!Next
  BY <1>0, <1>1, ChannelReceive DEF Channel!Next
<1>2. ASSUME NEW p \in Producers, Put(p) PROVE Channel!Next \/ UNCHANGED Channel!vars
  BY <1>0, <1>2, ChannelPut DEF Channel!Next
<1>3. ASSUME NEW w \in Threads, Work(w) PROVE Channel!Next \/ UNCHANGED Channel!vars
  BY <1>3, ChannelWork DEF Channel!Next
<1>4. CASE StartUnload \/ Unload \/ UNCHANGED vars
  <2>1. UNCHANGED <<base, hand, queue, sent, served, wpc, cur>>
    BY <1>4 DEF StartUnload, Unload, MarkThread, ScanThread, UnloadModuleCommand,
                ResumeThread, vars, poolVars, prodVars, workVars
  <2> QED BY <2>1, WaitingKept, ChannelStutter DEF Ahead
<1> QED BY <1>1, <1>2, <1>3, <1>4 DEF Next

\* The work threads, however many, the queues, however short, and the console
\* together are one ordered channel per connection (ConnectionOrder): packets
\* are handled in the order they were received, and only the newest is refused.
THEOREM TcpImplementsChannels == ASSUME UdpSources = {} PROVE Spec => ImplementsChannels
<1> QED BY ChannelInit, ChannelStep, RowInductive, PTL
        DEF Spec, ImplementsChannels, Channel!Spec
=============================================================================
