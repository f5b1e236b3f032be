------------------------- MODULE ConnectLife_proofs -------------------------
(***************************************************************************)
(* Proofs about the lives of a connection handler, as long as no handler   *)
(* was recycled under a thread that uses it: the table is current, the     *)
(* plugins are told of every end, and the count counts the operations.     *)
(*                                                                         *)
(* All of it rests on Users, which says who can be on a handler in each of *)
(* its ages: free, nobody, and nothing leads to it; being opened, only the *)
(* acceptor; once it is in the table, senders, which wait for the lock of  *)
(* the handler until it is registered; and a thread that closes it has     *)
(* taken away what led others to it before it gives it back.               *)
(***************************************************************************)
EXTENDS ConnectHandler_proofs, FiniteSetTheorems

\* Thread t uses h; the timer between two handlers uses none.
Busy(t, h) == on[t] = h /\ pc[t] \notin {"idle", "next"}

\* Nothing leads to h: no reactor, no collected list, no table entry.
Unseen(h) == reg[h] = NoThread /\ h \notin late /\ \A c \in Ids : map[c] # h

Free == \A h \in Handlers \ inUse : Unseen(h) /\ \A t \in Threads : ~Busy(t, h)

Current == \A c \in Ids : map[c] # NoHandler => id[map[c]] = c

\* The acceptor, but for the time between table and registration.
Alone ==
  pc[Acceptor] \notin {"idle", "announce"} =>
    Unseen(on[Acceptor]) /\ \A t \in Threads \ {Acceptor} : ~Busy(t, on[Acceptor])

Announcing ==
  pc[Acceptor] = "announce" =>
    /\ reg[on[Acceptor]] = NoThread /\ on[Acceptor] \notin late
    /\ \A t \in Threads \ {Acceptor} : Busy(t, on[Acceptor]) => pc[t] = "send"

\* What open has set up, and keeps under the lock of the handler.
Opening ==
  /\ pc[Acceptor] \in {"open", "add", "announce"} => sock[on[Acceptor]] # 0
  /\ pc[Acceptor] \in {"add", "announce"} =>
       /\ hlock[on[Acceptor]] = Acceptor
       /\ ~silent[on[Acceptor]] /\ on[Acceptor] \notin closing

\* What a thread that closes a handler has cut off already.
CutOf(t) ==
  /\ pc[t] \in {"unmap", "erase"} => cid[t] = id[on[t]]
  /\ pc[t] \in {"unmap", "recycle", "server_recycle"} => reg[on[t]] = NoThread
  /\ pc[t] \in {"recycle", "server_close", "server_shut", "server_recycle"} =>
       \A c \in Ids : map[c] # on[t]

\* The timer of a manager closes connections of this manager.
Owners ==
  /\ \A h \in late : ManagerOf(id[h]) = whose
  /\ pc[Timer] = "erase" => ManagerOf(cid[Timer]) = whose

Users ==
  Free /\ Current /\ Alone /\ Announcing /\ Opening /\ \A t \in Threads : CutOf(t)

LEMMA Facts ==
  ASSUME IType
  PROVE  /\ pc \in [Threads -> Steps] /\ on \in [Threads -> Handlers \cup {NoHandler}]
         /\ cid \in [Threads -> Ids] /\ back \in [Threads -> Steps]
         /\ less \in [Threads -> 1 .. 2]
         /\ id \in [Handlers -> Ids] /\ sock \in [Handlers -> Ids]
         /\ reg \in [Handlers -> Reactors \cup {NoThread}] /\ count \in [Handlers -> Nat]
         /\ hlock \in [Handlers -> Threads \cup {NoThread}]
         /\ map \in [Ids -> Handlers \cup {NoHandler}]
         /\ late \in SUBSET Handlers /\ inUse \in SUBSET Handlers
         /\ closing \in SUBSET Handlers
         /\ told \in [Kinds -> SUBSET Ids]
         /\ silent \in [Handlers -> BOOLEAN] /\ clean \in BOOLEAN
BY DEF IType, TypeOK, PoolTypes, LockTypes, TableTypes, ThreadTypes, HistoryTypes

LEMMA OnFacts ==
  ASSUME IType
  PROVE  \A t \in Threads : pc[t] \notin {"idle", "next"} =>
           on[t] \in Handlers /\ on[t] # NoHandler /\ id[on[t]] \in Ids
BY Facts, HandlersAssumption DEF IType, OnKnown

-----------------------------------------------------------------------------
(* The ways of the threads                                                 *)

CloseSteps == {"dec", "test", "shut", "unmap", "recycle"}

\* The steps of each kind of thread, and where its calls of Close return to.
AcceptorWay ==
  /\ pc[Acceptor] \in {"idle", "open", "add", "announce"} \cup CloseSteps
  /\ pc[Acceptor] \in CloseSteps => back[Acceptor] = "idle"
ReactorWay(r) ==
  /\ pc[r] \in {"idle", "input", "recv", "return_0", "return_1", "failed"} \cup CloseSteps
  /\ pc[r] \in CloseSteps => back[r] \in {"return_0", "return_1", "idle"}
SenderWay(m) ==
  /\ pc[m] \in {"idle", "send", "put", "cost", "return"} \cup CloseSteps
  /\ pc[m] \in CloseSteps => back[m] \in {"cost", "return"}
TimerWay ==
  pc[Timer] \in {"idle", "next", "erase", "server_close", "server_shut", "server_recycle"}

Ways == /\ AcceptorWay /\ TimerWay
        /\ \A r \in Reactors : ReactorWay(r)
        /\ \A m \in Managers : SenderWay(m)

\* All other threads stay where they are.
Others(t) == \A u \in Threads \ {t} : pc'[u] = pc[u] /\ back'[u] = back[u]

LEMMA OthersWays ==
  ASSUME Ways, NEW t \in Threads, Others(t)
  PROVE  /\ t # Acceptor => AcceptorWay'
         /\ t # Timer => TimerWay'
         /\ \A r \in Reactors : r # t => ReactorWay(r)'
         /\ \A m \in Managers : m # t => SenderWay(m)'
BY ThreadKinds DEF Ways, Others, AcceptorWay, TimerWay, ReactorWay, SenderWay

LEMMA WaysInit == Init => Ways
BY ThreadKinds DEF Init, Ways, AcceptorWay, TimerWay, ReactorWay, SenderWay, CloseSteps

LEMMA WaysAcceptor == ASSUME IType, Ways, AcceptorStep PROVE Ways'
<1>1. Others(Acceptor)
  BY Facts, ThreadKinds
     DEF AcceptorStep, Accept, Open, AddConnect, Announce, Goto, CallClose, Others
<1>2. AcceptorWay'
  BY Facts, ThreadKinds
     DEF AcceptorStep, Accept, Open, AddConnect, Announce, Goto, CallClose, AcceptorWay,
         CloseSteps, Ways
<1> QED BY <1>1, <1>2, OthersWays, ThreadKinds DEF Ways

LEMMA WaysReactor ==
  ASSUME IType, Ways, NEW r \in Reactors, ReactorStep(r)
  PROVE  Ways'
<1>1. Others(r)
  BY Facts, ThreadKinds
     DEF ReactorStep, Dispatch, HandleInput, RecvData, ReturnInput, DropHandler, Goto,
         CallClose, Others
<1>2. ReactorWay(r)'
  BY Facts, ThreadKinds
     DEF ReactorStep, Dispatch, HandleInput, RecvData, ReturnInput, DropHandler, Goto,
         CallClose, ReactorWay, CloseSteps, Ways
<1> QED BY <1>1, <1>2, OthersWays, ThreadKinds DEF Ways

LEMMA WaysSender ==
  ASSUME IType, Ways, NEW m \in Managers, SenderStep(m)
  PROVE  Ways'
<1>1. Others(m)
  BY Facts, ThreadKinds
     DEF SenderStep, FindConnection, SendMessage, PutSendPacket, SetSendQueueTimeCost,
         ReturnSend, Goto, CallClose, Others
<1>2. SenderWay(m)'
  BY Facts, ThreadKinds
     DEF SenderStep, FindConnection, SendMessage, PutSendPacket, SetSendQueueTimeCost,
         ReturnSend, Goto, CallClose, SenderWay, CloseSteps, Ways
<1> QED BY <1>1, <1>2, OthersWays, ThreadKinds DEF Ways

LEMMA WaysTimer == ASSUME IType, Ways, TimerStep PROVE Ways'
<1>1. Others(Timer) /\ TimerWay'
  BY Facts, ThreadKinds
     DEF TimerStep, HandleTimeout, NextLate, EraseLate, ServerClose, ServerShut,
         ServerRecycle, Goto, Others, TimerWay
<1> QED BY <1>1, OthersWays, ThreadKinds DEF Ways

LEMMA WaysClose ==
  ASSUME IType, Ways, NEW t \in Threads, Close(t)
  PROVE  Ways'
<1>1. /\ Others(t) /\ pc[t] \in CloseSteps /\ back'[t] = back[t]
      /\ pc'[t] \in CloseSteps \cup {back[t]}
  BY Facts
     DEF Close, CloseCount, CloseTest, CloseShut, CloseUnmap, CloseRecycle, Goto, Others,
         CloseSteps
<1>2. t = Acceptor => AcceptorWay'
  BY <1>1 DEF AcceptorWay, Ways
<1>3. t # Timer
  BY <1>1 DEF Ways, TimerWay, CloseSteps
<1>4. t \in Reactors => ReactorWay(t)'
  BY <1>1 DEF ReactorWay, Ways
<1>5. t \in Managers => SenderWay(t)'
  BY <1>1 DEF SenderWay, Ways
<1> QED BY <1>1, <1>2, <1>3, <1>4, <1>5, OthersWays, ThreadKinds DEF Ways

LEMMA WaysNext == IType /\ Ways /\ [Next]_vars => Ways'
<1> SUFFICES ASSUME IType, Ways, [Next]_vars PROVE Ways'
  OBVIOUS
<1>1. ASSUME \/ \E c \in Ids : PostMessage(c) \/ CloseConnect(c)
             \/ \E h \in Handlers : GoSilent(h)
             \/ UNCHANGED vars
      PROVE  Ways'
  <2>1. pc' = pc /\ back' = back
    BY <1>1 DEF PostMessage, CloseConnect, GoSilent, vars, threadVars
  <2> QED BY <2>1 DEF Ways, AcceptorWay, TimerWay, ReactorWay, SenderWay
<1> QED BY <1>1, WaysAcceptor, WaysReactor, WaysSender, WaysTimer, WaysClose DEF Next

-----------------------------------------------------------------------------
(* Who can be on a handler                                                 *)

\* Thread t goes on with the handler it is on, and may cut off what leads to it;
\* the handler of the acceptor it leaves alone, for it waits for its lock.
GoesOn(t) ==
  /\ UNCHANGED <<inUse, id, on, clean>> /\ late' \subseteq late
  /\ \A h \in Handlers : reg'[h] \in {reg[h], NoThread}
  /\ \A c \in Ids : map'[c] \in {map[c], NoHandler}
  /\ \A u \in Threads \ {t} : pc'[u] = pc[u] /\ cid'[u] = cid[u]
  /\ pc[t] \notin {"idle", "next"}
  /\ t = Acceptor => {pc[t], pc'[t]} \cap {"open", "add", "announce"} = {}
  /\ pc[t] = "send" => CanLockHandler(on[t], t)
  /\ \A h \in Handlers \ {on[t]} :
       /\ hlock'[h] = hlock[h] /\ sock'[h] = sock[h] /\ silent'[h] = silent[h]
       /\ h \in closing' => h \in closing
  /\ CutOf(t)'

LEMMA NotOnAcceptors ==
  ASSUME IType, Users, NEW t \in Threads, GoesOn(t),
         pc[Acceptor] \in {"open", "add", "announce"}
  PROVE  on[t] # on[Acceptor] /\ t # Acceptor
<1>1. t # Acceptor
  BY DEF GoesOn
<1>2. Busy(t, on[t])
  BY DEF GoesOn, Busy
<1>3. CASE pc[Acceptor] \in {"open", "add"}
  BY <1>1, <1>2, <1>3 DEF Users, Alone, Busy
<1>4. CASE pc[Acceptor] = "announce"
  <2>1. SUFFICES ASSUME on[t] = on[Acceptor] PROVE FALSE
    BY <1>1
  <2>2. pc[t] = "send"
    BY <1>1, <1>2, <1>4, <2>1 DEF Users, Announcing, Busy
  <2>3. hlock[on[t]] = Acceptor
    BY <1>4, <2>1 DEF Users, Opening
  <2> QED BY <1>1, <2>2, <2>3, ThreadKinds DEF GoesOn, CanLockHandler
<1> QED BY <1>3, <1>4

LEMMA GoesOnKeeps ==
  ASSUME IType, Ways, Users, NEW t \in Threads, GoesOn(t)
  PROVE  Users'
<1>0. /\ \A h \in Handlers : Unseen(h) => Unseen(h)'
      /\ \A u \in Threads, h \in Handlers : Busy(u, h)' => Busy(u, h)
  BY Facts, HandlersAssumption, ThreadKinds DEF GoesOn, Unseen, Busy
<1>1. Free'
  BY <1>0, Facts DEF GoesOn, Users, Free
<1>2. Current'
  BY DEF GoesOn, Users, Current
<1>3. pc'[Acceptor] \in {"open", "add", "announce"} => pc[Acceptor] = pc'[Acceptor] /\ t # Acceptor
  BY ThreadKinds DEF GoesOn
<1>4. Alone'
  <2> SUFFICES ASSUME pc'[Acceptor] \notin {"idle", "announce"}
               PROVE  /\ Unseen(on[Acceptor])'
                      /\ \A u \in Threads \ {Acceptor} : ~Busy(u, on[Acceptor])'
    BY DEF Alone, GoesOn, Busy, Unseen
  <2>1. pc[Acceptor] \notin {"idle", "announce"}
    BY ThreadKinds DEF GoesOn
  <2>2. Unseen(on[Acceptor]) /\ \A u \in Threads \ {Acceptor} : ~Busy(u, on[Acceptor])
    BY <2>1 DEF Users, Alone
  <2>3. on[Acceptor] \in Handlers
    BY <2>1, OnFacts, ThreadKinds DEF Ways, AcceptorWay, CloseSteps
  <2>4. on'[Acceptor] = on[Acceptor]
    BY DEF GoesOn
  <2> QED BY <1>0, <2>2, <2>3, <2>4 DEF Unseen, Busy
<1>5. Announcing'
  <2> SUFFICES ASSUME pc'[Acceptor] = "announce"
               PROVE  /\ reg'[on[Acceptor]] = NoThread /\ on[Acceptor] \notin late'
                      /\ \A u \in Threads \ {Acceptor} : Busy(u, on[Acceptor])' => pc'[u] = "send"
    BY DEF Announcing, GoesOn, Busy
  <2>1. pc[Acceptor] = "announce" /\ t # Acceptor /\ on[t] # on[Acceptor]
    BY <1>3, NotOnAcceptors
  <2>2. on[Acceptor] \in Handlers
    BY <2>1, OnFacts, ThreadKinds
  <2> QED BY <2>1, <2>2 DEF GoesOn, Users, Announcing, Busy
<1>6. Opening'
  <2> SUFFICES ASSUME pc'[Acceptor] \in {"open", "add", "announce"}
               PROVE  /\ sock'[on[Acceptor]] # 0
                      /\ pc'[Acceptor] \in {"add", "announce"} =>
                           /\ hlock'[on[Acceptor]] = Acceptor
                           /\ ~silent'[on[Acceptor]] /\ on[Acceptor] \notin closing'
    BY DEF Opening, GoesOn
  <2>1. pc[Acceptor] = pc'[Acceptor] /\ on[t] # on[Acceptor]
    BY <1>3, NotOnAcceptors
  <2>2. on[Acceptor] \in Handlers
    BY <2>1, OnFacts, ThreadKinds
  <2> QED BY <2>1, <2>2 DEF GoesOn, Users, Opening
<1>7. ASSUME NEW u \in Threads PROVE CutOf(u)'
  <2>1. CASE u = t
    BY <2>1 DEF GoesOn
  <2>2. CASE u # t
    <3>1. CutOf(u) /\ pc'[u] = pc[u] /\ cid'[u] = cid[u] /\ on' = on /\ id' = id
      BY <2>2 DEF Users, GoesOn
    <3>2. pc[u] \notin {"idle", "next"} => on[u] \in Handlers /\ on[u] # NoHandler
      BY OnFacts
    <3> QED BY <3>1, <3>2 DEF CutOf, GoesOn
  <2> QED BY <2>1, <2>2
<1> QED BY <1>1, <1>2, <1>4, <1>5, <1>6, <1>7 DEF Users

LEMMA GoesOnReactor ==
  ASSUME IType, NEW r \in Reactors,
         HandleInput(r) \/ RecvData(r) \/ ReturnInput(r) \/ DropHandler(r)
  PROVE  GoesOn(r)
<1>1. r \in Threads /\ r # Acceptor
  BY ThreadKinds
<1>2. CASE HandleInput(r)
  BY <1>1, <1>2, Facts DEF HandleInput, Goto, GoesOn, CutOf, tableVars, boundVars
<1>3. CASE RecvData(r)
  BY <1>1, <1>3, Facts DEF RecvData, CallClose, GoesOn, CutOf, tableVars, boundVars
<1>4. CASE ReturnInput(r)
  BY <1>1, <1>4, Facts
     DEF ReturnInput, Goto, GoesOn, CutOf, tableVars, boundVars, poolVars, histVars
<1>5. CASE DropHandler(r)
  BY <1>1, <1>5, Facts
     DEF DropHandler, Goto, CallClose, GoesOn, CutOf, tableVars, boundVars, histVars
<1> QED BY <1>2, <1>3, <1>4, <1>5

LEMMA GoesOnSender ==
  ASSUME IType, NEW m \in Managers,
         SendMessage(m) \/ PutSendPacket(m) \/ SetSendQueueTimeCost(m) \/ ReturnSend(m)
  PROVE  GoesOn(m)
<1>1. m \in Threads /\ m # Acceptor
  BY ThreadKinds
<1>2. CASE SendMessage(m)
  BY <1>1, <1>2, Facts DEF SendMessage, Goto, GoesOn, CutOf, tableVars, boundVars, histVars
<1>3. CASE PutSendPacket(m)
  BY <1>1, <1>3, Facts
     DEF PutSendPacket, CallClose, GoesOn, CutOf, tableVars, boundVars, poolVars
<1>4. CASE SetSendQueueTimeCost(m)
  BY <1>1, <1>4, Facts
     DEF SetSendQueueTimeCost, CallClose, GoesOn, CutOf, tableVars, boundVars
<1>5. CASE ReturnSend(m)
  BY <1>1, <1>5, Facts
     DEF ReturnSend, Goto, GoesOn, CutOf, tableVars, boundVars, poolVars, histVars
<1> QED BY <1>2, <1>3, <1>4, <1>5

\* An id taken out of the table was the only one that led to its handler.
LEMMA NoneLeadsTo ==
  ASSUME IType, Users, NEW h \in Handlers
  PROVE  \A c \in Ids : [map EXCEPT ![id[h]] = NoHandler][c] # h
BY Facts, HandlersAssumption DEF Users, Current

LEMMA GoesOnTimer ==
  ASSUME IType, Users, Owners, EraseLate \/ ServerClose \/ ServerShut
  PROVE  GoesOn(Timer)
<1>1. Timer \in Threads /\ Timer # Acceptor /\ CutOf(Timer)
  BY ThreadKinds DEF Users
<1>2. CASE EraseLate
  <2>1. on[Timer] \in Handlers /\ cid[Timer] = id[on[Timer]]
    BY <1>1, <1>2, OnFacts DEF EraseLate, CutOf
  <2>2. map' = [map EXCEPT ![cid[Timer]] = NoHandler]
    BY <1>2 DEF EraseLate, Owners
  <2>3. \A c \in Ids : map'[c] # on[Timer]
    BY <2>1, <2>2, NoneLeadsTo
  <2> QED BY <1>1, <1>2, <2>1, <2>2, <2>3, Facts
          DEF EraseLate, Goto, GoesOn, CutOf, boundVars, poolVars, histVars
<1>3. CASE ServerClose
  BY <1>1, <1>3, Facts DEF ServerClose, Goto, GoesOn, CutOf, tableVars, boundVars
<1>4. CASE ServerShut
  BY <1>1, <1>4, OnFacts, Facts
     DEF ServerShut, Goto, GoesOn, CutOf, tableVars, boundVars, histVars
<1> QED BY <1>2, <1>3, <1>4

LEMMA GoesOnClose ==
  ASSUME IType, Users, NEW t \in Threads,
         CloseCount(t) \/ CloseTest(t) \/ CloseShut(t) \/ CloseUnmap(t)
  PROVE  GoesOn(t)
<1>1. CutOf(t) /\ back[t] \in {"idle", "return_0", "return_1", "cost", "return"}
  BY DEF Users, IType, BackKind
<1>2. CASE CloseCount(t)
  BY <1>2, Facts DEF CloseCount, Goto, GoesOn, CutOf, tableVars, boundVars
<1>3. CASE CloseTest(t)
  BY <1>1, <1>3, Facts DEF CloseTest, Goto, GoesOn, CutOf, tableVars, boundVars, poolVars
<1>4. CASE CloseShut(t)
  BY <1>4, OnFacts, Facts DEF CloseShut, Goto, GoesOn, CutOf, tableVars, boundVars, histVars
<1>5. CASE CloseUnmap(t)
  <2>1. on[t] \in Handlers /\ cid[t] = id[on[t]]
    BY <1>1, <1>5, OnFacts DEF CloseUnmap, CutOf
  <2>2. \A c \in Ids : map'[c] # on[t]
    BY <1>5, <2>1, NoneLeadsTo DEF CloseUnmap
  <2> QED BY <1>1, <1>5, <2>1, <2>2, Facts
          DEF CloseUnmap, Goto, GoesOn, CutOf, boundVars, poolVars, histVars
<1> QED BY <1>2, <1>3, <1>4, <1>5

LEMMA UsersInit == Init => Users
<1> SUFFICES ASSUME Init PROVE Users
  OBVIOUS
<1>1. Free /\ Current
  BY HandlersAssumption, BoundsAssumption DEF Init, Free, Unseen, Busy, Current
<1>2. Alone /\ Announcing /\ Opening
  BY ThreadKinds DEF Init, Alone, Announcing, Opening
<1>3. \A t \in Threads : CutOf(t)
  BY DEF Init, CutOf
<1> QED BY <1>1, <1>2, <1>3 DEF Users

\* A handler that somebody is on, or that something leads to, is in use.
LEMMA UsedIsInUse ==
  ASSUME IType, Users, NEW h \in Handlers
  PROVE  /\ (\E t \in Threads : Busy(t, h)) => h \in inUse
         /\ reg[h] # NoThread \/ h \in late \/ (\E c \in Ids : map[c] = h) => h \in inUse
BY DEF Users, Free, Unseen

LEMMA UsersAccept == ASSUME IType, Users, Accept PROVE Users'
<1>1. PICK h \in Handlers \ inUse : /\ inUse' = inUse \cup {h}
                                   /\ sock'  = [sock EXCEPT ![h] = accepted + 1]
                                   /\ on'    = [on EXCEPT ![Acceptor] = h]
  BY DEF Accept
<1>2. /\ on'[Acceptor] = h /\ pc[Acceptor] = "idle" /\ pc'[Acceptor] = "open"
      /\ \A t \in Threads \ {Acceptor} : on'[t] = on[t] /\ pc'[t] = pc[t] /\ cid'[t] = cid[t]
      /\ UNCHANGED <<id, reg, map, late>>
  BY <1>1, Facts, ThreadKinds DEF Accept, Goto, tableVars
<1>3. Unseen(h) /\ \A t \in Threads : ~Busy(t, h)
  BY DEF Users, Free
<1>4. Free'
  <2> SUFFICES ASSUME NEW g \in Handlers, g \notin inUse'
               PROVE  Unseen(g)' /\ \A t \in Threads : ~Busy(t, g)'
    BY DEF Free
  <2>1. g \notin inUse /\ g # h
    BY <1>1
  <2>2. Unseen(g) /\ \A t \in Threads : ~Busy(t, g)
    BY <2>1 DEF Users, Free
  <2> QED BY <1>2, <2>1, <2>2 DEF Unseen, Busy
<1>5. Alone'
  BY <1>2, <1>3 DEF Alone, Unseen, Busy
<1>6. Current' /\ Announcing'
  BY <1>2 DEF Users, Current, Announcing
<1>7. Opening'
  BY <1>1, <1>2, Facts, Numbers DEF Opening, IType
<1>8. ASSUME NEW t \in Threads PROVE CutOf(t)'
  BY <1>2 DEF Users, CutOf
<1> QED BY <1>4, <1>5, <1>6, <1>7, <1>8 DEF Users

LEMMA UsersOpen == ASSUME IType, Users, Open PROVE Users'
<1>1. /\ UNCHANGED <<inUse, id, sock, reg, map, on, cid, late>>
      /\ pc[Acceptor] = "open" /\ pc'[Acceptor] \in {"add", "dec"}
      /\ \A t \in Threads \ {Acceptor} : pc'[t] = pc[t]
      /\ on[Acceptor] \in Handlers
  BY Facts, OnFacts, ThreadKinds DEF Open, Goto, CallClose, tableVars
<1>2. Free' /\ Current' /\ Announcing'
  <2>1. \A t \in Threads, h \in Handlers : Busy(t, h)' => Busy(t, h)
    BY <1>1 DEF Busy
  <2> QED BY <1>1, <2>1 DEF Users, Free, Current, Announcing, Unseen
<1>3. Alone'
  BY <1>1 DEF Users, Alone, Unseen, Busy
<1>4. Opening'
  <2>1. sock[on[Acceptor]] # 0
    BY <1>1 DEF Users, Opening
  <2>2. CASE pc'[Acceptor] = "add"
    <3>1. silent' = [silent EXCEPT ![on[Acceptor]] = FALSE]
      BY <2>2, Facts, ThreadKinds DEF Open, CallClose
    <3>2. hlock' = [hlock EXCEPT ![on[Acceptor]] = Acceptor]
      BY <2>2, Facts, ThreadKinds DEF Open, CallClose
    <3>3. closing' = closing \ {on[Acceptor]}
      BY DEF Open
    <3> QED BY <1>1, <2>1, <3>1, <3>2, <3>3, Facts DEF Opening
  <2>3. CASE pc'[Acceptor] = "dec"
    BY <2>3 DEF Opening
  <2> QED BY <1>1, <2>2, <2>3
<1>5. ASSUME NEW t \in Threads PROVE CutOf(t)'
  BY <1>1 DEF Users, CutOf
<1> QED BY <1>2, <1>3, <1>4, <1>5 DEF Users

LEMMA UsersAddConnect == ASSUME IType, Users, AddConnect PROVE Users'
<1> DEFINE h == on[Acceptor]
           c == lastId + 1
<1>1. /\ UNCHANGED <<inUse, sock, silent, hlock, closing, reg, on, cid, late>>
      /\ pc[Acceptor] = "add" /\ pc'[Acceptor] = "announce"
      /\ \A t \in Threads \ {Acceptor} : pc'[t] = pc[t]
      /\ h \in Handlers /\ h # NoHandler
  BY Facts, OnFacts, ThreadKinds DEF AddConnect, Goto, histVars
<1>2. /\ id' = [id EXCEPT ![h] = c] /\ map' = [map EXCEPT ![c] = h]
      /\ \A d \in Ids : map'[d] = IF d = c THEN h ELSE map[d]
      /\ \A g \in Handlers : id'[g] = IF g = h THEN c ELSE id[g]
  BY Facts DEF AddConnect
<1>3. Unseen(h) /\ \A t \in Threads \ {Acceptor} : ~Busy(t, h)
  BY <1>1 DEF Users, Alone
<1>4. h \in inUse
  BY <1>1, UsedIsInUse, ThreadKinds DEF Busy
<1> HIDE DEF h, c
<1>5. Free'
  <2> SUFFICES ASSUME NEW g \in Handlers, g \notin inUse'
               PROVE  Unseen(g)' /\ \A t \in Threads : ~Busy(t, g)'
    BY DEF Free
  <2>1. Unseen(g) /\ g # h /\ \A t \in Threads : ~Busy(t, g)
    BY <1>1, <1>4 DEF Users, Free
  <2> QED BY <1>1, <1>2, <2>1 DEF Unseen, Busy
<1>6. Current'
  BY <1>1, <1>2, <1>3, Facts DEF Users, Current, Unseen
<1>7. Alone' /\ Announcing'
  BY <1>1, <1>3 DEF Alone, Announcing, Unseen, Busy, h
<1>8. Opening'
  BY <1>1 DEF Users, Opening
<1>9. ASSUME NEW t \in Threads PROVE CutOf(t)'
  <2>1. CASE t = Acceptor
    BY <1>1, <2>1 DEF CutOf
  <2>2. CASE t # Acceptor
    <3>1. CutOf(t) /\ (pc[t] \notin {"idle", "next"} => on[t] \in Handlers /\ on[t] # h)
      BY <1>3, <2>2, OnFacts DEF Users, Busy
    <3> QED BY <1>1, <1>2, <2>2, <3>1 DEF CutOf
  <2> QED BY <2>1, <2>2
<1> QED BY <1>5, <1>6, <1>7, <1>8, <1>9 DEF Users

LEMMA UsersAnnounce == ASSUME IType, Users, Announce PROVE Users'
<1> DEFINE h == on[Acceptor]
<1>1. /\ UNCHANGED <<inUse, id, map, on, cid, late>>
      /\ pc[Acceptor] = "announce" /\ pc'[Acceptor] = "idle"
      /\ \A t \in Threads \ {Acceptor} : pc'[t] = pc[t]
      /\ h \in Handlers /\ \A g \in Handlers : g # h => reg'[g] = reg[g]
  BY Facts, OnFacts, ThreadKinds
     DEF Announce, Goto, CallClose, tableVars, Users, Opening
<1>2. \A t \in Threads \ {Acceptor} : Busy(t, h) => pc[t] = "send"
  BY <1>1 DEF Users, Announcing
<1>3. h \in inUse
  BY <1>1, UsedIsInUse, ThreadKinds DEF Busy
<1> HIDE DEF h
<1>4. Free'
  <2> SUFFICES ASSUME NEW g \in Handlers, g \notin inUse'
               PROVE  Unseen(g)' /\ \A t \in Threads : ~Busy(t, g)'
    BY DEF Free
  <2>1. Unseen(g) /\ g # h /\ \A t \in Threads : ~Busy(t, g)
    BY <1>1, <1>3 DEF Users, Free
  <2> QED BY <1>1, <2>1 DEF Unseen, Busy
<1>5. Current' /\ Alone' /\ Announcing' /\ Opening'
  BY <1>1 DEF Users, Current, Alone, Announcing, Opening
<1>6. ASSUME NEW t \in Threads PROVE CutOf(t)'
  <2>1. CASE t = Acceptor
    BY <1>1, <2>1 DEF CutOf
  <2>2. CASE t # Acceptor
    <3>1. /\ CutOf(t)
          /\ pc[t] \notin {"idle", "next"} => on[t] \in Handlers
          /\ pc[t] \notin {"idle", "next", "send"} => on[t] # h
      BY <1>2, <2>2, OnFacts DEF Users, Busy
    <3> QED BY <1>1, <2>2, <3>1 DEF CutOf
  <2> QED BY <2>1, <2>2
<1> QED BY <1>4, <1>5, <1>6 DEF Users

\* Thread t comes to a handler that the acceptor has announced, or that it has
\* at least put into the table.
ComesTo(t, h) ==
  /\ UNCHANGED <<inUse, id, sock, reg, silent, closing, hlock, map>>
  /\ on' = [on EXCEPT ![t] = h] /\ late' \subseteq late
  /\ \A u \in Threads \ {t} : pc'[u] = pc[u] /\ cid'[u] = cid[u]
  /\ t # Acceptor /\ h \in inUse
  /\ pc[Acceptor] # "idle" /\ h = on[Acceptor] =>
       pc[Acceptor] = "announce" /\ pc'[t] = "send"
  /\ CutOf(t)'

LEMMA ComesToKeeps ==
  ASSUME IType, Users, NEW t \in Threads, NEW h \in Handlers, ComesTo(t, h)
  PROVE  Users'
<1>1. /\ on'[t] = h /\ on'[Acceptor] = on[Acceptor] /\ pc'[Acceptor] = pc[Acceptor]
      /\ \A u \in Threads \ {t} : on'[u] = on[u] /\ pc'[u] = pc[u] /\ cid'[u] = cid[u]
  BY Facts, ThreadKinds DEF ComesTo
<1>2. Free'
  <2> SUFFICES ASSUME NEW g \in Handlers, g \notin inUse'
               PROVE  Unseen(g)' /\ \A u \in Threads : ~Busy(u, g)'
    BY DEF Free
  <2>1. Unseen(g) /\ g # h /\ \A u \in Threads : ~Busy(u, g)
    BY DEF Users, Free, ComesTo
  <2> QED BY <1>1, <2>1 DEF Unseen, Busy, ComesTo
<1>3. Current' /\ Opening'
  BY <1>1 DEF Users, Current, Opening, ComesTo
<1>4. Alone'
  BY <1>1 DEF Users, Alone, Unseen, Busy, ComesTo
<1>5. Announcing'
  BY <1>1 DEF Users, Announcing, Busy, ComesTo
<1>6. ASSUME NEW u \in Threads PROVE CutOf(u)'
  <2>1. CASE u = t
    BY <2>1 DEF ComesTo
  <2>2. CASE u # t
    <3>1. CutOf(u) /\ on'[u] = on[u] /\ pc'[u] = pc[u] /\ cid'[u] = cid[u]
      BY <1>1, <2>2 DEF Users
    <3>2. id' = id /\ reg' = reg /\ map' = map
      BY DEF ComesTo
    <3> QED BY <3>1, <3>2 DEF CutOf
  <2> QED BY <2>1, <2>2
<1> QED BY <1>2, <1>3, <1>4, <1>5, <1>6 DEF Users

LEMMA UsersDispatch ==
  ASSUME IType, Ways, Users, NEW r \in Reactors, Dispatch(r)
  PROVE  Users'
<1>1. PICK h \in Handlers : reg[h] = r /\ on' = [on EXCEPT ![r] = h]
  BY DEF Dispatch
<1>2. r \in Threads /\ r # Acceptor /\ reg[h] # NoThread
  BY <1>1, ThreadKinds
<1>3. h \in inUse
  BY <1>2, UsedIsInUse
<1>4. pc[Acceptor] # "idle" => h # on[Acceptor]
  BY <1>2 DEF Users, Alone, Announcing, Unseen
<1>5. ComesTo(r, h)
  BY <1>1, <1>2, <1>3, <1>4, Facts
     DEF ComesTo, Dispatch, Goto, CutOf, poolVars, tableVars, histVars
<1> QED BY <1>2, <1>5, ComesToKeeps

LEMMA UsersFindConnection ==
  ASSUME IType, Ways, Users, NEW m \in Managers, FindConnection(m)
  PROVE  Users'
<1> DEFINE c == Head(queue[m])
<1>1. m \in Threads /\ m # Acceptor /\ c \in Ids
  BY ThreadKinds DEF FindConnection, IType, TypeOK, TableTypes
<1>2. CASE map[c] # NoHandler
  <2>1. map[c] \in Handlers
    BY <1>1, <1>2, Facts
  <2>2. map[c] \in inUse
    BY <1>1, <2>1, UsedIsInUse
  <2>3. pc[Acceptor] # "idle" /\ map[c] = on[Acceptor] => pc[Acceptor] = "announce"
    BY <1>1 DEF Users, Alone, Unseen
  <2>4. /\ on' = [on EXCEPT ![m] = map[c]] /\ cid' = [cid EXCEPT ![m] = c]
        /\ pc' = [pc EXCEPT ![m] = "send"]
    BY <1>2 DEF FindConnection, Goto
  <2>5. ComesTo(m, map[c])
    BY <1>1, <2>2, <2>3, <2>4, Facts DEF ComesTo, FindConnection, CutOf, poolVars, histVars
  <2> QED BY <1>1, <2>1, <2>5, ComesToKeeps
<1>3. CASE map[c] = NoHandler
  <2>1. UNCHANGED <<inUse, id, sock, reg, silent, closing, hlock, map, on, cid, pc, late>>
    BY <1>3 DEF FindConnection, poolVars, histVars
  <2> QED BY <2>1 DEF Users, Free, Unseen, Busy, Current, Alone, Announcing, Opening, CutOf
<1> QED BY <1>2, <1>3

LEMMA UsersNextLate == ASSUME IType, Ways, Users, NextLate PROVE Users'
<1>1. ASSUME NEW h \in late,
             late' = late \ {h}, on' = [on EXCEPT ![Timer] = h],
             cid' = [cid EXCEPT ![Timer] = id[h]], Goto(Timer, "erase")
      PROVE  Users'
  <2>1. h \in Handlers
    BY Facts
  <2>2. h \in inUse
    BY <2>1, UsedIsInUse
  <2>3. pc[Acceptor] # "idle" => h # on[Acceptor]
    BY DEF Users, Alone, Announcing, Unseen
  <2>4. CutOf(Timer)'
    BY <1>1, Facts, ThreadKinds
       DEF NextLate, Goto, CutOf, poolVars, tableVars
  <2>5. ComesTo(Timer, h)
    BY <1>1, <2>2, <2>3, <2>4, ThreadKinds, Facts
       DEF ComesTo, NextLate, Goto, poolVars, tableVars, histVars
  <2> QED BY <2>1, <2>5, ThreadKinds, ComesToKeeps
<1>2. ASSUME late' = late, on' = on, cid' = cid, Goto(Timer, "idle") PROVE Users'
  <2>1. UNCHANGED <<inUse, id, sock, reg, silent, closing, hlock, map, on, cid, late>>
    BY <1>2 DEF NextLate, poolVars, tableVars, histVars
  <2>2. /\ pc'[Timer] = "idle" /\ pc'[Acceptor] = pc[Acceptor]
        /\ \A t \in Threads \ {Timer} : pc'[t] = pc[t]
    BY <1>2, Facts, ThreadKinds DEF Goto
  <2>3. Free' /\ Current' /\ Alone' /\ Announcing' /\ Opening'
    BY <2>1, <2>2 DEF Users, Free, Unseen, Busy, Current, Alone, Announcing, Opening
  <2>4. ASSUME NEW t \in Threads PROVE CutOf(t)'
    BY <2>1, <2>2 DEF Users, CutOf
  <2> QED BY <2>3, <2>4 DEF Users
<1> QED BY <1>1, <1>2 DEF NextLate

LEMMA UsersHandleTimeout ==
  ASSUME IType, Ways, Users, NEW m \in Managers, HandleTimeout(m)
  PROVE  Users'
<1>1. /\ UNCHANGED <<inUse, id, sock, reg, silent, closing, hlock, map, on, cid>>
      /\ pc[Timer] = "idle" /\ pc'[Timer] = "next" /\ pc'[Acceptor] = pc[Acceptor]
      /\ \A t \in Threads \ {Timer} : pc'[t] = pc[t]
  BY Facts, ThreadKinds DEF HandleTimeout, Goto, poolVars, tableVars, histVars
<1>2. \A h \in late' : silent[h] /\ \E c \in Ids : map[c] = h
  BY DEF HandleTimeout
<1>3. Free'
  BY <1>1, <1>2 DEF Users, Free, Unseen, Busy
<1>4. Alone' /\ Announcing'
  BY <1>1, <1>2 DEF Users, Alone, Announcing, Opening, Unseen, Busy
<1>5. Current' /\ Opening'
  BY <1>1 DEF Users, Current, Opening
<1>6. ASSUME NEW t \in Threads PROVE CutOf(t)'
  BY <1>1 DEF Users, CutOf
<1> QED BY <1>3, <1>4, <1>5, <1>6 DEF Users

\* Thread t, through with its handler, gives it back, and nobody else uses it.
GivesBack(t) ==
  /\ UNCHANGED <<id, sock, reg, silent, closing, hlock, map, on, cid, late>>
  /\ on[t] \in Handlers /\ inUse' = inUse \ {on[t]} /\ Unseen(on[t])
  /\ pc[t] \notin {"idle", "next", "open", "add", "announce"}
  /\ pc'[t] \in {"idle", "next"} /\ (t = Acceptor => pc'[t] = "idle")
  /\ \A u \in Threads \ {t} : pc'[u] = pc[u] /\ ~Uses(u, on[t])

LEMMA GivesBackKeeps ==
  ASSUME IType, Users, NEW t \in Threads, GivesBack(t)
  PROVE  Users'
<1>1. Free'
  <2> SUFFICES ASSUME NEW g \in Handlers, g \notin inUse'
               PROVE  Unseen(g)' /\ \A u \in Threads : ~Busy(u, g)'
    BY DEF Free
  <2>1. CASE g = on[t]
    BY <2>1 DEF GivesBack, Unseen, Busy, Uses
  <2>2. CASE g # on[t]
    <3>1. Unseen(g) /\ \A u \in Threads : ~Busy(u, g)
      BY <2>2 DEF Users, Free, GivesBack
    <3> QED BY <3>1 DEF GivesBack, Unseen, Busy
  <2> QED BY <2>1, <2>2
<1>2. pc'[Acceptor] = pc[Acceptor] \/ pc'[Acceptor] = "idle"
  BY ThreadKinds DEF GivesBack
<1>3. \A u \in Threads, h \in Handlers : Busy(u, h)' => Busy(u, h) /\ pc'[u] = pc[u]
  BY DEF GivesBack, Busy
<1>4. Alone'
  <2> SUFFICES ASSUME pc'[Acceptor] \notin {"idle", "announce"}
               PROVE  /\ Unseen(on[Acceptor])'
                      /\ \A u \in Threads \ {Acceptor} : ~Busy(u, on[Acceptor])'
    BY DEF Alone, GivesBack, Busy, Unseen
  <2> QED BY <1>2 DEF Users, Alone, Unseen, Busy, GivesBack
<1>5. Current' /\ Announcing' /\ Opening'
  BY <1>2 DEF Users, Current, Announcing, Opening, Busy, GivesBack
<1>6. ASSUME NEW u \in Threads PROVE CutOf(u)'
  <2>1. CASE u = t
    BY <2>1 DEF GivesBack, CutOf
  <2>2. CASE u # t
    <3>1. CutOf(u) /\ pc'[u] = pc[u]
      BY <2>2 DEF Users, GivesBack
    <3> QED BY <3>1 DEF CutOf, GivesBack
  <2> QED BY <2>1, <2>2
<1> QED BY <1>1, <1>4, <1>5, <1>6 DEF Users

LEMMA UsersRecycle ==
  ASSUME IType, Ways, Users, clean', NEW t \in Threads,
         CloseRecycle(t) \/ (t = Timer /\ ServerRecycle)
  PROVE  Users'
<1>1. CutOf(t)
  BY DEF Users
<1>2. CASE CloseRecycle(t)
  <2>1. back[t] = "idle" /\ on[t] \notin late /\ \A u \in Threads \ {t} : ~Uses(u, on[t])
    BY <1>2 DEF CloseRecycle, PoolDelete
  <2>2. on[t] \in Handlers /\ Unseen(on[t])
    BY <1>1, <1>2, <2>1, OnFacts DEF CloseRecycle, CutOf, Unseen
  <2>3. GivesBack(t)
    BY <1>2, <2>1, <2>2, Facts DEF CloseRecycle, PoolDelete, Goto, GivesBack, tableVars
  <2> QED BY <2>3, GivesBackKeeps
<1>3. CASE t = Timer /\ ServerRecycle
  <2>1. on[t] \notin late /\ \A u \in Threads \ {t} : ~Uses(u, on[t])
    BY <1>3 DEF ServerRecycle, PoolDelete
  <2>2. on[t] \in Handlers /\ Unseen(on[t])
    BY <1>1, <1>3, <2>1, OnFacts DEF ServerRecycle, CutOf, Unseen
  <2>3. GivesBack(t)
    BY <1>3, <2>1, <2>2, Facts, ThreadKinds
       DEF ServerRecycle, PoolDelete, Goto, GivesBack, tableVars
  <2> QED BY <2>3, GivesBackKeeps
<1> QED BY <1>2, <1>3

LEMMA UsersPlugins ==
  ASSUME IType, Ways, Users,
         \/ \E c \in Ids : PostMessage(c) \/ CloseConnect(c)
         \/ \E h \in Handlers : GoSilent(h)
         \/ UNCHANGED vars
  PROVE  Users'
<1>1. /\ UNCHANGED <<inUse, id, sock, reg, closing, hlock, pc, on, cid, late>>
      /\ \A c \in Ids : map'[c] \in {map[c], NoHandler}
  BY Facts DEF PostMessage, CloseConnect, GoSilent, vars, poolVars, tableVars, boundVars,
               threadVars, histVars
<1>2. \A h \in Handlers : Unseen(h) => Unseen(h)'
  BY <1>1, HandlersAssumption DEF Unseen
<1>3. Free' /\ Current'
  BY <1>1, <1>2 DEF Users, Free, Busy, Current
<1>4. Alone' /\ Announcing'
  <2>1. pc[Acceptor] # "idle" => on[Acceptor] \in Handlers
    BY OnFacts, ThreadKinds DEF Ways, AcceptorWay, CloseSteps
  <2>2. \A t \in Threads : Busy(t, on[Acceptor])' <=> Busy(t, on[Acceptor])
    BY <1>1 DEF Busy
  <2>3. pc[Acceptor] # "idle" /\ Unseen(on[Acceptor]) => Unseen(on[Acceptor])'
    BY <1>1, <1>2, <2>1 DEF Unseen
  <2> QED BY <1>1, <2>2, <2>3 DEF Users, Alone, Announcing
<1>5. Opening'
  <2>1. CASE \E h \in Handlers : GoSilent(h)
    <3>1. PICK h \in Handlers : GoSilent(h)
      BY <2>1
    <3>2. pc[Acceptor] \in {"add", "announce"} => h # on[Acceptor]
      BY <3>1 DEF Users, Alone, Announcing, Unseen, GoSilent
    <3> QED BY <1>1, <3>1, <3>2, Facts, OnFacts, ThreadKinds
            DEF Users, Opening, GoSilent
  <2>2. CASE ~\E h \in Handlers : GoSilent(h)
    <3>1. silent' = silent
      BY <2>2 DEF PostMessage, CloseConnect, vars, poolVars
    <3> QED BY <1>1, <3>1 DEF Users, Opening
  <2> QED BY <2>1, <2>2
<1>6. ASSUME NEW t \in Threads PROVE CutOf(t)'
  <2>1. CutOf(t) /\ (pc[t] \notin {"idle", "next"} => on[t] \in Handlers)
    BY OnFacts DEF Users
  <2> QED BY <1>1, <2>1, HandlersAssumption DEF CutOf
<1> QED BY <1>3, <1>4, <1>5, <1>6 DEF Users

\* Once a handler was recycled under a thread, nothing is promised any more.
LEMMA CleanStays == [Next]_vars /\ clean' => clean
BY DEF Next, vars, AcceptorStep, ReactorStep, SenderStep, TimerStep, Close, Accept, Open,
       AddConnect, Announce, Dispatch, HandleInput, RecvData, ReturnInput, DropHandler,
       PostMessage, CloseConnect, FindConnection, SendMessage, PutSendPacket,
       SetSendQueueTimeCost, ReturnSend, HandleTimeout, NextLate, EraseLate, ServerClose,
       ServerShut, ServerRecycle, GoSilent, CloseCount, CloseTest, CloseShut, CloseUnmap,
       CloseRecycle, PoolDelete, histVars

\* The handlers the timer collects are in the table under their ids, which only
\* AddConnect changes.
LEMMA OwnersNext ==
  ASSUME IType, Ways, Users, Owners, [Next]_vars
  PROVE  Owners'
<1>1. ASSUME UNCHANGED <<id, late, whose>>, pc'[Timer] = pc[Timer], cid'[Timer] = cid[Timer]
      PROVE  Owners'
  BY <1>1 DEF Owners
<1>2. CASE AcceptorStep
  <2>1. /\ late' = late /\ whose' = whose /\ pc'[Timer] = pc[Timer]
        /\ cid'[Timer] = cid[Timer]
    BY <1>2, Facts, ThreadKinds
       DEF AcceptorStep, Accept, Open, AddConnect, Announce, Goto, CallClose
  <2>2. CASE Accept \/ Open \/ Announce
    <3>1. id' = id
      BY <2>2 DEF Accept, Open, Announce, poolVars
    <3> QED BY <1>1, <2>1, <3>1
  <2>3. CASE AddConnect
    <3>1. on[Acceptor] \notin late /\ id' = [id EXCEPT ![on[Acceptor]] = lastId + 1]
      BY <2>3 DEF AddConnect, Users, Alone, Unseen
    <3>2. \A h \in late : id'[h] = id[h]
      BY <3>1, Facts
    <3> QED BY <2>1, <3>2 DEF Owners
  <2> QED BY <1>2, <2>2, <2>3 DEF AcceptorStep
<1>3. ASSUME NEW r \in Reactors, ReactorStep(r) PROVE Owners'
  <2>1. /\ UNCHANGED <<id, late, whose>> /\ pc'[Timer] = pc[Timer]
        /\ cid'[Timer] = cid[Timer]
    BY <1>3, Facts, ThreadKinds
       DEF ReactorStep, Dispatch, HandleInput, RecvData, ReturnInput, DropHandler, Goto,
           CallClose, poolVars
  <2> QED BY <1>1, <2>1
<1>4. ASSUME NEW m \in Managers, SenderStep(m) PROVE Owners'
  <2>1. /\ UNCHANGED <<id, late, whose>> /\ pc'[Timer] = pc[Timer]
        /\ cid'[Timer] = cid[Timer]
    BY <1>4, Facts, ThreadKinds
       DEF SenderStep, FindConnection, SendMessage, PutSendPacket, SetSendQueueTimeCost,
           ReturnSend, Goto, CallClose, poolVars
  <2> QED BY <1>1, <2>1
<1>5. ASSUME NEW m \in Managers, HandleTimeout(m) PROVE Owners'
  <2>1. \A h \in late' : \E c \in Ids : ManagerOf(c) = m /\ map[c] = h /\ h # NoHandler
    BY <1>5 DEF HandleTimeout
  <2>2. \A h \in late' : ManagerOf(id[h]) = m
    BY <2>1 DEF Users, Current
  <2>3. whose' = m /\ id' = id /\ pc'[Timer] = "next"
    BY <1>5, Facts, ThreadKinds DEF HandleTimeout, Goto, poolVars
  <2> QED BY <2>2, <2>3 DEF Owners
<1>6. CASE NextLate
  <2>1. whose' = whose /\ id' = id /\ late' \subseteq late
    BY <1>6 DEF NextLate, poolVars
  <2>2. pc'[Timer] = "erase" => \E h \in late : cid'[Timer] = id[h]
    BY <1>6, Facts, ThreadKinds DEF NextLate, Goto
  <2> QED BY <2>1, <2>2 DEF Owners
<1>7. CASE EraseLate \/ ServerClose \/ ServerShut \/ ServerRecycle
  <2>1. UNCHANGED <<id, late, whose>> /\ pc'[Timer] # "erase"
    BY <1>7, Facts, ThreadKinds
       DEF EraseLate, ServerClose, ServerShut, ServerRecycle, Goto, poolVars
  <2> QED BY <2>1 DEF Owners
<1>8. ASSUME NEW t \in Threads, Close(t) PROVE Owners'
  <2>1. t # Timer
    BY <1>8 DEF Ways, TimerWay, Close, CloseCount, CloseTest, CloseShut, CloseUnmap,
                CloseRecycle
  <2>2. /\ UNCHANGED <<id, late, whose>> /\ pc'[Timer] = pc[Timer]
        /\ cid'[Timer] = cid[Timer]
    BY <1>8, <2>1, Facts, ThreadKinds
       DEF Close, CloseCount, CloseTest, CloseShut, CloseUnmap, CloseRecycle, Goto, poolVars
  <2> QED BY <1>1, <2>2
<1>9. ASSUME \/ \E c \in Ids : PostMessage(c) \/ CloseConnect(c)
             \/ \E h \in Handlers : GoSilent(h)
             \/ UNCHANGED vars
      PROVE  Owners'
  <2>1. UNCHANGED <<id, late, whose, pc, cid>>
    BY <1>9 DEF PostMessage, CloseConnect, GoSilent, vars, poolVars, threadVars
  <2> QED BY <1>1, <2>1
<1> QED BY <1>2, <1>3, <1>4, <1>5, <1>6, <1>7, <1>8, <1>9 DEF Next, TimerStep

LEMMA UsersNext ==
  ASSUME IType, Ways, Users, Owners, [Next]_vars, clean'
  PROVE  Users'
<1>1. CASE AcceptorStep
  BY <1>1, UsersAccept, UsersOpen, UsersAddConnect, UsersAnnounce DEF AcceptorStep
<1>2. ASSUME NEW r \in Reactors, ReactorStep(r) PROVE Users'
  <2>1. r \in Threads
    BY ThreadKinds
  <2> QED BY <1>2, <2>1, UsersDispatch, GoesOnReactor, GoesOnKeeps DEF ReactorStep
<1>3. ASSUME NEW m \in Managers, SenderStep(m) PROVE Users'
  <2>1. m \in Threads
    BY ThreadKinds
  <2> QED BY <1>3, <2>1, UsersFindConnection, GoesOnSender, GoesOnKeeps DEF SenderStep
<1>4. CASE TimerStep
  <2>1. CASE EraseLate \/ ServerClose \/ ServerShut
    BY <2>1, ThreadKinds, GoesOnTimer, GoesOnKeeps
  <2>2. CASE ServerRecycle
    BY <2>2, ThreadKinds, UsersRecycle
  <2> QED BY <1>4, <2>1, <2>2, UsersHandleTimeout, UsersNextLate DEF TimerStep
<1>5. ASSUME NEW t \in Threads, Close(t) PROVE Users'
  BY <1>5, GoesOnClose, GoesOnKeeps, UsersRecycle DEF Close
<1> QED BY <1>1, <1>2, <1>3, <1>4, <1>5, UsersPlugins DEF Next

Life == IType /\ Ways /\ (clean => Users /\ Owners)

LEMMA LifeInit == Init => Life
<1>1. Init => Owners
  BY ThreadKinds DEF Init, Owners
<1> QED BY <1>1, TypeInit, WaysInit, UsersInit DEF Life

LEMMA LifeNext == Life /\ [Next]_vars => Life'
BY TypeNext, WaysNext, UsersNext, OwnersNext, CleanStays DEF Life

\* A mapped ConnectID leads to a handler in use that carries this ConnectID, as
\* long as no handler was recycled under a thread: AddConnect, CloseConnect and
\* the timer, which each look at one id, keep the tables and the pool together.
THEOREM TableStaysCurrent == Spec => []TableIsCurrentWhileClean
<1>1. Life => TableIsCurrentWhileClean
  BY Facts, UsedIsInUse DEF Life, Users, Current, TableIsCurrentWhileClean, TableIsCurrent
<1> QED BY LifeInit, LifeNext, <1>1, PTL DEF Spec

-----------------------------------------------------------------------------
(* Every end is told                                                       *)

Ended == told["CDISCONNET"] \cup told["SENDTIMEOUT"]

\* The acceptor is about to register h.
Announces(h) == pc[Acceptor] = "announce" /\ on[Acceptor] = h

\* A thread past its test has told, or has seen that the timer tells.
CloserTold(t) ==
  pc[t] \in {"shut", "unmap", "recycle", "server_shut", "server_recycle"} =>
    id[on[t]] \in Ended

\* The state the timer leaves behind speaks of the connection that ended, until
\* Announce resets it for the next one.
MarkTold ==
  \A h \in Handlers : cstate[h] = "SERVER_CLOSE" => Announces(h) \/ id[h] \in Ended

\* What was announced and has not ended has its handler.
HasHandler ==
  \A c \in told["CONNECT"] \ Ended :
    \E h \in inUse : id[h] = c /\ ~(on[Acceptor] = h /\ pc[Acceptor] \in {"open", "add"})

Ends == (\A t \in Threads : CloserTold(t)) /\ MarkTold /\ HasHandler

\* A step of t that takes nothing from what was told.
Tells(t) ==
  /\ UNCHANGED <<id, inUse>>
  /\ told'["CONNECT"] = told["CONNECT"] /\ Ended \subseteq Ended'
  /\ \A h \in Handlers : cstate'[h] = "SERVER_CLOSE" =>
                           cstate[h] = "SERVER_CLOSE" \/ id[h] \in Ended'
  /\ \A u \in Threads \ {t} : pc'[u] = pc[u] /\ on'[u] = on[u]
  /\ CloserTold(t)'
  /\ t = Acceptor => {pc[t], pc'[t]} \cap {"open", "add", "announce"} = {}

LEMMA TellsKeeps == ASSUME IType, Ends, NEW t \in Threads, Tells(t) PROVE Ends'
<1>1. ASSUME NEW u \in Threads PROVE CloserTold(u)'
  <2>1. CASE u = t
    BY <2>1 DEF Tells
  <2>2. CASE u # t
    <3>1. CloserTold(u) /\ pc'[u] = pc[u] /\ on'[u] = on[u]
      BY <2>2 DEF Ends, Tells
    <3> QED BY <3>1 DEF CloserTold, Tells
  <2> QED BY <2>1, <2>2
<1>2. MarkTold'
  <2>1. \A h \in Handlers : Announces(h) => Announces(h)'
    BY ThreadKinds DEF Tells, Announces
  <2> QED BY <2>1 DEF Tells, Ends, MarkTold
<1>3. HasHandler'
  <2>1. \A h \in inUse : on'[Acceptor] = h /\ pc'[Acceptor] \in {"open", "add"} =>
                           on[Acceptor] = h /\ pc[Acceptor] \in {"open", "add"}
    BY ThreadKinds DEF Tells
  <2>2. \A c \in told'["CONNECT"] \ Ended' : c \in told["CONNECT"] \ Ended
    BY DEF Tells
  <2> QED BY <2>1, <2>2 DEF Tells, Ends, HasHandler
<1> QED BY <1>1, <1>2, <1>3 DEF Ends

LEMMA TellKeeps ==
  ASSUME IType, NEW k \in {"CDISCONNET", "SENDTIMEOUT"}, NEW c, Tell(k, c)
  PROVE  told'["CONNECT"] = told["CONNECT"] /\ Ended' = Ended \cup {c}
BY Facts DEF Tell, Ended, Kinds

LEMMA SameTold == told' = told => told'["CONNECT"] = told["CONNECT"] /\ Ended' = Ended
BY DEF Ended

LEMMA TellsReactor == ASSUME IType, NEW r \in Reactors, ReactorStep(r) PROVE Tells(r)
<1>0. r \in Threads /\ r # Acceptor
  BY ThreadKinds
<1>1. told'["CONNECT"] = told["CONNECT"] /\ Ended \subseteq Ended'
  BY TellKeeps, SameTold
     DEF ReactorStep, Dispatch, HandleInput, RecvData, ReturnInput, DropHandler, histVars
<1>2. UNCHANGED <<id, inUse, cstate>>
  BY DEF ReactorStep, Dispatch, HandleInput, RecvData, ReturnInput, DropHandler, poolVars
<1>3. /\ \A u \in Threads \ {r} : pc'[u] = pc[u] /\ on'[u] = on[u]
      /\ pc'[r] \in {"idle", "input", "recv", "dec", "failed"}
  BY <1>0, Facts DEF ReactorStep, Dispatch, HandleInput, RecvData, ReturnInput, DropHandler,
                     Goto, CallClose
<1> QED BY <1>0, <1>1, <1>2, <1>3 DEF Tells, CloserTold

LEMMA TellsSender == ASSUME IType, NEW m \in Managers, SenderStep(m) PROVE Tells(m)
<1>0. m \in Threads /\ m # Acceptor
  BY ThreadKinds
<1>1. told'["CONNECT"] = told["CONNECT"] /\ Ended \subseteq Ended'
  BY TellKeeps, SameTold
     DEF SenderStep, FindConnection, SendMessage, PutSendPacket, SetSendQueueTimeCost,
         ReturnSend, histVars
<1>2. UNCHANGED <<id, inUse, cstate>>
  BY DEF SenderStep, FindConnection, SendMessage, PutSendPacket, SetSendQueueTimeCost,
         ReturnSend, poolVars
<1>3. /\ \A u \in Threads \ {m} : pc'[u] = pc[u] /\ on'[u] = on[u]
      /\ pc'[m] \in {pc[m], "idle", "send", "put", "dec"}
      /\ pc[m] \in {"idle", "send", "put", "cost", "return"}
  BY <1>0, Facts DEF SenderStep, FindConnection, SendMessage, PutSendPacket,
                     SetSendQueueTimeCost, ReturnSend, Goto, CallClose
<1> QED BY <1>0, <1>1, <1>2, <1>3 DEF Tells, CloserTold

LEMMA TellsTimer ==
  ASSUME IType, Ends, TimerStep, ~ServerRecycle
  PROVE  Tells(Timer)
<1>0. Timer \in Threads /\ Timer # Acceptor /\ CloserTold(Timer)
  BY ThreadKinds DEF Ends
<1>1. CASE ServerClose
  <2>1. /\ UNCHANGED <<id, inUse, on>> /\ pc'[Timer] = "server_shut"
        /\ \A u \in Threads \ {Timer} : pc'[u] = pc[u]
        /\ cstate' = [cstate EXCEPT ![on[Timer]] = "SERVER_CLOSE"]
    BY <1>0, <1>1, Facts DEF ServerClose, Goto
  <2>2. told'["CONNECT"] = told["CONNECT"] /\ Ended' = Ended \cup {id[on[Timer]]}
    BY <1>1, TellKeeps DEF ServerClose
  <2>3. on[Timer] \in Handlers /\ cstate \in [Handlers -> {"INIT", "OPEN", "SERVER_CLOSE"}]
    BY <1>1, OnFacts, ThreadKinds DEF ServerClose, IType, TypeOK, PoolTypes
  <2> QED BY <1>0, <2>1, <2>2, <2>3 DEF Tells, CloserTold
<1>2. CASE ServerShut
  <2>1. /\ UNCHANGED <<id, inUse, on, told, cstate>> /\ pc[Timer] = "server_shut"
        /\ \A u \in Threads \ {Timer} : pc'[u] = pc[u]
    BY <1>0, <1>2, Facts DEF ServerShut, Goto, histVars
  <2> QED BY <1>0, <2>1, SameTold DEF Tells, CloserTold
<1>3. CASE NextLate \/ EraseLate \/ \E m \in Managers : HandleTimeout(m)
  <2>1. /\ UNCHANGED <<id, inUse, told, cstate>>
        /\ pc'[Timer] \in {"next", "erase", "idle", "server_close"}
        /\ \A u \in Threads \ {Timer} : pc'[u] = pc[u] /\ on'[u] = on[u]
    BY <1>0, <1>3, Facts DEF NextLate, EraseLate, HandleTimeout, Goto, histVars, poolVars
  <2> QED BY <1>0, <2>1, SameTold DEF Tells, CloserTold
<1> QED BY <1>1, <1>2, <1>3 DEF TimerStep

LEMMA TellsClose ==
  ASSUME IType, Ways, Users, Ends, NEW t \in Threads,
         CloseCount(t) \/ CloseTest(t) \/ CloseShut(t) \/ CloseUnmap(t)
  PROVE  Tells(t)
<1>0. CloserTold(t) /\ back[t] \in {"idle", "return_0", "return_1", "cost", "return"}
  BY DEF Ends, IType, BackKind
<1>1. CASE CloseCount(t)
  <2>1. /\ UNCHANGED <<id, inUse, on, told, cstate>> /\ pc[t] = "dec" /\ pc'[t] = "test"
        /\ \A u \in Threads \ {t} : pc'[u] = pc[u]
    BY <1>1, Facts DEF CloseCount, Goto, tableVars, boundVars
  <2> QED BY <2>1, SameTold DEF Tells, CloserTold
<1>2. CASE CloseShut(t) \/ CloseUnmap(t)
  <2>1. /\ UNCHANGED <<id, inUse, on, told, cstate>>
        /\ pc[t] \in {"shut", "unmap"} /\ pc'[t] \in {"unmap", "recycle"}
        /\ \A u \in Threads \ {t} : pc'[u] = pc[u]
    BY <1>2, Facts DEF CloseShut, CloseUnmap, Goto, tableVars, boundVars, histVars, poolVars
  <2> QED BY <1>0, <2>1, SameTold DEF Tells, CloserTold
<1>3. CASE CloseTest(t)
  <2>1. /\ UNCHANGED <<id, inUse, on, cstate>> /\ pc[t] = "test"
        /\ \A u \in Threads \ {t} : pc'[u] = pc[u]
    BY <1>3, Facts DEF CloseTest, Goto, poolVars
  <2>2. CASE count[on[t]] # 0
    <3>1. pc'[t] = back[t] /\ told' = told
      BY <1>3, <2>2, Facts DEF CloseTest, Goto
    <3> QED BY <1>0, <2>1, <3>1, SameTold DEF Tells, CloserTold
  <2>3. CASE count[on[t]] = 0
    <3>1. pc'[t] = "shut"
      BY <1>3, <2>3, Facts DEF CloseTest, Goto
    <3>2. /\ told'["CONNECT"] = told["CONNECT"] /\ Ended \subseteq Ended'
          /\ cstate[on[t]] # "SERVER_CLOSE" => id[on[t]] \in Ended'
      BY <1>3, <2>3, TellKeeps, SameTold DEF CloseTest
    <3>3. ~Announces(on[t])
      BY <2>1 DEF Users, Announcing, Announces, Busy
    <3>4. id[on[t]] \in Ended'
      BY <2>1, <3>2, <3>3, OnFacts DEF Ends, MarkTold
    <3> QED BY <2>1, <3>1, <3>2, <3>4 DEF Tells, CloserTold
  <2> QED BY <2>2, <2>3
<1> QED BY <1>1, <1>2, <1>3

LEMMA EndsInit == Init => Ends
BY DEF Init, Ends, CloserTold, MarkTold, HasHandler, Ended, Kinds

LEMMA EndsAccept == ASSUME IType, Ends, Accept PROVE Ends'
<1>1. PICK h \in Handlers \ inUse :
             inUse' = inUse \cup {h} /\ on' = [on EXCEPT ![Acceptor] = h]
  BY DEF Accept
<1>2. /\ UNCHANGED <<id, cstate, told>> /\ on'[Acceptor] = h
      /\ pc[Acceptor] = "idle" /\ pc'[Acceptor] = "open"
      /\ \A t \in Threads \ {Acceptor} : on'[t] = on[t] /\ pc'[t] = pc[t]
  BY <1>1, Facts, ThreadKinds DEF Accept, Goto, histVars
<1>3. Ended' = Ended
  BY <1>2, SameTold
<1>4. ASSUME NEW t \in Threads PROVE CloserTold(t)'
  BY <1>2, <1>3 DEF Ends, CloserTold
<1>5. MarkTold'
  BY <1>2, <1>3 DEF Ends, MarkTold, Announces
<1>6. HasHandler'
  BY <1>1, <1>2, <1>3 DEF Ends, HasHandler
<1> QED BY <1>4, <1>5, <1>6 DEF Ends

LEMMA EndsOpen == ASSUME IType, Ends, Open PROVE Ends'
<1>2. /\ UNCHANGED <<id, cstate, told, on, inUse>>
      /\ pc[Acceptor] = "open" /\ pc'[Acceptor] \in {"add", "dec"}
      /\ \A t \in Threads \ {Acceptor} : pc'[t] = pc[t]
  BY Facts, ThreadKinds DEF Open, Goto, CallClose
<1>3. Ended' = Ended
  BY <1>2, SameTold
<1>4. ASSUME NEW t \in Threads PROVE CloserTold(t)'
  BY <1>2, <1>3 DEF Ends, CloserTold
<1>5. MarkTold'
  BY <1>2, <1>3 DEF Ends, MarkTold, Announces
<1>6. HasHandler'
  BY <1>2, <1>3 DEF Ends, HasHandler
<1> QED BY <1>4, <1>5, <1>6 DEF Ends

LEMMA EndsAddConnect == ASSUME IType, Users, Ends, AddConnect PROVE Ends'
<1> DEFINE h == on[Acceptor]
<1>1. /\ UNCHANGED <<cstate, told, on, inUse>> /\ h \in Handlers
      /\ pc[Acceptor] = "add" /\ pc'[Acceptor] = "announce"
      /\ \A t \in Threads \ {Acceptor} : pc'[t] = pc[t]
      /\ \A g \in Handlers : g # h => id'[g] = id[g]
  BY Facts, OnFacts, ThreadKinds DEF AddConnect, Goto, histVars
<1>2. Ended' = Ended
  BY <1>1, SameTold
<1>3. \A t \in Threads \ {Acceptor} : ~Busy(t, h)
  BY <1>1 DEF Users, Alone
<1>4. ASSUME NEW t \in Threads PROVE CloserTold(t)'
  <2>1. CASE t = Acceptor
    BY <1>1, <2>1 DEF CloserTold
  <2>2. CASE t # Acceptor
    <3>1. pc[t] \notin {"idle", "next"} => on[t] \in Handlers /\ on[t] # h
      BY <1>3, <2>2, OnFacts DEF Busy
    <3>2. CloserTold(t) /\ pc'[t] = pc[t] /\ on'[t] = on[t]
      BY <1>1, <2>2 DEF Ends
    <3> HIDE DEF h
    <3> QED BY <1>1, <1>2, <3>1, <3>2 DEF CloserTold
  <2> QED BY <2>1, <2>2
<1>5. MarkTold'
  BY <1>1, <1>2 DEF Ends, MarkTold, Announces
<1>6. HasHandler'
  <2>1. \A g \in inUse : g \in Handlers
    BY Facts
  <2> QED BY <1>1, <1>2, <2>1 DEF Ends, HasHandler
<1> QED BY <1>4, <1>5, <1>6 DEF Ends

LEMMA EndsAnnounce == ASSUME IType, Users, Ends, Announce PROVE Ends'
<1> DEFINE h == on[Acceptor]
<1>1. /\ UNCHANGED <<id, on, inUse>> /\ h \in Handlers
      /\ pc[Acceptor] = "announce" /\ pc'[Acceptor] = "idle"
      /\ \A t \in Threads \ {Acceptor} : pc'[t] = pc[t]
      /\ cstate' = [cstate EXCEPT ![h] = "OPEN"]
  BY Facts, OnFacts, ThreadKinds DEF Announce, Goto, CallClose, Users, Opening
<1>2. Ended' = Ended /\ told'["CONNECT"] = told["CONNECT"] \cup {id[h]}
  BY Facts DEF Announce, Tell, Ended, Kinds
<1>3. h \in inUse
  BY <1>1, UsedIsInUse, ThreadKinds DEF Busy
<1>4. ASSUME NEW t \in Threads PROVE CloserTold(t)'
  BY <1>1, <1>2 DEF Ends, CloserTold
<1>5. MarkTold'
  <2>1. cstate \in [Handlers -> {"INIT", "OPEN", "SERVER_CLOSE"}]
    BY DEF IType, TypeOK, PoolTypes
  <2>2. \A g \in Handlers : cstate'[g] = "SERVER_CLOSE" => g # h /\ cstate[g] = "SERVER_CLOSE"
    BY <1>1, <2>1
  <2> QED BY <1>1, <1>2, <2>2 DEF Ends, MarkTold, Announces
<1>6. HasHandler'
  BY <1>1, <1>2, <1>3 DEF Ends, HasHandler
<1> QED BY <1>4, <1>5, <1>6 DEF Ends

LEMMA EndsRecycle ==
  ASSUME IType, Ways, Ends, NEW t \in Threads, CloseRecycle(t) \/ (t = Timer /\ ServerRecycle)
  PROVE  Ends'
<1>1. /\ UNCHANGED <<id, cstate, told, on>> /\ inUse' = inUse \ {on[t]}
      /\ pc[t] \in {"recycle", "server_recycle"}
      /\ pc'[t] \in {"idle", "next", "return_0", "return_1", "cost", "return"}
      /\ \A u \in Threads \ {t} : pc'[u] = pc[u]
  BY Facts DEF CloseRecycle, ServerRecycle, PoolDelete, Goto, IType, BackKind
<1>2. Ended' = Ended
  BY <1>1, SameTold
<1>3. id[on[t]] \in Ended
  BY <1>1 DEF Ends, CloserTold
<1>4. ASSUME NEW u \in Threads PROVE CloserTold(u)'
  BY <1>1, <1>2 DEF Ends, CloserTold
<1>5. MarkTold'
  BY <1>1, <1>2, ThreadKinds DEF Ends, MarkTold, Announces
<1>6. HasHandler'
  <2>1. pc'[Acceptor] \in {"open", "add"} => pc[Acceptor] = pc'[Acceptor]
    BY <1>1, ThreadKinds
  <2> SUFFICES ASSUME NEW c \in told'["CONNECT"] \ Ended'
               PROVE  \E h \in inUse' :
                        id'[h] = c /\ ~(on'[Acceptor] = h /\ pc'[Acceptor] \in {"open", "add"})
    BY DEF HasHandler
  <2>0. c \in told["CONNECT"] \ Ended
    BY <1>1, <1>2
  <2>2. PICK h \in inUse :
               id[h] = c /\ ~(on[Acceptor] = h /\ pc[Acceptor] \in {"open", "add"})
    BY <2>0 DEF Ends, HasHandler
  <2>3. h \in inUse'
    BY <1>1, <1>3, <2>0, <2>2
  <2> QED BY <1>1, <2>1, <2>2, <2>3
<1> QED BY <1>4, <1>5, <1>6 DEF Ends

LEMMA EndsNext ==
  ASSUME IType, Ways, Users, Ends, [Next]_vars
  PROVE  Ends'
<1>1. CASE AcceptorStep
  BY <1>1, EndsAccept, EndsOpen, EndsAddConnect, EndsAnnounce DEF AcceptorStep
<1>2. ASSUME NEW r \in Reactors, ReactorStep(r) PROVE Ends'
  BY <1>2, ThreadKinds, TellsReactor, TellsKeeps
<1>3. ASSUME NEW m \in Managers, SenderStep(m) PROVE Ends'
  BY <1>3, ThreadKinds, TellsSender, TellsKeeps
<1>4. CASE TimerStep
  BY <1>4, ThreadKinds, TellsTimer, TellsKeeps, EndsRecycle
<1>5. ASSUME NEW t \in Threads, Close(t) PROVE Ends'
  BY <1>5, TellsClose, TellsKeeps, EndsRecycle DEF Close
<1>6. CASE \/ \E c \in Ids : PostMessage(c) \/ CloseConnect(c)
           \/ \E h \in Handlers : GoSilent(h)
           \/ UNCHANGED vars
  <2>1. UNCHANGED <<id, inUse, cstate, told, pc, on>>
    BY <1>6 DEF PostMessage, CloseConnect, GoSilent, vars, poolVars, threadVars, histVars
  <2>2. Ended' = Ended
    BY <2>1, SameTold
  <2>3. ASSUME NEW t \in Threads PROVE CloserTold(t)'
    BY <2>1, <2>2 DEF Ends, CloserTold
  <2>4. MarkTold' /\ HasHandler'
    BY <2>1, <2>2 DEF Ends, MarkTold, HasHandler, Announces
  <2> QED BY <2>3, <2>4 DEF Ends
<1> QED BY <1>1, <1>2, <1>3, <1>4, <1>5, <1>6 DEF Next

\* A connection the plugins were told of, and whose handler went back to the
\* pool or on to another client, was also told to have ended, as long as no
\* handler was recycled under a thread: whoever passes the test of Close tells,
\* or finds the mark of the timer, which told; and Announce takes the mark away
\* before anyone can find it on the next connection.
THEOREM EveryEndIsTold == Spec => []EndIsTold
<1> DEFINE EInv == Life /\ (clean => Ends)
<1>1. Init => EInv
  BY LifeInit, EndsInit
<1>2. EInv /\ [Next]_vars => EInv'
  BY LifeNext, EndsNext, CleanStays DEF Life
<1>3. EInv => EndIsTold
  BY DEF Ends, HasHandler, Ended, EndIsTold
<1> QED BY <1>1, <1>2, <1>3, PTL DEF Spec

-----------------------------------------------------------------------------
(* The count of operations                                                 *)

\* Thread t has counted itself on its handler and has not counted down again.
Counting(t) == pc[t] \in {"recv", "put"} \/ (pc[t] = "dec" /\ back[t] # "idle")

\* Only the Close(2) of handle_close returns to no operation.
LessBack == \A t \in Threads : pc[t] = "dec" /\ less[t] = 1 => back[t] # "idle"

Counts == LessBack /\ \A h \in Handlers \ closing : count[h] = 1 + Cardinality(Counted(h))

LEMMA FiniteThreads == IsFiniteSet(Threads)
<1>1. IsFiniteSet(Managers)
  BY FS_Interval, ManagersAssumption DEF Managers
<1>2. IsFiniteSet(Reactors \cup Managers)
  BY <1>1, FS_Union, ThreadsAssumption
<1>3. IsFiniteSet((Reactors \cup Managers) \cup {Acceptor})
  BY <1>2, FS_AddElement
<1>4. IsFiniteSet(((Reactors \cup Managers) \cup {Acceptor}) \cup {Timer})
  BY <1>3, FS_AddElement
<1>5. Threads = ((Reactors \cup Managers) \cup {Acceptor}) \cup {Timer}
  BY DEF Threads
<1> QED BY <1>4, <1>5

LEMMA CountedFinite ==
  ASSUME NEW h
  PROVE  /\ IsFiniteSet(Counted(h)) /\ Cardinality(Counted(h)) \in Nat
         /\ IsFiniteSet(Counted(h)') /\ Cardinality(Counted(h)') \in Nat
BY FiniteThreads, FS_Subset, FS_CardinalityType DEF Counted

LEMMA CountedIs == \A h : Counted(h) = {t \in Threads : on[t] = h /\ Counting(t)}
BY DEF Counted, Counting

\* The others go on counting as they did.
OthersCount(t) ==
  \A u \in Threads \ {t} : pc'[u] = pc[u] /\ on'[u] = on[u] /\ back'[u] = back[u]
                           /\ less'[u] = less[u]

\* Steps that do not count.
KeepsCount(t) ==
  /\ OthersCount(t) /\ count' = count /\ closing' = closing
  /\ Counting(t)' = Counting(t) /\ (Counting(t) => on'[t] = on[t])
  /\ pc'[t] = "dec" /\ less'[t] = 1 => back'[t] # "idle"

\* Steps that count one operation more.
RaisesCount(t) ==
  /\ OthersCount(t) /\ count' = [count EXCEPT ![on[t]] = @ + 1] /\ closing' = closing
  /\ ~Counting(t) /\ Counting(t)' /\ on'[t] = on[t] /\ on[t] \in Handlers
  /\ pc'[t] = "dec" /\ less'[t] = 1 => back'[t] # "idle"

LEMMA CountedOthers ==
  ASSUME NEW t \in Threads, OthersCount(t), NEW h
  PROVE  Counted(h)' \ {t} = Counted(h) \ {t}
<1>1. \A u \in Threads \ {t} : (on'[u] = h /\ Counting(u)') <=> (on[u] = h /\ Counting(u))
  BY DEF OthersCount, Counting
<1> QED BY <1>1 DEF Counted, Counting

LEMMA LessBackKeeps ==
  ASSUME LessBack, NEW t \in Threads, OthersCount(t),
         pc'[t] = "dec" /\ less'[t] = 1 => back'[t] # "idle"
  PROVE  LessBack'
BY DEF LessBack, OthersCount

LEMMA KeepsCountKeeps ==
  ASSUME IType, Counts, NEW t \in Threads, KeepsCount(t)
  PROVE  Counts'
<1>1. ASSUME NEW h PROVE Counted(h)' = Counted(h)
  <2>1. t \in Counted(h)' <=> t \in Counted(h)
    BY DEF KeepsCount, Counted, Counting
  <2> QED BY <2>1, CountedOthers DEF KeepsCount
<1>2. \A h \in Handlers \ closing' : count'[h] = 1 + Cardinality(Counted(h)')
  BY <1>1 DEF Counts, KeepsCount
<1> QED BY <1>2, LessBackKeeps DEF Counts, KeepsCount

LEMMA RaisesCountKeeps ==
  ASSUME IType, Counts, NEW t \in Threads, RaisesCount(t)
  PROVE  Counts'
<1>1. ASSUME NEW h \in Handlers \ closing' PROVE count'[h] = 1 + Cardinality(Counted(h)')
  <2>1. count[h] = 1 + Cardinality(Counted(h)) /\ count[h] \in Nat
    BY <1>1, Facts DEF Counts, RaisesCount
  <2>2. t \notin Counted(h)
    BY DEF RaisesCount, Counted, Counting
  <2>3. CASE h = on[t]
    <3>1. t \in Counted(h)'
      BY <2>3 DEF RaisesCount, Counted, Counting
    <3>2. Counted(h)' = Counted(h) \cup {t}
      BY <2>2, <3>1, CountedOthers DEF RaisesCount
    <3>3. Cardinality(Counted(h)') = Cardinality(Counted(h)) + 1
      BY <2>2, <3>2, CountedFinite, FS_AddElement
    <3>4. count'[h] = count[h] + 1
      BY <2>3, Facts DEF RaisesCount
    <3> QED BY <2>1, <3>3, <3>4, CountedFinite
  <2>4. CASE h # on[t]
    <3>1. t \notin Counted(h)'
      BY <2>4 DEF RaisesCount, Counted
    <3>2. Counted(h)' = Counted(h)
      BY <2>2, <3>1, CountedOthers DEF RaisesCount
    <3> QED BY <2>1, <2>4, <3>2, Facts DEF RaisesCount
  <2> QED BY <2>3, <2>4
<1> QED BY <1>1, LessBackKeeps DEF Counts, RaisesCount

LEMMA CountsReactor ==
  ASSUME IType, Ways, Counts, NEW r \in Reactors, ReactorStep(r)
  PROVE  Counts'
<1>0. r \in Threads /\ (pc[r] # "idle" => on[r] \in Handlers)
  BY ThreadKinds, OnFacts DEF Ways, ReactorWay, CloseSteps
<1>1. OthersCount(r) /\ closing' = closing
  BY <1>0, Facts DEF ReactorStep, Dispatch, HandleInput, RecvData, ReturnInput, DropHandler,
                     Goto, CallClose, OthersCount, histVars
<1>2. CASE HandleInput(r) /\ parse[on[r]]
  <2>1. RaisesCount(r)
    BY <1>0, <1>1, <1>2, Facts DEF HandleInput, Goto, RaisesCount, Counting
  <2> QED BY <1>0, <2>1, RaisesCountKeeps
<1>3. CASE HandleInput(r) /\ ~parse[on[r]]
  <2>1. KeepsCount(r)
    BY <1>0, <1>1, <1>3, Facts DEF HandleInput, Goto, KeepsCount, Counting
  <2> QED BY <1>0, <2>1, KeepsCountKeeps
<1>4. CASE RecvData(r)
  <2>1. KeepsCount(r)
    BY <1>0, <1>1, <1>4, Facts DEF RecvData, CallClose, KeepsCount, Counting
  <2> QED BY <1>0, <2>1, KeepsCountKeeps
<1>5. CASE Dispatch(r) \/ ReturnInput(r)
  <2>1. count' = count /\ ~Counting(r) /\ pc'[r] \in {"input", "failed", "idle"}
    BY <1>0, <1>5, Facts DEF Dispatch, ReturnInput, Goto, Counting, poolVars
  <2>2. KeepsCount(r)
    BY <1>1, <2>1 DEF KeepsCount, Counting
  <2> QED BY <1>0, <2>2, KeepsCountKeeps
<1>6. CASE DropHandler(r)
  <2>1. count' = count /\ ~Counting(r) /\ ~Counting(r)' /\ (pc'[r] = "dec" => less'[r] = 2)
    BY <1>0, <1>6, Facts DEF DropHandler, Goto, CallClose, Counting
  <2>2. KeepsCount(r)
    BY <1>1, <2>1 DEF KeepsCount, Counting
  <2> QED BY <1>0, <2>2, KeepsCountKeeps
<1> QED BY <1>2, <1>3, <1>4, <1>5, <1>6 DEF ReactorStep

LEMMA CountsSender ==
  ASSUME IType, Ways, Counts, NEW m \in Managers, SenderStep(m)
  PROVE  Counts'
<1>0. m \in Threads /\ (pc[m] # "idle" => on[m] \in Handlers)
  BY ThreadKinds, OnFacts DEF Ways, SenderWay, CloseSteps
<1>1. OthersCount(m) /\ closing' = closing
  BY <1>0, Facts DEF SenderStep, FindConnection, SendMessage, PutSendPacket,
                     SetSendQueueTimeCost, ReturnSend, Goto, CallClose, OthersCount, histVars
<1>2. CASE SendMessage(m)
  <2>1. RaisesCount(m)
    BY <1>0, <1>1, <1>2, Facts DEF SendMessage, Goto, RaisesCount, Counting
  <2> QED BY <1>0, <2>1, RaisesCountKeeps
<1>3. CASE SetSendQueueTimeCost(m)
  <2>1. RaisesCount(m)
    BY <1>0, <1>1, <1>3, Facts DEF SetSendQueueTimeCost, CallClose, RaisesCount, Counting
  <2> QED BY <1>0, <2>1, RaisesCountKeeps
<1>4. CASE PutSendPacket(m)
  <2>1. KeepsCount(m)
    BY <1>0, <1>1, <1>4, Facts DEF PutSendPacket, CallClose, KeepsCount, Counting, poolVars
  <2> QED BY <1>0, <2>1, KeepsCountKeeps
<1>5. CASE FindConnection(m) \/ ReturnSend(m)
  <2>1. count' = count /\ ~Counting(m) /\ pc'[m] \in {"idle", "send"}
    BY <1>0, <1>5, Facts DEF FindConnection, ReturnSend, Goto, Counting, poolVars
  <2>2. KeepsCount(m)
    BY <1>1, <2>1 DEF KeepsCount, Counting
  <2> QED BY <1>0, <2>2, KeepsCountKeeps
<1> QED BY <1>2, <1>3, <1>4, <1>5 DEF SenderStep

LEMMA CountsTimer == ASSUME IType, Ways, Counts, TimerStep PROVE Counts'
<1>1. /\ UNCHANGED <<count, closing>> /\ OthersCount(Timer)
      /\ pc'[Timer] \in {"next", "erase", "idle", "server_close", "server_shut", "server_recycle"}
  BY Facts, ThreadKinds
     DEF TimerStep, HandleTimeout, NextLate, EraseLate, ServerClose, ServerShut,
         ServerRecycle, Goto, OthersCount, poolVars, histVars
<1>2. pc[Timer] \notin {"recv", "put", "dec"}
  BY DEF Ways, TimerWay
<1>3. KeepsCount(Timer)
  BY <1>1, <1>2 DEF KeepsCount, Counting
<1> QED BY <1>3, ThreadKinds, KeepsCountKeeps

LEMMA CountsAcceptor == ASSUME IType, Ways, Users, Counts, AcceptorStep PROVE Counts'
<1>1. OthersCount(Acceptor)
  BY Facts, ThreadKinds
     DEF AcceptorStep, Accept, Open, AddConnect, Announce, Goto, CallClose, OthersCount
<1>2. CASE Open
  <2> DEFINE h == on[Acceptor]
  <2>1. /\ h \in Handlers /\ count' = [count EXCEPT ![h] = 1] /\ closing' = closing \ {h}
        /\ pc[Acceptor] = "open" /\ on' = on /\ pc'[Acceptor] \in {"add", "dec"}
        /\ pc'[Acceptor] = "dec" => less'[Acceptor] = 2 /\ back'[Acceptor] = "idle"
    BY <1>2, Facts, OnFacts, ThreadKinds DEF Open, Goto, CallClose
  <2>2. ~Counting(Acceptor) /\ ~Counting(Acceptor)'
    BY <2>1 DEF Counting
  <2>3. ASSUME NEW g PROVE Counted(g)' = Counted(g)
    <3>1. Acceptor \notin Counted(g) /\ Acceptor \notin Counted(g)'
      BY <2>2 DEF Counted, Counting
    <3> QED BY <1>1, <3>1, CountedOthers, ThreadKinds
  <2>4. Counted(h) = {}
    <3>1. \A t \in Threads \ {Acceptor} : ~Busy(t, h)
      BY <2>1 DEF Users, Alone
    <3> QED BY <2>2, <3>1 DEF Counted, Counting, Busy
  <2>5. Cardinality(Counted(h)) = 0
    BY <2>4, FS_EmptySet
  <2> HIDE DEF h
  <2>6. \A g \in Handlers \ closing' : count'[g] = 1 + Cardinality(Counted(g)')
    BY <2>1, <2>3, <2>5, Facts DEF Counts
  <2> QED BY <1>1, <2>1, <2>6, LessBackKeeps, ThreadKinds DEF Counts
<1>3. CASE Accept \/ AddConnect \/ Announce
  <2>1. /\ UNCHANGED <<count, closing>> /\ ~Counting(Acceptor)
        /\ pc'[Acceptor] \in {"open", "announce", "idle", "dec"}
        /\ pc'[Acceptor] = "dec" => less'[Acceptor] = 2 /\ back'[Acceptor] = "idle"
    BY <1>3, Facts, ThreadKinds
       DEF Accept, AddConnect, Announce, Goto, CallClose, Counting, histVars
  <2>2. KeepsCount(Acceptor)
    BY <1>1, <2>1 DEF KeepsCount, Counting
  <2> QED BY <2>2, ThreadKinds, KeepsCountKeeps
<1> QED BY <1>2, <1>3 DEF AcceptorStep

LEMMA CountsClose ==
  ASSUME IType, Counts, NEW t \in Threads, Close(t)
  PROVE  Counts'
<1>1. OthersCount(t) /\ back[t] \in {"idle", "return_0", "return_1", "cost", "return"}
  BY Facts DEF Close, CloseCount, CloseTest, CloseShut, CloseUnmap, CloseRecycle, Goto,
               OthersCount, IType, BackKind
<1>2. CASE CloseTest(t) \/ CloseShut(t) \/ CloseUnmap(t) \/ CloseRecycle(t)
  <2>1. /\ UNCHANGED <<count, closing>> /\ ~Counting(t)
        /\ pc'[t] \in {"shut", "unmap", "recycle", back[t]}
    BY <1>2, Facts DEF CloseTest, CloseShut, CloseUnmap, CloseRecycle, Goto, Counting,
                       poolVars, histVars
  <2>2. KeepsCount(t)
    BY <1>1, <2>1 DEF KeepsCount, Counting
  <2> QED BY <2>2, KeepsCountKeeps
<1>3. CASE CloseCount(t)
  <2>0. PICK h \in Handlers : h = on[t]
    BY <1>3, OnFacts DEF CloseCount
  <2>1. /\ UNCHANGED <<on, less, back>> /\ pc[t] = "dec" /\ pc'[t] = "test"
        /\ count[h] \in Nat /\ less[t] \in {1, 2}
        /\ count'[h] = IF less[t] > count[h] THEN 0 ELSE count[h] - less[t]
        /\ \A g \in Handlers : g # h => count'[g] = count[g]
        /\ closing' = IF less[t] = 2 THEN closing \cup {h} ELSE closing
    BY <1>3, <2>0, Facts DEF CloseCount, Goto
  <2>2. LessBack'
    BY <1>1, <2>1, LessBackKeeps DEF Counts
  <2>3. ASSUME NEW g, g # h PROVE Counted(g)' = Counted(g)
    <3>1. t \notin Counted(g) /\ t \notin Counted(g)'
      BY <2>0, <2>1, <2>3 DEF Counted
    <3>2. Counted(g)' \ {t} = Counted(g) \ {t}
      BY <1>1, CountedOthers
    <3> QED BY <3>1, <3>2
  <2>4. ASSUME h \notin closing' PROVE count'[h] = 1 + Cardinality(Counted(h)')
    <3>1. less[t] = 1 /\ h \notin closing
      BY <2>1, <2>4
    <3>2. t \in Counted(h) /\ t \notin Counted(h)'
      BY <2>0, <2>1, <3>1 DEF Counts, LessBack, Counted
    <3>3. Counted(h)' = Counted(h) \ {t}
      BY <1>1, <3>2, CountedOthers
    <3>4. Cardinality(Counted(h)') = Cardinality(Counted(h)) - 1
      BY <3>2, <3>3, CountedFinite, FS_RemoveElement
    <3>5. count[h] = 1 + Cardinality(Counted(h))
      BY <2>1, <3>1 DEF Counts
    <3>6. Cardinality(Counted(h)) \in Nat /\ Cardinality(Counted(h)') \in Nat
      BY CountedFinite
    <3>7. count'[h] = IF 1 > count[h] THEN 0 ELSE count[h] - 1
      BY <2>1, <3>1
    <3> QED BY <3>4, <3>5, <3>6, <3>7
  <2>5. \A g \in Handlers \ closing' : count'[g] = 1 + Cardinality(Counted(g)')
    BY <2>1, <2>3, <2>4 DEF Counts
  <2> QED BY <2>2, <2>5 DEF Counts
<1> QED BY <1>2, <1>3 DEF Close

LEMMA CountsInit == Init => Counts
<1> SUFFICES ASSUME Init PROVE Counts
  OBVIOUS
<1>1. \A h : Counted(h) = {}
  BY DEF Init, Counted
<1>2. \A h : Cardinality(Counted(h)) = 0
  BY <1>1, FS_EmptySet
<1>3. LessBack /\ \A h \in Handlers : count[h] = 1
  BY DEF Init, LessBack
<1> QED BY <1>2, <1>3 DEF Counts

LEMMA CountsNext ==
  ASSUME IType, Ways, Users, Counts, [Next]_vars
  PROVE  Counts'
<1>1. CASE \/ \E c \in Ids : PostMessage(c) \/ CloseConnect(c)
           \/ \E h \in Handlers : GoSilent(h)
           \/ UNCHANGED vars
  <2>1. UNCHANGED <<count, closing, pc, on, less, back>>
    BY <1>1 DEF PostMessage, CloseConnect, GoSilent, vars, poolVars, threadVars, histVars
  <2>2. \A h : Counted(h)' = Counted(h)
    BY <2>1 DEF Counted
  <2> QED BY <2>1, <2>2 DEF Counts, LessBack
<1> QED BY <1>1, CountsAcceptor, CountsReactor, CountsSender, CountsTimer, CountsClose DEF Next

\* Between open and the first Close(2) the count of a handler is one for the
\* connection and one for each operation in progress, however many reactors and
\* send threads there are, as long as no handler was recycled under a thread.
THEOREM CountCountsOperations == Spec => []CountIsOperations
<1> DEFINE CInv == Life /\ (clean => Counts)
<1>1. Init => CInv
  BY LifeInit, CountsInit
<1>2. CInv /\ [Next]_vars => CInv'
  BY LifeNext, CountsNext, CleanStays DEF Life
<1>3. CInv => CountIsOperations
  BY Facts DEF Life, Counts, CountIsOperations
<1> QED BY <1>1, <1>2, <1>3, PTL DEF Spec
=============================================================================
