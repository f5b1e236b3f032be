------------------------ MODULE ConnectLocks_proofs ------------------------
(***************************************************************************)
(* Proof that the locks of handlers and of managers, which are taken in    *)
(* both orders, never make threads wait for each other, where              *)
(* ClientDataAlert sets no limit on sends.                                 *)
(*                                                                         *)
(* A thread that holds the lock of a handler does not wait: the acceptor   *)
(* while it announces, for then only it is on the handler but for senders, *)
(* and a reactor inside RecvData, because its connection still counts it   *)
(* (Counts) until its own handle_close, so that its Close(1) never goes on *)
(* to the lock of the manager.  With a limit a sender may Close(2) under   *)
(* a reactor, which makes the argument and the property fail.              *)
(***************************************************************************)
EXTENDS ConnectLife_proofs

\* Reactor r is between the lock and the unlock of handle_input.
Inside(r) ==
  \/ pc[r] \in {"recv", "return_0", "return_1"}
  \/ pc[r] \in CloseSteps /\ back[r] \in {"return_0", "return_1"}

\* The lock of a handler is held by the acceptor or by one reactor, on it.
HoldersKnown ==
  \A h \in Handlers : hlock[h] # NoThread =>
    /\ on[hlock[h]] = h
    /\ \/ hlock[h] = Acceptor /\ pc[Acceptor] \in {"add", "announce"}
       \/ hlock[h] \in Reactors /\ Inside(hlock[h])

InsideHolds == \A r \in Reactors : Inside(r) => hlock[on[r]] = r

\* The send thread of a manager works on connections of this manager.
OwnConnections == \A m \in Managers : pc[m] # "idle" => ManagerOf(id[on[m]]) = m

\* One reactor at a time is on a handler, the one it is registered with.
OneReactor ==
  \A r \in Reactors : pc[r] # "idle" =>
    /\ reg[on[r]] \in {r, NoThread}
    /\ \A q \in Reactors : on[q] = on[r] /\ pc[q] # "idle" => q = r

\* What thread t does before a Close(2), for a reactor that of its handle_close.
BeforeClose(t) ==
  /\ pc[t] = "dec" /\ less[t] = 2 => back[t] = "idle"
  /\ t \in Reactors =>
       /\ pc[t] \in {"input", "failed"} \/ Inside(t) =>
            on[t] \notin closing /\ pc[t] \notin {"shut", "unmap", "recycle"}
       /\ pc[t] \in CloseSteps /\ back[t] = "idle" => reg[on[t]] = NoThread

\* Close(2) is called once nothing is registered any more, and no reactor is
\* before its own on the handler.
Unclosed ==
  /\ \A h \in Handlers : reg[h] # NoThread => h \notin closing
  /\ \A t \in Threads : BeforeClose(t)

LEMMA ThreadsOn ==
  ASSUME IType, Ways
  PROVE  /\ \A t \in Reactors \cup Managers :
              pc[t] # "idle" => on[t] \in Handlers /\ Busy(t, on[t])
         /\ pc[Acceptor] # "idle" => on[Acceptor] \in Handlers
BY OnFacts, ThreadKinds DEF Ways, ReactorWay, SenderWay, AcceptorWay, CloseSteps, Busy

\* Reactors, and what the acceptor is opening.
LEMMA ReactorsAway ==
  ASSUME IType, Ways, Users, NEW r \in Reactors, pc[r] # "idle", pc[Acceptor] # "idle"
  PROVE  on[r] # on[Acceptor]
BY ThreadsOn, ThreadKinds DEF Users, Alone, Announcing, Busy, Ways, ReactorWay, CloseSteps

-----------------------------------------------------------------------------
(* The locks of handlers                                                   *)

\* Steps that take and leave no lock of a handler.
SameHolders ==
  /\ hlock' = hlock
  /\ pc[Acceptor] \in {"add", "announce"} =>
       on'[Acceptor] = on[Acceptor] /\ pc'[Acceptor] \in {"add", "announce"}
  /\ \A r \in Reactors : Inside(r)' = Inside(r) /\ (Inside(r) => on'[r] = on[r])

LEMMA SameHoldersKeep ==
  ASSUME IType, HoldersKnown, SameHolders
  PROVE  HoldersKnown' /\ (InsideHolds => InsideHolds')
<1>1. HoldersKnown'
  BY DEF SameHolders, HoldersKnown
<1>2. ASSUME InsideHolds PROVE InsideHolds'
  BY <1>2 DEF SameHolders, InsideHolds
<1> QED BY <1>1, <1>2

LEMMA HoldersAcceptor ==
  ASSUME IType, Ways, HoldersKnown, AcceptorStep
  PROVE  HoldersKnown' /\ (Users /\ InsideHolds => InsideHolds')
<1>1. /\ \A r \in Reactors : on'[r] = on[r] /\ pc'[r] = pc[r] /\ back'[r] = back[r]
      /\ pc[Acceptor] # "idle" => on'[Acceptor] = on[Acceptor] /\ on[Acceptor] \in Handlers
  BY Facts, ThreadKinds, ThreadsOn
     DEF AcceptorStep, Accept, Open, AddConnect, Announce, Goto, CallClose
<1>2. \A r \in Reactors : Inside(r)' = Inside(r)
  BY <1>1 DEF Inside
<1>3. CASE Accept \/ AddConnect
  <2>1. SameHolders
    BY <1>1, <1>2, <1>3, Facts, ThreadKinds DEF Accept, AddConnect, Goto, SameHolders
  <2> QED BY <2>1, SameHoldersKeep
<1>4. CASE Open
  <2> DEFINE h == on[Acceptor]
  <2>1. /\ pc[Acceptor] = "open" /\ on' = on /\ h \in Handlers
        /\ hlock[h] \in {NoThread, Acceptor}
        /\ \/ pc'[Acceptor] = "add" /\ hlock' = [hlock EXCEPT ![h] = Acceptor]
           \/ pc'[Acceptor] = "dec" /\ hlock' = hlock
    BY <1>4, Facts, ThreadsOn, ThreadKinds DEF Open, Goto, CallClose, CanLockHandler
  <2>2. HoldersKnown'
    BY <1>2, <2>1, Facts, ThreadKinds DEF HoldersKnown
  <2>3. ASSUME InsideHolds PROVE InsideHolds'
    <3>1. SUFFICES ASSUME NEW r \in Reactors, Inside(r)' PROVE hlock'[on'[r]] = r
      BY DEF InsideHolds
    <3>2. Inside(r) /\ hlock[on[r]] = r
      BY <1>2, <2>3, <3>1 DEF InsideHolds
    <3>3. on[r] \in Handlers /\ on[r] # h
      BY <2>1, <3>2, ThreadsOn, ThreadKinds DEF Inside, CloseSteps
    <3> QED BY <2>1, <3>2, <3>3, Facts
  <2> QED BY <2>2, <2>3
<1>5. CASE Announce
  <2> DEFINE h == on[Acceptor]
  <2>1. /\ pc[Acceptor] = "announce" /\ on' = on /\ h \in Handlers
        /\ hlock' = [hlock EXCEPT ![h] = NoThread]
    BY <1>5, ThreadsOn DEF Announce
  <2>2. HoldersKnown'
    BY <1>2, <2>1, Facts, ThreadKinds DEF HoldersKnown
  <2>3. ASSUME Users, InsideHolds PROVE InsideHolds'
    <3>1. hlock[h] = Acceptor
      BY <2>1, <2>3 DEF Users, Opening
    <3> QED BY <1>2, <2>1, <2>3, <3>1, Facts, ThreadKinds, ThreadsOn DEF InsideHolds
  <2> QED BY <2>2, <2>3
<1> QED BY <1>3, <1>4, <1>5 DEF AcceptorStep

LEMMA HoldersReactor ==
  ASSUME IType, Ways, HoldersKnown, NEW r \in Reactors, ReactorStep(r)
  PROVE  HoldersKnown' /\ (InsideHolds => InsideHolds')
<1>1. /\ r \in Threads /\ r # Acceptor /\ r # NoThread
      /\ \A u \in Threads \ {r} : on'[u] = on[u] /\ pc'[u] = pc[u] /\ back'[u] = back[u]
      /\ pc[r] # "idle" => on'[r] = on[r] /\ on[r] \in Handlers
  BY Facts, ThreadKinds, ThreadsOn
     DEF ReactorStep, Dispatch, HandleInput, RecvData, ReturnInput, DropHandler, Goto, CallClose
<1>2. \A q \in Reactors \ {r} : Inside(q)' = Inside(q)
  BY <1>1, ThreadKinds DEF Inside
<1>3. ASSUME hlock' = hlock, Inside(r)' = Inside(r), Inside(r) => pc[r] # "idle"
      PROVE  SameHolders
  BY <1>1, <1>2, <1>3, ThreadKinds DEF SameHolders
<1>4. CASE Dispatch(r) \/ RecvData(r) \/ DropHandler(r) \/ (HandleInput(r) /\ ~parse[on[r]])
  <2>1. hlock' = hlock /\ Inside(r)' = Inside(r) /\ (Inside(r) => pc[r] # "idle")
    BY <1>1, <1>4, Facts
       DEF Dispatch, RecvData, DropHandler, HandleInput, Goto, CallClose, Inside, CloseSteps
  <2> QED BY <1>3, <2>1, SameHoldersKeep
<1>5. CASE HandleInput(r) /\ parse[on[r]]
  <2>0. PICK h \in Handlers : h = on[r]
    BY <1>1, <1>5 DEF HandleInput
  <2>1. /\ on'[r] = h /\ hlock[h] \in {NoThread, r}
        /\ hlock' = [hlock EXCEPT ![h] = r] /\ pc[r] = "input" /\ pc'[r] = "recv"
    BY <1>1, <1>5, <2>0, Facts DEF HandleInput, Goto, CanLockHandler
  <2>2. Inside(r)' /\ ~Inside(r)
    BY <2>1 DEF Inside, CloseSteps
  <2>3. HoldersKnown'
    BY <1>1, <1>2, <2>0, <2>1, <2>2, Facts, ThreadKinds DEF HoldersKnown
  <2>4. ASSUME InsideHolds PROVE InsideHolds'
    BY <1>1, <1>2, <2>1, <2>2, <2>4, Facts, ThreadKinds DEF InsideHolds
  <2> QED BY <2>3, <2>4
<1>6. CASE ReturnInput(r)
  <2>0. PICK h \in Handlers : h = on[r]
    BY <1>1, <1>6 DEF ReturnInput
  <2>1. /\ on' = on /\ hlock' = [hlock EXCEPT ![h] = NoThread]
        /\ Inside(r) /\ ~Inside(r)'
    BY <1>1, <1>6, <2>0, Facts DEF ReturnInput, Goto, Inside, CloseSteps
  <2>2. HoldersKnown'
    BY <1>1, <1>2, <2>0, <2>1, Facts, ThreadKinds DEF HoldersKnown
  <2>3. ASSUME InsideHolds PROVE InsideHolds'
    <3>1. hlock[h] = r
      BY <2>0, <2>1, <2>3 DEF InsideHolds
    <3>2. SUFFICES ASSUME NEW q \in Reactors, Inside(q)' PROVE hlock'[on'[q]] = q
      BY DEF InsideHolds
    <3>3. q # r /\ Inside(q) /\ hlock[on[q]] = q
      BY <1>2, <2>1, <2>3, <3>2 DEF InsideHolds
    <3> QED BY <2>1, <3>1, <3>3, Facts
  <2> QED BY <2>2, <2>3
<1> QED BY <1>4, <1>5, <1>6 DEF ReactorStep

LEMMA HoldersNext ==
  ASSUME IType, Ways, HoldersKnown, [Next]_vars
  PROVE  HoldersKnown' /\ (Users /\ InsideHolds => InsideHolds')
<1>1. ASSUME NEW t \in Threads \ ({Acceptor} \cup Reactors), UNCHANGED hlock,
             \A u \in Threads \ {t} : on'[u] = on[u] /\ pc'[u] = pc[u] /\ back'[u] = back[u]
      PROVE  SameHolders
  BY <1>1, ThreadKinds DEF SameHolders, Inside
<1>2. ASSUME NEW m \in Managers, SenderStep(m) PROVE SameHolders
  <2>1. m \in Threads \ ({Acceptor} \cup Reactors)
    BY ThreadKinds
  <2> QED BY <1>1, <1>2, <2>1, Facts
          DEF SenderStep, FindConnection, SendMessage, PutSendPacket, SetSendQueueTimeCost,
              ReturnSend, Goto, CallClose, poolVars
<1>3. ASSUME TimerStep PROVE SameHolders
  <2>1. Timer \in Threads \ ({Acceptor} \cup Reactors)
    BY ThreadKinds
  <2> QED BY <1>1, <1>3, <2>1, Facts
          DEF TimerStep, HandleTimeout, NextLate, EraseLate, ServerClose, ServerShut,
              ServerRecycle, Goto, poolVars
<1>4. ASSUME NEW t \in Threads, Close(t) PROVE SameHolders
  <2>1. /\ hlock' = hlock /\ on' = on /\ back' = back
        /\ \A u \in Threads \ {t} : pc'[u] = pc[u]
        /\ pc[t] \in CloseSteps /\ pc'[t] \in CloseSteps \cup {back[t]}
    BY <1>4, Facts
       DEF Close, CloseCount, CloseTest, CloseShut, CloseUnmap, CloseRecycle, Goto,
           CloseSteps, poolVars
  <2>2. t \in Reactors => back[t] \in {"return_0", "return_1", "idle"}
    BY <2>1 DEF Ways, ReactorWay
  <2>3. pc[Acceptor] \in {"add", "announce"} => pc'[Acceptor] = pc[Acceptor]
    BY <2>1, ThreadKinds DEF CloseSteps
  <2>4. ASSUME NEW r \in Reactors PROVE Inside(r)' = Inside(r)
    BY <2>1, <2>2, ThreadKinds DEF Inside, CloseSteps
  <2> QED BY <2>1, <2>3, <2>4 DEF SameHolders
<1>5. ASSUME \/ \E c \in Ids : PostMessage(c) \/ CloseConnect(c)
             \/ \E h \in Handlers : GoSilent(h)
             \/ UNCHANGED vars
      PROVE  SameHolders
  <2>1. UNCHANGED <<hlock, pc, on, back>>
    BY <1>5 DEF PostMessage, CloseConnect, GoSilent, vars, threadVars
  <2> QED BY <2>1 DEF SameHolders, Inside
<1> QED BY <1>2, <1>3, <1>4, <1>5, HoldersAcceptor, HoldersReactor, SameHoldersKeep DEF Next

-----------------------------------------------------------------------------
(* The users of a handler                                                  *)

\* Steps of t that bring no reactor or send thread to another handler.
Stays(t) ==
  /\ UNCHANGED id
  /\ \A h \in Handlers : reg'[h] \in {reg[h], NoThread}
  /\ \A u \in Reactors \cup Managers : pc'[u] # "idle" => pc[u] # "idle" /\ on'[u] = on[u]

LEMMA StaysKeep ==
  ASSUME IType, Ways, NEW t, Stays(t)
  PROVE  (OneReactor => OneReactor') /\ (OwnConnections => OwnConnections')
<1>1. ASSUME OneReactor PROVE OneReactor'
  BY <1>1, ThreadsOn DEF OneReactor, Stays
<1>2. ASSUME OwnConnections PROVE OwnConnections'
  BY <1>2 DEF OwnConnections, Stays
<1> QED BY <1>1, <1>2

LEMMA StaysOther ==
  ASSUME IType, Ways, NEW t \in Threads \ {Acceptor}, [Next]_vars,
         \/ t \in Reactors /\ ReactorStep(t) /\ ~Dispatch(t)
         \/ t \in Managers /\ SenderStep(t) /\ ~FindConnection(t)
         \/ TimerStep
         \/ Close(t)
  PROVE  Stays(t)
<1>1. CASE t \in Reactors /\ ReactorStep(t) /\ ~Dispatch(t)
  BY <1>1, Facts, ThreadKinds
     DEF ReactorStep, HandleInput, RecvData, ReturnInput, DropHandler, Goto, CallClose,
         Stays, poolVars
<1>2. CASE t \in Managers /\ SenderStep(t) /\ ~FindConnection(t)
  BY <1>2, Facts, ThreadKinds
     DEF SenderStep, SendMessage, PutSendPacket, SetSendQueueTimeCost, ReturnSend, Goto,
         CallClose, Stays, poolVars
<1>3. CASE TimerStep
  BY <1>3, Facts, ThreadKinds
     DEF TimerStep, HandleTimeout, NextLate, EraseLate, ServerClose, ServerShut,
         ServerRecycle, Goto, Stays, poolVars
<1>4. CASE Close(t)
  BY <1>4, Facts, ThreadKinds
     DEF Close, CloseCount, CloseTest, CloseShut, CloseUnmap, CloseRecycle, Goto, Stays,
         poolVars
<1> QED BY <1>1, <1>2, <1>3, <1>4

LEMMA WorkersAcceptor ==
  ASSUME IType, Ways, Users, OneReactor, OwnConnections, AcceptorStep
  PROVE  OneReactor' /\ OwnConnections'
<1>1. \A u \in Reactors \cup Managers : pc'[u] = pc[u] /\ on'[u] = on[u]
  BY Facts, ThreadKinds
     DEF AcceptorStep, Accept, Open, AddConnect, Announce, Goto, CallClose
<1>2. CASE Accept \/ Open
  <2>1. UNCHANGED <<id, reg>>
    BY <1>2 DEF Accept, Open
  <2> QED BY <1>1, <2>1, StaysKeep DEF Stays
<1>3. CASE AddConnect
  <2>1. PICK h \in Handlers : h = on[Acceptor] /\ pc[Acceptor] = "add"
    BY <1>3, ThreadsOn DEF AddConnect
  <2>2. reg' = reg /\ \A g \in Handlers \ {h} : id'[g] = id[g]
    BY <1>3, <2>1, Facts DEF AddConnect
  <2>3. \A m \in Managers : pc[m] # "idle" => on[m] \in Handlers \ {h}
    BY <2>1, ThreadsOn, ThreadKinds DEF Users, Alone
  <2> QED BY <1>1, <2>2, <2>3 DEF OneReactor, OwnConnections
<1>4. CASE Announce
  <2>1. PICK h \in Handlers : h = on[Acceptor] /\ pc[Acceptor] = "announce"
    BY <1>4, ThreadsOn DEF Announce
  <2>2. id' = id /\ \A g \in Handlers \ {h} : reg'[g] = reg[g]
    BY <1>4, <2>1, Facts DEF Announce
  <2>3. \A r \in Reactors : pc[r] # "idle" => on[r] \in Handlers \ {h}
    BY <2>1, ThreadsOn, ReactorsAway
  <2> QED BY <1>1, <2>2, <2>3 DEF OneReactor, OwnConnections
<1> QED BY <1>2, <1>3, <1>4 DEF AcceptorStep

LEMMA WorkersNext ==
  ASSUME IType, Ways, Users, SInv, OneReactor, OwnConnections, [Next]_vars
  PROVE  OneReactor' /\ OwnConnections'
<1>1. ASSUME NEW r \in Reactors, Dispatch(r) PROVE OneReactor' /\ OwnConnections'
  <2>1. PICK h \in Handlers : reg[h] = r /\ on' = [on EXCEPT ![r] = h]
    BY <1>1 DEF Dispatch
  <2>2. /\ UNCHANGED <<id, reg>> /\ on'[r] = h /\ pc[r] = "idle"
        /\ \A u \in Threads \ {r} : pc'[u] = pc[u] /\ on'[u] = on[u]
    BY <1>1, <2>1, Facts, ThreadKinds DEF Dispatch, Goto, poolVars
  <2>3. \A q \in Reactors : pc[q] # "idle" => on[q] # h
    BY <2>1, <2>2, ThreadKinds DEF OneReactor
  <2>4. OwnConnections'
    BY <2>2, ThreadKinds DEF OwnConnections
  <2>5. OneReactor'
    BY <2>1, <2>2, <2>3, ThreadKinds DEF OneReactor
  <2> QED BY <2>4, <2>5
<1>2. ASSUME NEW m \in Managers, FindConnection(m) PROVE OneReactor' /\ OwnConnections'
  <2> DEFINE c == Head(queue[m])
  <2>1. c \in Ids /\ ManagerOf(c) = m
    BY <1>2 DEF FindConnection, SInv, QueuesAreOwn, IType, TypeOK, TableTypes
  <2>2. /\ UNCHANGED <<id, reg>>
        /\ \A u \in Threads \ {m} : pc'[u] = pc[u] /\ on'[u] = on[u]
        /\ pc'[m] = "idle" \/ (map[c] # NoHandler /\ on'[m] = map[c])
    BY <1>2, Facts, ThreadKinds DEF FindConnection, Goto, poolVars
  <2>3. map[c] # NoHandler => id[map[c]] = c
    BY <2>1 DEF Users, Current
  <2>4. OwnConnections'
    BY <2>1, <2>2, <2>3, ThreadKinds DEF OwnConnections
  <2>5. OneReactor'
    BY <2>2, ThreadKinds DEF OneReactor
  <2> QED BY <2>4, <2>5
<1>3. CASE \/ \E c \in Ids : PostMessage(c) \/ CloseConnect(c)
           \/ \E h \in Handlers : GoSilent(h)
           \/ UNCHANGED vars
  <2>1. UNCHANGED <<id, reg, pc, on>>
    BY <1>3 DEF PostMessage, CloseConnect, GoSilent, vars, poolVars, threadVars
  <2> QED BY <2>1 DEF OneReactor, OwnConnections
<1>4. ASSUME NEW r \in Reactors, ReactorStep(r), ~Dispatch(r)
      PROVE  OneReactor' /\ OwnConnections'
  <2>1. r \in Threads \ {Acceptor}
    BY ThreadKinds
  <2> QED BY <1>4, <2>1, StaysOther, StaysKeep
<1>5. ASSUME NEW m \in Managers, SenderStep(m), ~FindConnection(m)
      PROVE  OneReactor' /\ OwnConnections'
  <2>1. m \in Threads \ {Acceptor}
    BY ThreadKinds
  <2> QED BY <1>5, <2>1, StaysOther, StaysKeep
<1>6. CASE TimerStep
  <2>1. Timer \in Threads \ {Acceptor}
    BY ThreadKinds
  <2> QED BY <1>6, <2>1, StaysOther, StaysKeep
<1>7. ASSUME NEW t \in Threads, Close(t) PROVE OneReactor' /\ OwnConnections'
  <2>1. CASE t = Acceptor
    <3>1. /\ UNCHANGED id /\ on' = on
          /\ \A h \in Handlers : reg'[h] \in {reg[h], NoThread}
          /\ \A u \in Reactors \cup Managers : pc'[u] = pc[u]
      BY <1>7, <2>1, Facts, ThreadKinds
         DEF Close, CloseCount, CloseTest, CloseShut, CloseUnmap, CloseRecycle, Goto, poolVars
    <3> QED BY <3>1, StaysKeep DEF Stays
  <2>2. CASE t # Acceptor
    BY <1>7, <2>2, StaysOther, StaysKeep
  <2> QED BY <2>1, <2>2
<1> QED BY <1>1, <1>2, <1>3, <1>4, <1>5, <1>6, <1>7, WorkersAcceptor DEF Next

-----------------------------------------------------------------------------
(* What comes before Close(2)                                              *)

LEMMA BeforeCloseKeeps ==
  ASSUME IType, Ways, Unclosed, NEW t \in Threads, OthersCount(t), closing' \subseteq closing,
         \A h \in Handlers : reg'[h] \in {reg[h], NoThread}, BeforeClose(t)'
  PROVE  Unclosed'
<1>1. ASSUME NEW u \in Threads PROVE BeforeClose(u)'
  <2>1. CASE u = t
    BY <2>1
  <2>2. CASE u # t
    <3>1. pc'[u] = pc[u] /\ on'[u] = on[u] /\ back'[u] = back[u] /\ less'[u] = less[u]
      BY <2>2 DEF OthersCount
    <3>2. u \in Reactors /\ pc[u] # "idle" => on[u] \in Handlers
      BY ThreadsOn
    <3> QED BY <3>1, <3>2 DEF Unclosed, BeforeClose, Inside, CloseSteps
  <2> QED BY <2>1, <2>2
<1> QED BY <1>1 DEF Unclosed

LEMMA UnclosedAcceptor ==
  ASSUME IType, Ways, Users, Unclosed, AcceptorStep
  PROVE  Unclosed'
<1>1. /\ OthersCount(Acceptor) /\ closing' \subseteq closing
      /\ pc'[Acceptor] = "dec" => back'[Acceptor] = "idle"
  BY Facts, ThreadKinds
     DEF AcceptorStep, Accept, Open, AddConnect, Announce, Goto, CallClose, OthersCount,
         histVars
<1>2. BeforeClose(Acceptor)'
  BY <1>1, ThreadKinds DEF BeforeClose
<1>3. CASE Accept \/ Open \/ AddConnect
  <2>1. reg' = reg
    BY <1>3 DEF Accept, Open, AddConnect
  <2> QED BY <1>1, <1>2, <2>1, ThreadKinds, BeforeCloseKeeps
<1>4. CASE Announce
  <2>1. PICK h \in Handlers : h = on[Acceptor] /\ pc[Acceptor] = "announce"
    BY <1>4, ThreadsOn DEF Announce
  <2>2. closing' = closing /\ \A g \in Handlers \ {h} : reg'[g] = reg[g]
    BY <1>4, <2>1, Facts DEF Announce
  <2>3. h \notin closing
    BY <2>1 DEF Users, Opening
  <2>4. \A r \in Reactors : pc[r] # "idle" => on[r] \in Handlers \ {h}
    BY <2>1, ThreadsOn, ReactorsAway
  <2>5. ASSUME NEW t \in Threads PROVE BeforeClose(t)'
    <3>1. CASE t = Acceptor
      BY <1>2, <3>1
    <3>2. CASE t # Acceptor
      <4>1. pc'[t] = pc[t] /\ on'[t] = on[t] /\ back'[t] = back[t] /\ less'[t] = less[t]
        BY <1>1, <3>2 DEF OthersCount
      <4> QED BY <2>2, <2>4, <4>1 DEF Unclosed, BeforeClose, Inside, CloseSteps
    <3> QED BY <3>1, <3>2
  <2> QED BY <2>2, <2>3, <2>5 DEF Unclosed
<1> QED BY <1>3, <1>4 DEF AcceptorStep

LEMMA UnclosedReactor ==
  ASSUME IType, Ways, Unclosed, NEW r \in Reactors, ReactorStep(r)
  PROVE  Unclosed'
<1>0. r \in Threads /\ (pc[r] # "idle" => on[r] \in Handlers) /\ BeforeClose(r)
  BY ThreadKinds, ThreadsOn DEF Unclosed
<1>1. /\ OthersCount(r) /\ closing' = closing
      /\ \A h \in Handlers : reg'[h] \in {reg[h], NoThread}
  BY <1>0, Facts DEF ReactorStep, Dispatch, HandleInput, RecvData, ReturnInput, DropHandler,
                     Goto, CallClose, OthersCount, histVars, poolVars
<1>2. CASE Dispatch(r)
  <2>1. PICK h \in Handlers : reg[h] = r /\ on' = [on EXCEPT ![r] = h]
    BY <1>2 DEF Dispatch
  <2>2. h \notin closing /\ on'[r] = h /\ pc'[r] \in {"input", "failed"}
    BY <1>0, <1>2, <2>1, Facts, ThreadKinds DEF Dispatch, Goto, Unclosed
  <2> QED BY <1>0, <1>1, <2>2, BeforeCloseKeeps DEF BeforeClose, CloseSteps
<1>3. CASE HandleInput(r)
  <2>1. on' = on /\ pc[r] = "input" /\ pc'[r] \in {"recv", "failed"}
    BY <1>0, <1>3, Facts DEF HandleInput, Goto
  <2> QED BY <1>0, <1>1, <2>1, BeforeCloseKeeps DEF BeforeClose, CloseSteps
<1>4. CASE RecvData(r)
  <2>0. less'[r] # 2
    <3>1. less' = [less EXCEPT ![r] = 1]
      BY <1>4 DEF RecvData, CallClose
    <3> QED BY <1>0, <3>1, Facts
  <2>1. /\ on' = on /\ pc[r] = "recv" /\ pc'[r] = "dec"
        /\ back'[r] \in {"return_0", "return_1"}
    BY <1>0, <1>4, Facts DEF RecvData, CallClose
  <2>2. Inside(r) /\ on[r] \notin closing
    BY <1>0, <2>1 DEF BeforeClose, Inside
  <2>3. BeforeClose(r)'
    BY <1>1, <2>0, <2>1, <2>2 DEF BeforeClose
  <2> QED BY <1>0, <1>1, <2>3, BeforeCloseKeeps
<1>5. CASE ReturnInput(r)
  <2>1. /\ on' = on /\ pc[r] \in {"return_0", "return_1"} /\ pc'[r] \in {"idle", "failed"}
    BY <1>0, <1>5, Facts DEF ReturnInput, Goto
  <2> QED BY <1>0, <1>1, <2>1, BeforeCloseKeeps DEF BeforeClose, CloseSteps, Inside
<1>6. CASE DropHandler(r)
  <2>1. /\ on' = on /\ pc[r] = "failed"
        /\ \/ pc'[r] = "idle"
           \/ pc'[r] = "dec" /\ back'[r] = "idle" /\ reg'[on[r]] = NoThread
    BY <1>0, <1>6, Facts DEF DropHandler, Goto, CallClose
  <2> QED BY <1>0, <1>1, <2>1, BeforeCloseKeeps DEF BeforeClose, CloseSteps, Inside
<1> QED BY <1>2, <1>3, <1>4, <1>5, <1>6 DEF ReactorStep

LEMMA UnclosedSender ==
  ASSUME LimitSends = FALSE, IType, Ways, Unclosed, NEW m \in Managers, SenderStep(m)
  PROVE  Unclosed'
<1>1. /\ OthersCount(m) /\ UNCHANGED <<closing, reg>> /\ m \in Threads /\ m \notin Reactors
      /\ pc[m] \notin CloseSteps /\ (pc'[m] = "dec" => less'[m] = 1)
  BY Facts, ThreadKinds
     DEF SenderStep, FindConnection, SendMessage, PutSendPacket, SetSendQueueTimeCost,
         ReturnSend, Goto, CallClose, OthersCount, histVars, poolVars, CloseSteps
<1> QED BY <1>1, BeforeCloseKeeps DEF BeforeClose

LEMMA UnclosedTimer == ASSUME IType, Ways, Unclosed, TimerStep PROVE Unclosed'
<1>1. /\ OthersCount(Timer) /\ closing' = closing /\ pc'[Timer] # "dec"
      /\ \A h \in Handlers : reg'[h] \in {reg[h], NoThread}
  BY Facts, ThreadKinds
     DEF TimerStep, HandleTimeout, NextLate, EraseLate, ServerClose, ServerShut,
         ServerRecycle, Goto, OthersCount, histVars, poolVars
<1> QED BY <1>1, ThreadKinds, BeforeCloseKeeps DEF BeforeClose

LEMMA UnclosedClose ==
  ASSUME IType, Ways, Users, OneReactor, Counts, Unclosed, NEW t \in Threads, Close(t)
  PROVE  Unclosed'
<1>0. on[t] \in Handlers /\ BeforeClose(t) /\ pc[t] \in CloseSteps
  BY OnFacts DEF Close, CloseCount, CloseTest, CloseShut, CloseUnmap, CloseRecycle, Unclosed,
                 CloseSteps
<1>1. /\ OthersCount(t) /\ UNCHANGED <<on, less, back>>
      /\ \A h \in Handlers : reg'[h] \in {reg[h], NoThread}
  BY Facts DEF Close, CloseCount, CloseTest, CloseShut, CloseUnmap, CloseRecycle, Goto,
               OthersCount, poolVars
<1>2. back[t] \in {"idle", "return_0", "return_1", "cost", "return"}
  BY DEF IType, BackKind
<1>3. CASE CloseTest(t)
  <2>1. /\ closing' = closing /\ pc[t] = "test"
        /\ \/ pc'[t] = back[t]
           \/ pc'[t] = "shut" /\ count[on[t]] = 0
    BY <1>3, Facts DEF CloseTest, Goto
  <2>2. on[t] \notin closing => count[on[t]] # 0
    BY <1>0, CountedFinite DEF Counts
  <2>3. t \in Reactors => back[t] \in {"idle", "return_0", "return_1"}
    BY <1>0 DEF Ways, ReactorWay
  <2>4. BeforeClose(t)'
    <3>1. CASE t \in Reactors
      BY <1>0, <1>1, <2>1, <2>2, <2>3, <3>1 DEF BeforeClose, Inside, CloseSteps
    <3>2. CASE t \notin Reactors
      BY <1>2, <2>1, <3>2 DEF BeforeClose
    <3> QED BY <3>1, <3>2
  <2> QED BY <1>1, <2>1, <2>4, BeforeCloseKeeps
<1>4. CASE CloseShut(t) \/ CloseUnmap(t) \/ CloseRecycle(t)
  <2>1. closing' = closing /\ pc[t] \in {"shut", "unmap", "recycle"}
        /\ pc'[t] \in {"unmap", "recycle", back[t]}
    BY <1>4, Facts DEF CloseShut, CloseUnmap, CloseRecycle, Goto, histVars
  <2>2. t \in Reactors => ~Inside(t) /\ back[t] = "idle"
    BY <1>0, <2>1 DEF BeforeClose, Inside, Ways, ReactorWay
  <2>3. BeforeClose(t)'
    BY <1>0, <1>1, <1>2, <2>1, <2>2 DEF BeforeClose, Inside, CloseSteps
  <2> QED BY <1>1, <2>1, <2>3, BeforeCloseKeeps
<1>5. CASE CloseCount(t) /\ less[t] = 1
  <2>1. closing' = closing /\ pc[t] = "dec" /\ pc'[t] = "test"
    BY <1>5, Facts DEF CloseCount, Goto
  <2>2. BeforeClose(t)'
    BY <1>0, <1>1, <2>1 DEF BeforeClose, Inside, CloseSteps
  <2> QED BY <1>1, <2>1, <2>2, BeforeCloseKeeps
<1>6. CASE CloseCount(t) /\ less[t] = 2
  <2>0. PICK h \in Handlers : h = on[t]
    BY <1>0
  <2>1. closing' = closing \cup {h} /\ pc[t] = "dec" /\ pc'[t] = "test" /\ reg' = reg
    BY <1>6, <2>0, Facts DEF CloseCount, Goto
  <2>2. back[t] = "idle"
    BY <1>0, <1>6, <2>1 DEF BeforeClose
  <2>3. t = Acceptor \/ t \in Reactors
    BY <1>0, <2>1, <2>2, ThreadKinds DEF Threads, Ways, SenderWay, TimerWay, CloseSteps
  <2>4. reg[h] = NoThread
    <3>1. CASE t = Acceptor
      BY <2>0, <2>1, <3>1 DEF Users, Alone, Unseen
    <3>2. CASE t \in Reactors
      BY <1>0, <2>0, <2>1, <2>2, <3>2 DEF BeforeClose
    <3> QED BY <2>3, <3>1, <3>2
  <2>5. \A r \in Reactors \ {t} : pc[r] # "idle" => on[r] # h
    <3>1. CASE t = Acceptor
      BY <2>0, <2>1, <3>1, ReactorsAway
    <3>2. CASE t \in Reactors
      BY <2>0, <2>1, <3>2 DEF OneReactor
    <3> QED BY <2>3, <3>1, <3>2
  <2>6. ASSUME NEW u \in Threads PROVE BeforeClose(u)'
    <3>1. CASE u = t
      BY <1>0, <1>1, <2>1, <2>2, <3>1 DEF BeforeClose, Inside, CloseSteps
    <3>2. CASE u # t
      <4>1. pc'[u] = pc[u] /\ BeforeClose(u)
        BY <1>1, <3>2 DEF OthersCount, Unclosed
      <4>2. u \in Reactors /\ pc[u] # "idle" => on[u] # h
        BY <2>5, <3>2
      <4> QED BY <1>1, <2>1, <4>1, <4>2 DEF BeforeClose, Inside, CloseSteps
    <3> QED BY <3>1, <3>2
  <2>7. \A g \in Handlers : reg'[g] # NoThread => g \notin closing'
    BY <2>1, <2>4 DEF Unclosed
  <2> QED BY <2>6, <2>7 DEF Unclosed
<1> QED BY <1>3, <1>4, <1>5, <1>6, Facts DEF Close

LEMMA UnclosedNext ==
  ASSUME LimitSends = FALSE, IType, Ways, Users, OneReactor, Counts, Unclosed, [Next]_vars
  PROVE  Unclosed'
<1>1. CASE \/ \E c \in Ids : PostMessage(c) \/ CloseConnect(c)
           \/ \E h \in Handlers : GoSilent(h)
           \/ UNCHANGED vars
  <2>1. UNCHANGED <<reg, closing, pc, on, back, less>>
    BY <1>1 DEF PostMessage, CloseConnect, GoSilent, vars, poolVars, threadVars, histVars
  <2>2. ASSUME NEW t \in Threads PROVE BeforeClose(t)'
    BY <2>1 DEF Unclosed, BeforeClose, Inside
  <2> QED BY <2>1, <2>2 DEF Unclosed
<1> QED BY <1>1, UnclosedAcceptor, UnclosedReactor, UnclosedSender, UnclosedTimer,
           UnclosedClose DEF Next

-----------------------------------------------------------------------------
(* No cycle                                                                *)

CleanLocks ==
  Users /\ Owners /\ Counts /\ InsideHolds /\ OneReactor /\ OwnConnections /\ Unclosed

LInv == IType /\ Ways /\ SInv /\ HoldersKnown /\ (clean => CleanLocks)

LEMMA LocksInit == Init => LInv
<1> SUFFICES ASSUME Init PROVE LInv
  OBVIOUS
<1>1. \A t \in Threads : pc[t] = "idle"
  BY DEF Init
<1>2. HoldersKnown
  BY DEF Init, HoldersKnown
<1>3. InsideHolds
  BY <1>1, ThreadKinds DEF InsideHolds, Inside, CloseSteps
<1>4. OneReactor /\ OwnConnections
  BY <1>1, ThreadKinds DEF OneReactor, OwnConnections
<1>5. ASSUME NEW t \in Threads PROVE BeforeClose(t)
  BY <1>1 DEF BeforeClose, Inside, CloseSteps
<1>6. Unclosed
  BY <1>5 DEF Init, Unclosed
<1> QED BY <1>2, <1>3, <1>4, <1>6, LifeInit, CountsInit, SendersInit
        DEF LInv, CleanLocks, Life

LEMMA LocksNext == LimitSends = FALSE /\ LInv /\ [Next]_vars => LInv'
<1> SUFFICES ASSUME LimitSends = FALSE, LInv, [Next]_vars PROVE LInv'
  OBVIOUS
<1>1. IType' /\ Ways' /\ SInv' /\ HoldersKnown'
  BY TypeNext, WaysNext, SendersNext, HoldersNext DEF LInv
<1>2. ASSUME clean' PROVE CleanLocks'
  <2>1. CleanLocks
    BY <1>2, CleanStays DEF LInv
  <2>2. Users' /\ Owners' /\ Counts'
    BY <1>2, <2>1, UsersNext, OwnersNext, CountsNext DEF LInv, CleanLocks
  <2>3. InsideHolds'
    BY <2>1, HoldersNext DEF LInv, CleanLocks
  <2>4. OneReactor' /\ OwnConnections'
    BY <2>1, WorkersNext DEF LInv, CleanLocks
  <2>5. Unclosed'
    BY <2>1, UnclosedNext DEF LInv, CleanLocks
  <2> QED BY <2>2, <2>3, <2>4, <2>5 DEF CleanLocks
<1> QED BY <1>1, <1>2 DEF LInv

\* Whoever holds the lock of a handler and may be waited for does not wait.
LEMMA HoldersDoNotWait ==
  ASSUME LInv, clean, NEW t \in Threads, NEW u \in Threads, NEW v \in Threads,
         pc[t] \in {"open", "input", "send", "cost", "dec"}, WaitsFor(t, u), WaitsFor(u, v)
  PROVE  FALSE
<1>1. IType /\ Ways /\ Users /\ HoldersKnown /\ InsideHolds /\ Unclosed
  BY DEF LInv, CleanLocks
<1>2. on[t] \in Handlers /\ Busy(t, on[t])
  BY <1>1, OnFacts DEF Busy
<1>3. t # u /\ hlock[on[t]] = u /\ u # NoThread
  BY ThreadKinds DEF WaitsFor, Holder
<1>4. on[u] = on[t]
  BY <1>1, <1>2, <1>3 DEF HoldersKnown
<1>5. CASE u = Acceptor
  <2>1. pc[u] \in {"add", "announce"}
    BY <1>1, <1>2, <1>3, <1>5, ThreadKinds DEF HoldersKnown
  <2>2. pc[u] # "add"
    BY <1>1, <1>2, <1>3, <1>4, <1>5 DEF Users, Alone
  <2> QED BY <2>1, <2>2, ThreadKinds DEF WaitsFor, Holder
<1>6. CASE u # Acceptor
  <2>1. u \in Reactors /\ Inside(u)
    BY <1>1, <1>2, <1>3, <1>6 DEF HoldersKnown
  <2>2. hlock[on[u]] = u
    BY <1>3, <1>4
  <2>3. pc[u] \notin {"open", "input", "send", "cost", "add", "unmap", "erase"}
    <3>1. BeforeClose(u)
      BY <1>1 DEF Unclosed
    <3> QED BY <2>1, <3>1 DEF BeforeClose, Inside, CloseSteps
  <2> QED BY <2>2, <2>3, ThreadKinds DEF WaitsFor, Holder
<1> QED BY <1>5, <1>6

\* Only send threads, which hold the locks of the managers, are waited for and
\* wait themselves, and they do not wait for the lock of a manager.
LEMMA WaitedFor ==
  ASSUME LInv, clean, NEW t \in Threads, NEW u \in Threads, NEW v \in Threads,
         WaitsFor(t, u), WaitsFor(u, v)
  PROVE  u \in Managers /\ t \notin Managers
<1>1. IType /\ Ways /\ Users /\ OwnConnections /\ LocksAreOwn
  BY DEF LInv, CleanLocks, SInv
<1>2. t # u /\ u # NoThread
  BY ThreadKinds DEF WaitsFor
<1>3. CASE pc[t] \in {"open", "input", "send", "cost", "dec"}
  BY <1>3, HoldersDoNotWait
<1>4. CASE pc[t] = "add"
  <2>1. u = mlock[ManagerOf(lastId + 1)]
    BY <1>4 DEF WaitsFor, Holder
  <2>2. ManagerOf(lastId + 1) \in Managers
    BY <1>1, Numbers, ManagersOfIds DEF IType
  <2>3. t \notin Managers
    BY <1>1, <1>4 DEF Ways, SenderWay, CloseSteps
  <2> QED BY <1>1, <1>2, <2>1, <2>2, <2>3 DEF LocksAreOwn
<1>5. CASE pc[t] = "unmap"
  <2>1. u = mlock[ManagerOf(cid[t])]
    BY <1>5 DEF WaitsFor, Holder
  <2>2. ManagerOf(cid[t]) \in Managers
    BY <1>1, Facts, ManagersOfIds, BoundsAssumption DEF Ids
  <2>3. u = ManagerOf(cid[t])
    BY <1>1, <1>2, <2>1, <2>2 DEF LocksAreOwn
  <2>4. cid[t] = id[on[t]]
    BY <1>1, <1>5 DEF Users, CutOf
  <2>5. t \in Managers => ManagerOf(id[on[t]]) = t
    BY <1>1, <1>5 DEF OwnConnections
  <2> QED BY <1>2, <2>2, <2>3, <2>4, <2>5
<1>6. CASE pc[t] = "erase"
  <2>1. u = mlock[whose] /\ whose \in Managers
    BY <1>1, <1>6 DEF WaitsFor, Holder, IType, TypeOK, ThreadTypes
  <2>2. t \notin Managers
    BY <1>1, <1>6 DEF Ways, SenderWay, CloseSteps
  <2> QED BY <1>1, <1>2, <2>1, <2>2 DEF LocksAreOwn
<1>7. CASE pc[t] \notin {"open", "input", "send", "cost", "dec", "add", "unmap", "erase"}
  BY <1>2, <1>7 DEF WaitsFor, Holder
<1> QED BY <1>3, <1>4, <1>5, <1>6, <1>7

\* No threads wait for each other, however many reactors and managers there are,
\* as long as no handler was recycled under a thread and ClientDataAlert sets no
\* limit: open and RecvData take the lock of a handler, send threads that of a
\* manager, before the other one.
THEOREM NoThreadsInACycle ==
  ASSUME LimitSends = FALSE
  PROVE  Spec => []NoLockCycle
<1>1. LInv => NoLockCycle
  <2> SUFFICES ASSUME LInv, clean, NEW W \in (SUBSET Threads) \ {{}},
                      \A t \in W : \E u \in W : WaitsFor(t, u)
               PROVE  FALSE
    BY DEF NoLockCycle
  <2>1. PICK t \in W : TRUE
    OBVIOUS
  <2>2. PICK u \in W : WaitsFor(t, u)
    OBVIOUS
  <2>3. PICK v \in W : WaitsFor(u, v)
    OBVIOUS
  <2>4. PICK w \in W : WaitsFor(v, w)
    OBVIOUS
  <2>5. t \in Threads /\ u \in Threads /\ v \in Threads /\ w \in Threads
    OBVIOUS
  <2>6. u \in Managers
    BY <2>2, <2>3, <2>5, WaitedFor
  <2>7. u \notin Managers
    BY <2>3, <2>4, <2>5, WaitedFor
  <2> QED BY <2>6, <2>7
<1>2. LInv /\ [Next]_vars => LInv'
  BY LocksNext
<1> QED BY LocksInit, <1>1, <1>2, PTL DEF Spec
=============================================================================
