------------------------ MODULE ConnectHandler_proofs ------------------------
(***************************************************************************)
(* Types of the connections, and that the connection of a sender stays in  *)
(* the table, for every number of handlers, reactors and managers.         *)
(*                                                                         *)
(* TypeOK is not inductive alone: a step reads the ConnectID of the        *)
(* handler the thread is on (OnKnown), Close returns to where it was       *)
(* called (BackKind), and AddConnect numbers no more connections than were *)
(* accepted (LastBelowAccepted).                                           *)
(***************************************************************************)
EXTENDS ConnectHandler, SequenceTheorems, TLAPS

\* Where the calls of Close return to.
BackKind == \A t \in Threads : back[t] \in {"idle", "return_0", "return_1", "cost", "return"}

\* A thread inside a call knows its handler; the timer between two does not.
OnKnown == \A t \in Threads : pc[t] \notin {"idle", "next"} => on[t] \in Handlers

\* Each socket accepted is numbered at most once, after it was accepted.
LastBelowAccepted ==
  lastId + (IF pc[Acceptor] \in {"open", "add"} THEN 1 ELSE 0) <= accepted

IType == TypeOK /\ BackKind /\ OnKnown /\ LastBelowAccepted

-----------------------------------------------------------------------------
(* Types                                                                   *)

LEMMA ManagersOfIds == \A c \in Nat : ManagerOf(c) \in Managers
BY ManagersAssumption, SMT DEF ManagerOf, Managers

LEMMA ThreadKinds ==
  /\ Acceptor \in Threads /\ Timer \in Threads
  /\ Reactors \subseteq Threads /\ Managers \subseteq Threads
  /\ \A r \in Reactors : r # Acceptor /\ r # Timer /\ r \notin Managers
  /\ \A m \in Managers : m # Acceptor /\ m # Timer
  /\ Acceptor # Timer
  /\ NoThread \notin Threads
BY ThreadsAssumption DEF Threads

LEMMA Numbers ==
  ASSUME TypeOK
  PROVE  /\ lastId \in Nat /\ accepted \in Nat /\ accepted <= MaxConns
         /\ MaxConns \in Nat /\ 0 \in Ids /\ pc \in [Threads -> Steps]
BY BoundsAssumption DEF TypeOK, TableTypes, ThreadTypes, Ids

LEMMA TypeInit == Init => IType
<1> SUFFICES ASSUME Init PROVE IType
  OBVIOUS
<1>1. 0 \in Ids /\ 0 \in 0 .. MaxPosts
  BY BoundsAssumption DEF Ids
<1>2. PoolTypes /\ LockTypes
  BY <1>1 DEF Init, PoolTypes, LockTypes
<1>3. TableTypes
  BY <1>1 DEF Init, TableTypes
<1>4. ThreadTypes
  <2>1. 0 \in Managers
    BY ManagersAssumption DEF Managers
  <2> QED BY <1>1, <2>1 DEF Init, ThreadTypes, Steps
<1>5. HistoryTypes
  BY DEF Init, HistoryTypes
<1>6. BackKind /\ OnKnown /\ LastBelowAccepted
  BY ThreadKinds DEF Init, BackKind, OnKnown, LastBelowAccepted
<1> QED BY <1>2, <1>3, <1>4, <1>5, <1>6 DEF IType, TypeOK

\* Acceptor.
LEMMA TypeAccept ==
  ASSUME IType, Accept
  PROVE  IType'
<1>1. PoolTypes'
  BY BoundsAssumption DEF IType, TypeOK, PoolTypes, TableTypes, Ids, Accept, Goto,
     tableVars, histVars
<1>2. TableTypes'
  BY BoundsAssumption, ThreadKinds DEF IType, TypeOK, TableTypes, Ids, Accept, Goto,
     tableVars, histVars
<1>3. ThreadTypes'
  <2>1. pc' \in [Threads -> Steps]
    BY ThreadKinds DEF IType, TypeOK, ThreadTypes, Steps, Accept, Goto
  <2>2. on' \in [Threads -> Handlers \cup {NoHandler}]
    BY ThreadKinds DEF IType, TypeOK, ThreadTypes, Accept
  <2> QED
    BY <2>1, <2>2 DEF IType, TypeOK, ThreadTypes, Accept, Goto, tableVars, histVars
<1>4. OnKnown'
  BY ThreadKinds DEF IType, TypeOK, OnKnown, ThreadTypes, Accept, Goto, tableVars,
     histVars
<1>5. LastBelowAccepted'
  BY ThreadKinds, Numbers DEF IType, TypeOK, LastBelowAccepted, ThreadTypes, Accept,
     Goto, tableVars, histVars
<1>6. LockTypes' /\ HistoryTypes' /\ BackKind'
  BY DEF IType, TypeOK, LockTypes, HistoryTypes, BackKind, Accept, Goto, tableVars,
     histVars
<1> QED BY <1>1, <1>2, <1>3, <1>4, <1>5, <1>6 DEF IType, TypeOK

LEMMA TypeOpen ==
  ASSUME IType, Open
  PROVE  IType'
<1>1. on[Acceptor] \in Handlers
  BY ThreadKinds DEF IType, OnKnown, Open
<1>2. PoolTypes'
  BY <1>1 DEF IType, TypeOK, PoolTypes, Open, Goto, CallClose, tableVars, boundVars
<1>3. LockTypes'
  BY <1>1, ThreadKinds DEF IType, TypeOK, LockTypes, ThreadTypes, Open, Goto, CallClose,
     tableVars, boundVars
<1>4. ThreadTypes'
  <2>1. pc' \in [Threads -> Steps]
    BY ThreadKinds DEF IType, TypeOK, ThreadTypes, Steps, Open, Goto, CallClose
  <2>2. less' \in [Threads -> 1 .. 2]
    BY ThreadKinds DEF IType, TypeOK, ThreadTypes, Open, CallClose
  <2>3. back' \in [Threads -> Steps]
    BY ThreadKinds DEF IType, TypeOK, ThreadTypes, Steps, Open, CallClose
  <2> QED
    BY <2>1, <2>2, <2>3 DEF IType, TypeOK, ThreadTypes, Open, Goto, CallClose,
       tableVars, boundVars
<1>5. HistoryTypes'
  BY <1>1 DEF IType, TypeOK, HistoryTypes, Open, Goto, CallClose, tableVars, boundVars
<1>6. BackKind'
  BY <1>1, ThreadKinds DEF IType, TypeOK, BackKind, ThreadTypes, Open, Goto, CallClose,
     tableVars, boundVars
<1>7. OnKnown'
  BY <1>1, ThreadKinds DEF IType, TypeOK, OnKnown, ThreadTypes, Open, Goto, CallClose,
     tableVars, boundVars
<1>8. LastBelowAccepted'
  BY <1>1, ThreadKinds, Numbers DEF IType, TypeOK, LastBelowAccepted, ThreadTypes, Open,
     Goto, CallClose, tableVars, boundVars
<1>9. TableTypes'
  BY DEF IType, TypeOK, TableTypes, Open, Goto, CallClose, tableVars, boundVars
<1> QED BY <1>2, <1>3, <1>4, <1>5, <1>6, <1>7, <1>8, <1>9 DEF IType, TypeOK

LEMMA TypeAddConnect ==
  ASSUME IType, AddConnect
  PROVE  IType'
<1>1. on[Acceptor] \in Handlers /\ lastId + 1 \in Ids /\ lastId + 1 <= accepted
  <2>1. on[Acceptor] \in Handlers
    BY ThreadKinds DEF IType, OnKnown, AddConnect
  <2>2. lastId + 1 <= accepted
    BY Numbers DEF IType, LastBelowAccepted, AddConnect
  <2> QED
    BY <2>1, <2>2, Numbers DEF IType, Ids
<1>2. PoolTypes'
  BY <1>1 DEF IType, TypeOK, PoolTypes, AddConnect, Goto, boundVars, histVars
<1>3. TableTypes'
  BY <1>1, ThreadKinds DEF IType, TypeOK, TableTypes, ThreadTypes, AddConnect, Goto,
     boundVars, histVars
<1>4. ThreadTypes'
  <2>1. pc' \in [Threads -> Steps]
    BY ThreadKinds DEF IType, TypeOK, ThreadTypes, Steps, AddConnect, Goto
  <2> QED
    BY <2>1 DEF IType, TypeOK, ThreadTypes, AddConnect, Goto, boundVars, histVars
<1>5. OnKnown'
  BY <1>1, ThreadKinds DEF IType, TypeOK, OnKnown, ThreadTypes, AddConnect, Goto,
     boundVars, histVars
<1>6. LastBelowAccepted'
  BY <1>1, ThreadKinds, Numbers DEF IType, TypeOK, LastBelowAccepted, ThreadTypes,
     AddConnect, Goto, boundVars, histVars
<1>7. LockTypes' /\ HistoryTypes' /\ BackKind'
  BY DEF IType, TypeOK, LockTypes, HistoryTypes, BackKind, AddConnect, Goto, boundVars,
     histVars
<1> QED BY <1>2, <1>3, <1>4, <1>5, <1>6, <1>7 DEF IType, TypeOK

LEMMA TypeAnnounce ==
  ASSUME IType, Announce
  PROVE  IType'
<1>1. on[Acceptor] \in Handlers /\ id[on[Acceptor]] \in Ids
  BY ThreadKinds DEF IType, OnKnown, TypeOK, PoolTypes, Announce
<1>2. PoolTypes'
  BY <1>1, Numbers DEF IType, TypeOK, PoolTypes, Announce, Goto, CallClose, Tell,
     tableVars, boundVars
<1>3. LockTypes'
  BY <1>1, ThreadKinds DEF IType, TypeOK, LockTypes, ThreadTypes, Announce, Goto,
     CallClose, Tell, tableVars, boundVars
<1>4. ThreadTypes'
  <2>1. pc' \in [Threads -> Steps]
    BY ThreadKinds DEF IType, TypeOK, ThreadTypes, Steps, Announce, Goto, CallClose,
       Tell
  <2>2. less' \in [Threads -> 1 .. 2]
    BY ThreadKinds DEF IType, TypeOK, ThreadTypes, Announce, CallClose
  <2>3. back' \in [Threads -> Steps]
    BY ThreadKinds DEF IType, TypeOK, ThreadTypes, Steps, Announce, CallClose
  <2> QED
    BY <2>1, <2>2, <2>3 DEF IType, TypeOK, ThreadTypes, Announce, Goto, CallClose, Tell,
       tableVars, boundVars
<1>5. HistoryTypes'
  <2>1. told' \in [Kinds -> SUBSET Ids]
    BY <1>1 DEF IType, TypeOK, HistoryTypes, Kinds, Announce, Tell
  <2> QED
    BY <2>1 DEF IType, TypeOK, HistoryTypes, Announce, Goto, CallClose, Tell, tableVars,
       boundVars
<1>6. BackKind'
  BY <1>1, ThreadKinds DEF IType, TypeOK, BackKind, ThreadTypes, Announce, Goto,
     CallClose, Tell, tableVars, boundVars
<1>7. OnKnown'
  BY <1>1, ThreadKinds DEF IType, TypeOK, OnKnown, ThreadTypes, Announce, Goto,
     CallClose, Tell, tableVars, boundVars
<1>8. LastBelowAccepted'
  BY <1>1, ThreadKinds, Numbers DEF IType, TypeOK, LastBelowAccepted, ThreadTypes,
     Announce, Goto, CallClose, Tell, tableVars, boundVars
<1>9. TableTypes'
  BY DEF IType, TypeOK, TableTypes, Announce, Goto, CallClose, Tell, tableVars,
     boundVars
<1> QED BY <1>2, <1>3, <1>4, <1>5, <1>6, <1>7, <1>8, <1>9 DEF IType, TypeOK

\* Reactors.
LEMMA TypeDispatch ==
  ASSUME IType, NEW r \in Reactors, Dispatch(r)
  PROVE  IType'
<1>1. ThreadTypes'
  <2>1. pc' \in [Threads -> Steps]
    BY ThreadKinds DEF IType, TypeOK, ThreadTypes, Steps, Dispatch, Goto
  <2>2. on' \in [Threads -> Handlers \cup {NoHandler}]
    BY ThreadKinds DEF IType, TypeOK, ThreadTypes, PoolTypes, Dispatch
  <2>3. fd' \in [Threads -> Ids]
    BY ThreadKinds DEF IType, TypeOK, ThreadTypes, PoolTypes, Dispatch
  <2> QED
    BY <2>1, <2>2, <2>3 DEF IType, TypeOK, ThreadTypes, Dispatch, Goto, poolVars,
       tableVars, boundVars, histVars
<1>2. OnKnown'
  BY ThreadKinds DEF IType, TypeOK, OnKnown, ThreadTypes, Dispatch, Goto, poolVars,
     tableVars, boundVars, histVars
<1>3. LastBelowAccepted'
  BY ThreadKinds, Numbers DEF IType, TypeOK, LastBelowAccepted, ThreadTypes, Dispatch,
     Goto, poolVars, tableVars, boundVars, histVars
<1>4. PoolTypes' /\ LockTypes' /\ TableTypes' /\ HistoryTypes' /\ BackKind'
  BY DEF IType, TypeOK, PoolTypes, LockTypes, TableTypes, HistoryTypes, BackKind,
     Dispatch, Goto, poolVars, tableVars, boundVars, histVars
<1> QED BY <1>1, <1>2, <1>3, <1>4 DEF IType, TypeOK

LEMMA TypeHandleInput ==
  ASSUME IType, NEW r \in Reactors, HandleInput(r)
  PROVE  IType'
<1>1. on[r] \in Handlers /\ id[on[r]] \in Ids
  BY ThreadKinds DEF IType, OnKnown, TypeOK, PoolTypes, HandleInput
<1>2. PoolTypes'
  BY <1>1 DEF IType, TypeOK, PoolTypes, HandleInput, Goto, Tell, tableVars, boundVars
<1>3. LockTypes'
  BY <1>1, ThreadKinds DEF IType, TypeOK, LockTypes, ThreadTypes, HandleInput, Goto,
     Tell, tableVars, boundVars
<1>4. ThreadTypes'
  <2>1. pc' \in [Threads -> Steps]
    BY ThreadKinds DEF IType, TypeOK, ThreadTypes, Steps, HandleInput, Goto, Tell
  <2> QED
    BY <2>1 DEF IType, TypeOK, ThreadTypes, HandleInput, Goto, Tell, tableVars,
       boundVars
<1>5. HistoryTypes'
  <2>1. told' \in [Kinds -> SUBSET Ids]
    BY <1>1 DEF IType, TypeOK, HistoryTypes, Kinds, HandleInput, Tell
  <2> QED
    BY <2>1 DEF IType, TypeOK, HistoryTypes, HandleInput, Goto, Tell, tableVars,
       boundVars
<1>6. OnKnown'
  BY <1>1, ThreadKinds DEF IType, TypeOK, OnKnown, ThreadTypes, HandleInput, Goto, Tell,
     tableVars, boundVars
<1>7. LastBelowAccepted'
  BY <1>1, ThreadKinds, Numbers DEF IType, TypeOK, LastBelowAccepted, ThreadTypes,
     HandleInput, Goto, Tell, tableVars, boundVars
<1>8. TableTypes' /\ BackKind'
  BY DEF IType, TypeOK, TableTypes, BackKind, HandleInput, Goto, Tell, tableVars,
     boundVars
<1> QED BY <1>2, <1>3, <1>4, <1>5, <1>6, <1>7, <1>8 DEF IType, TypeOK

LEMMA TypeRecvData ==
  ASSUME IType, NEW r \in Reactors, RecvData(r)
  PROVE  IType'
<1>1. on[r] \in Handlers /\ id[on[r]] \in Ids
  BY ThreadKinds DEF IType, OnKnown, TypeOK, PoolTypes, RecvData
<1>2. PoolTypes'
  BY <1>1 DEF IType, TypeOK, PoolTypes, RecvData, Goto, CallClose, Tell, tableVars,
     boundVars
<1>3. ThreadTypes'
  <2>1. pc' \in [Threads -> Steps]
    BY ThreadKinds DEF IType, TypeOK, ThreadTypes, Steps, RecvData, Goto, CallClose,
       Tell
  <2>2. less' = [less EXCEPT ![r] = 1]
    BY DEF RecvData, CallClose
  <2>3. less' \in [Threads -> 1 .. 2]
    BY <2>2, ThreadKinds DEF IType, TypeOK, ThreadTypes
  <2>4. back' \in [Threads -> Steps]
    BY ThreadKinds DEF IType, TypeOK, ThreadTypes, Steps, RecvData, CallClose
  <2> QED
    BY <2>1, <2>2, <2>3, <2>4 DEF IType, TypeOK, ThreadTypes, RecvData, Goto, CallClose,
       Tell, tableVars, boundVars
<1>4. HistoryTypes'
  <2>1. told' \in [Kinds -> SUBSET Ids]
    BY <1>1 DEF IType, TypeOK, HistoryTypes, Kinds, RecvData, Tell
  <2> QED
    BY <2>1 DEF IType, TypeOK, HistoryTypes, RecvData, Goto, CallClose, Tell, tableVars,
       boundVars
<1>5. BackKind'
  BY <1>1, ThreadKinds DEF IType, TypeOK, BackKind, ThreadTypes, RecvData, Goto,
     CallClose, Tell, tableVars, boundVars
<1>6. OnKnown'
  BY <1>1, ThreadKinds DEF IType, TypeOK, OnKnown, ThreadTypes, RecvData, Goto,
     CallClose, Tell, tableVars, boundVars
<1>7. LastBelowAccepted'
  BY <1>1, ThreadKinds, Numbers DEF IType, TypeOK, LastBelowAccepted, ThreadTypes,
     RecvData, Goto, CallClose, Tell, tableVars, boundVars
<1>8. LockTypes' /\ TableTypes'
  BY DEF IType, TypeOK, LockTypes, TableTypes, RecvData, Goto, CallClose, Tell,
     tableVars, boundVars
<1> QED BY <1>2, <1>3, <1>4, <1>5, <1>6, <1>7, <1>8 DEF IType, TypeOK

LEMMA TypeReturnInput ==
  ASSUME IType, NEW r \in Reactors, ReturnInput(r)
  PROVE  IType'
<1>1. on[r] \in Handlers
  BY ThreadKinds DEF IType, OnKnown, ReturnInput
<1>2. LockTypes'
  BY <1>1, ThreadKinds DEF IType, TypeOK, LockTypes, ThreadTypes, ReturnInput, Goto,
     poolVars, tableVars, boundVars, histVars
<1>3. ThreadTypes'
  <2>1. pc' \in [Threads -> Steps]
    BY ThreadKinds DEF IType, TypeOK, ThreadTypes, Steps, ReturnInput, Goto
  <2> QED
    BY <2>1 DEF IType, TypeOK, ThreadTypes, ReturnInput, Goto, poolVars, tableVars,
       boundVars, histVars
<1>4. OnKnown'
  BY <1>1, ThreadKinds DEF IType, TypeOK, OnKnown, ThreadTypes, ReturnInput, Goto,
     poolVars, tableVars, boundVars, histVars
<1>5. LastBelowAccepted'
  BY <1>1, ThreadKinds, Numbers DEF IType, TypeOK, LastBelowAccepted, ThreadTypes,
     ReturnInput, Goto, poolVars, tableVars, boundVars, histVars
<1>6. PoolTypes' /\ TableTypes' /\ HistoryTypes' /\ BackKind'
  BY DEF IType, TypeOK, PoolTypes, TableTypes, HistoryTypes, BackKind, ReturnInput,
     Goto, poolVars, tableVars, boundVars, histVars
<1> QED BY <1>2, <1>3, <1>4, <1>5, <1>6 DEF IType, TypeOK

LEMMA TypeDropHandler ==
  ASSUME IType, NEW r \in Reactors, DropHandler(r)
  PROVE  IType'
<1>1. on[r] \in Handlers
  BY ThreadKinds DEF IType, OnKnown, DropHandler
<1>2. PoolTypes'
  BY <1>1, Numbers DEF IType, TypeOK, PoolTypes, DropHandler, Goto, CallClose,
     tableVars, boundVars, histVars
<1>3. ThreadTypes'
  <2>1. pc' \in [Threads -> Steps]
    BY ThreadKinds DEF IType, TypeOK, ThreadTypes, Steps, DropHandler, Goto, CallClose
  <2>2. less' \in [Threads -> 1 .. 2]
    BY ThreadKinds DEF IType, TypeOK, ThreadTypes, DropHandler, CallClose
  <2>3. back' \in [Threads -> Steps]
    BY ThreadKinds DEF IType, TypeOK, ThreadTypes, Steps, DropHandler, CallClose
  <2> QED
    BY <2>1, <2>2, <2>3 DEF IType, TypeOK, ThreadTypes, DropHandler, Goto, CallClose,
       tableVars, boundVars, histVars
<1>4. BackKind'
  BY <1>1, ThreadKinds DEF IType, TypeOK, BackKind, ThreadTypes, DropHandler, Goto,
     CallClose, tableVars, boundVars, histVars
<1>5. OnKnown'
  BY <1>1, ThreadKinds DEF IType, TypeOK, OnKnown, ThreadTypes, DropHandler, Goto,
     CallClose, tableVars, boundVars, histVars
<1>6. LastBelowAccepted'
  BY <1>1, ThreadKinds, Numbers DEF IType, TypeOK, LastBelowAccepted, ThreadTypes,
     DropHandler, Goto, CallClose, tableVars, boundVars, histVars
<1>7. LockTypes' /\ TableTypes' /\ HistoryTypes'
  BY DEF IType, TypeOK, LockTypes, TableTypes, HistoryTypes, DropHandler, Goto,
     CallClose, tableVars, boundVars, histVars
<1> QED BY <1>2, <1>3, <1>4, <1>5, <1>6, <1>7 DEF IType, TypeOK

\* Plugins and the console.
LEMMA TypePostMessage ==
  ASSUME IType, NEW c \in Ids, PostMessage(c)
  PROVE  IType'
<1>1. ManagerOf(c) \in Managers
  BY ManagersOfIds DEF Ids
<1>2. TableTypes'
  BY <1>1, BoundsAssumption, ThreadKinds DEF IType, TypeOK, TableTypes, PostMessage,
     poolVars, threadVars, histVars
<1>3. LastBelowAccepted'
  BY <1>1, ThreadKinds, Numbers DEF IType, TypeOK, LastBelowAccepted, ThreadTypes,
     PostMessage, poolVars, threadVars, histVars
<1>4. PoolTypes' /\ LockTypes' /\ ThreadTypes' /\ HistoryTypes' /\ BackKind' /\ OnKnown'
  BY DEF IType, TypeOK, PoolTypes, LockTypes, ThreadTypes, HistoryTypes, BackKind,
     OnKnown, PostMessage, poolVars, threadVars, histVars
<1> QED BY <1>2, <1>3, <1>4 DEF IType, TypeOK

LEMMA TypeCloseConnect ==
  ASSUME IType, NEW c \in Ids, CloseConnect(c)
  PROVE  IType'
<1>1. TableTypes'
  BY ThreadKinds DEF IType, TypeOK, TableTypes, CloseConnect, poolVars, boundVars,
     threadVars
<1>2. HistoryTypes'
  BY DEF IType, TypeOK, HistoryTypes, CloseConnect, poolVars, boundVars, threadVars
<1>3. LastBelowAccepted'
  BY ThreadKinds, Numbers DEF IType, TypeOK, LastBelowAccepted, ThreadTypes,
     CloseConnect, poolVars, boundVars, threadVars
<1>4. PoolTypes' /\ LockTypes' /\ ThreadTypes' /\ BackKind' /\ OnKnown'
  BY DEF IType, TypeOK, PoolTypes, LockTypes, ThreadTypes, BackKind, OnKnown,
     CloseConnect, poolVars, boundVars, threadVars
<1> QED BY <1>1, <1>2, <1>3, <1>4 DEF IType, TypeOK

\* Send threads.
LEMMA TypeFindConnection ==
  ASSUME IType, NEW m \in Managers, FindConnection(m)
  PROVE  IType'
<1>1. Head(queue[m]) \in Ids /\ Tail(queue[m]) \in Seq(Ids)
  BY HeadTailProperties DEF IType, TypeOK, TableTypes, FindConnection
<1>2. LockTypes'
  BY <1>1, ThreadKinds DEF IType, TypeOK, LockTypes, ThreadTypes, FindConnection, Goto,
     poolVars, boundVars, histVars
<1>3. TableTypes'
  BY <1>1, ThreadKinds DEF IType, TypeOK, TableTypes, FindConnection, Goto, poolVars,
     boundVars, histVars
<1>4. ThreadTypes'
  <2>1. pc' \in [Threads -> Steps]
    BY ThreadKinds DEF IType, TypeOK, ThreadTypes, Steps, FindConnection, Goto
  <2>2. on' \in [Threads -> Handlers \cup {NoHandler}]
    BY <1>1, ThreadKinds DEF IType, TypeOK, ThreadTypes, TableTypes, FindConnection
  <2>3. cid' \in [Threads -> Ids]
    BY <1>1, ThreadKinds DEF IType, TypeOK, ThreadTypes, TableTypes, FindConnection
  <2> QED
    BY <2>1, <2>2, <2>3 DEF IType, TypeOK, ThreadTypes, FindConnection, Goto, poolVars,
       boundVars, histVars
<1>5. OnKnown'
  BY <1>1, ThreadKinds DEF IType, TypeOK, OnKnown, ThreadTypes, TableTypes,
     FindConnection, Goto, poolVars, boundVars, histVars
<1>6. LastBelowAccepted'
  BY <1>1, ThreadKinds, Numbers DEF IType, TypeOK, LastBelowAccepted, ThreadTypes,
     FindConnection, Goto, poolVars, boundVars, histVars
<1>7. PoolTypes' /\ HistoryTypes' /\ BackKind'
  BY DEF IType, TypeOK, PoolTypes, HistoryTypes, BackKind, FindConnection, Goto,
     poolVars, boundVars, histVars
<1> QED BY <1>2, <1>3, <1>4, <1>5, <1>6, <1>7 DEF IType, TypeOK

LEMMA TypeSendMessage ==
  ASSUME IType, NEW m \in Managers, SendMessage(m)
  PROVE  IType'
<1>1. on[m] \in Handlers
  BY ThreadKinds DEF IType, OnKnown, SendMessage
<1>2. PoolTypes'
  BY <1>1 DEF IType, TypeOK, PoolTypes, SendMessage, Goto, tableVars, boundVars,
     histVars
<1>3. ThreadTypes'
  <2>1. pc' \in [Threads -> Steps]
    BY ThreadKinds DEF IType, TypeOK, ThreadTypes, Steps, SendMessage, Goto
  <2> QED
    BY <2>1 DEF IType, TypeOK, ThreadTypes, SendMessage, Goto, tableVars, boundVars,
       histVars
<1>4. OnKnown'
  BY <1>1, ThreadKinds DEF IType, TypeOK, OnKnown, ThreadTypes, SendMessage, Goto,
     tableVars, boundVars, histVars
<1>5. LastBelowAccepted'
  BY <1>1, ThreadKinds, Numbers DEF IType, TypeOK, LastBelowAccepted, ThreadTypes,
     SendMessage, Goto, tableVars, boundVars, histVars
<1>6. LockTypes' /\ TableTypes' /\ HistoryTypes' /\ BackKind'
  BY DEF IType, TypeOK, LockTypes, TableTypes, HistoryTypes, BackKind, SendMessage,
     Goto, tableVars, boundVars, histVars
<1> QED BY <1>2, <1>3, <1>4, <1>5, <1>6 DEF IType, TypeOK

LEMMA TypePutSendPacket ==
  ASSUME IType, NEW m \in Managers, PutSendPacket(m)
  PROVE  IType'
<1>1. on[m] \in Handlers
  BY ThreadKinds DEF IType, OnKnown, PutSendPacket
<1>2. ThreadTypes'
  <2>1. pc' \in [Threads -> Steps]
    BY ThreadKinds DEF IType, TypeOK, ThreadTypes, Steps, PutSendPacket, CallClose
  <2>2. less' \in [Threads -> 1 .. 2]
    BY ThreadKinds DEF IType, TypeOK, ThreadTypes, PutSendPacket, CallClose
  <2>3. back' \in [Threads -> Steps]
    BY ThreadKinds DEF IType, TypeOK, ThreadTypes, Steps, PutSendPacket, CallClose
  <2> QED
    BY <2>1, <2>2, <2>3 DEF IType, TypeOK, ThreadTypes, PutSendPacket, CallClose,
       poolVars, tableVars, boundVars
<1>3. HistoryTypes'
  BY <1>1, ThreadKinds DEF IType, TypeOK, HistoryTypes, PutSendPacket, CallClose,
     poolVars, tableVars, boundVars
<1>4. BackKind'
  BY <1>1, ThreadKinds DEF IType, TypeOK, BackKind, ThreadTypes, PutSendPacket,
     CallClose, poolVars, tableVars, boundVars
<1>5. OnKnown'
  BY <1>1, ThreadKinds DEF IType, TypeOK, OnKnown, ThreadTypes, PutSendPacket,
     CallClose, poolVars, tableVars, boundVars
<1>6. LastBelowAccepted'
  BY <1>1, ThreadKinds, Numbers DEF IType, TypeOK, LastBelowAccepted, ThreadTypes,
     PutSendPacket, CallClose, poolVars, tableVars, boundVars
<1>7. PoolTypes' /\ LockTypes' /\ TableTypes'
  BY DEF IType, TypeOK, PoolTypes, LockTypes, TableTypes, PutSendPacket, CallClose,
     poolVars, tableVars, boundVars
<1> QED BY <1>2, <1>3, <1>4, <1>5, <1>6, <1>7 DEF IType, TypeOK

LEMMA TypeSetSendQueueTimeCost ==
  ASSUME IType, NEW m \in Managers, SetSendQueueTimeCost(m)
  PROVE  IType'
<1>1. on[m] \in Handlers /\ id[on[m]] \in Ids
  BY ThreadKinds DEF IType, OnKnown, TypeOK, PoolTypes, SetSendQueueTimeCost
<1>2. PoolTypes'
  BY <1>1 DEF IType, TypeOK, PoolTypes, SetSendQueueTimeCost, CallClose, Tell,
     tableVars, boundVars
<1>3. ThreadTypes'
  <2>1. pc' \in [Threads -> Steps]
    BY ThreadKinds DEF IType, TypeOK, ThreadTypes, Steps, SetSendQueueTimeCost,
       CallClose, Tell
  <2>2. less' \in [Threads -> 1 .. 2]
    BY ThreadKinds DEF IType, TypeOK, ThreadTypes, SetSendQueueTimeCost, CallClose
  <2>3. back' \in [Threads -> Steps]
    BY ThreadKinds DEF IType, TypeOK, ThreadTypes, Steps, SetSendQueueTimeCost,
       CallClose
  <2> QED
    BY <2>1, <2>2, <2>3 DEF IType, TypeOK, ThreadTypes, SetSendQueueTimeCost, CallClose,
       Tell, tableVars, boundVars
<1>4. HistoryTypes'
  <2>1. told' \in [Kinds -> SUBSET Ids]
    BY <1>1 DEF IType, TypeOK, HistoryTypes, Kinds, SetSendQueueTimeCost, Tell
  <2> QED
    BY <2>1 DEF IType, TypeOK, HistoryTypes, SetSendQueueTimeCost, CallClose, Tell,
       tableVars, boundVars
<1>5. BackKind'
  BY <1>1, ThreadKinds DEF IType, TypeOK, BackKind, ThreadTypes, SetSendQueueTimeCost,
     CallClose, Tell, tableVars, boundVars
<1>6. OnKnown'
  BY <1>1, ThreadKinds DEF IType, TypeOK, OnKnown, ThreadTypes, SetSendQueueTimeCost,
     CallClose, Tell, tableVars, boundVars
<1>7. LastBelowAccepted'
  BY <1>1, ThreadKinds, Numbers DEF IType, TypeOK, LastBelowAccepted, ThreadTypes,
     SetSendQueueTimeCost, CallClose, Tell, tableVars, boundVars
<1>8. LockTypes' /\ TableTypes'
  BY DEF IType, TypeOK, LockTypes, TableTypes, SetSendQueueTimeCost, CallClose, Tell,
     tableVars, boundVars
<1> QED BY <1>2, <1>3, <1>4, <1>5, <1>6, <1>7, <1>8 DEF IType, TypeOK

LEMMA TypeReturnSend ==
  ASSUME IType, NEW m \in Managers, ReturnSend(m)
  PROVE  IType'
<1>1. LockTypes'
  BY ThreadKinds DEF IType, TypeOK, LockTypes, ThreadTypes, ReturnSend, Goto, poolVars,
     tableVars, boundVars, histVars
<1>2. ThreadTypes'
  <2>1. pc' \in [Threads -> Steps]
    BY ThreadKinds DEF IType, TypeOK, ThreadTypes, Steps, ReturnSend, Goto
  <2> QED
    BY <2>1 DEF IType, TypeOK, ThreadTypes, ReturnSend, Goto, poolVars, tableVars,
       boundVars, histVars
<1>3. OnKnown'
  BY ThreadKinds DEF IType, TypeOK, OnKnown, ThreadTypes, ReturnSend, Goto, poolVars,
     tableVars, boundVars, histVars
<1>4. LastBelowAccepted'
  BY ThreadKinds, Numbers DEF IType, TypeOK, LastBelowAccepted, ThreadTypes, ReturnSend,
     Goto, poolVars, tableVars, boundVars, histVars
<1>5. PoolTypes' /\ TableTypes' /\ HistoryTypes' /\ BackKind'
  BY DEF IType, TypeOK, PoolTypes, TableTypes, HistoryTypes, BackKind, ReturnSend, Goto,
     poolVars, tableVars, boundVars, histVars
<1> QED BY <1>1, <1>2, <1>3, <1>4, <1>5 DEF IType, TypeOK

\* The timer.
LEMMA TypeHandleTimeout ==
  ASSUME IType, NEW m \in Managers, HandleTimeout(m)
  PROVE  IType'
<1>1. ThreadTypes'
  <2>1. pc' \in [Threads -> Steps]
    BY ThreadKinds DEF IType, TypeOK, ThreadTypes, Steps, HandleTimeout, Goto
  <2>2. late' \in SUBSET Handlers /\ whose' \in Managers
    BY ThreadKinds DEF IType, TypeOK, ThreadTypes, TableTypes, HandleTimeout
  <2> QED
    BY <2>1, <2>2 DEF IType, TypeOK, ThreadTypes, HandleTimeout, Goto, poolVars,
       tableVars, boundVars, histVars
<1>2. OnKnown'
  BY ThreadKinds DEF IType, TypeOK, OnKnown, ThreadTypes, HandleTimeout, Goto, poolVars,
     tableVars, boundVars, histVars
<1>3. LastBelowAccepted'
  BY ThreadKinds, Numbers DEF IType, TypeOK, LastBelowAccepted, ThreadTypes,
     HandleTimeout, Goto, poolVars, tableVars, boundVars, histVars
<1>4. PoolTypes' /\ LockTypes' /\ TableTypes' /\ HistoryTypes' /\ BackKind'
  BY DEF IType, TypeOK, PoolTypes, LockTypes, TableTypes, HistoryTypes, BackKind,
     HandleTimeout, Goto, poolVars, tableVars, boundVars, histVars
<1> QED BY <1>1, <1>2, <1>3, <1>4 DEF IType, TypeOK

LEMMA TypeNextLate ==
  ASSUME IType, NextLate
  PROVE  IType'
<1>1. ThreadTypes'
  <2>1. pc' \in [Threads -> Steps]
    BY ThreadKinds DEF IType, TypeOK, ThreadTypes, Steps, NextLate, Goto
  <2>2. on' \in [Threads -> Handlers \cup {NoHandler}]
    BY ThreadKinds DEF IType, TypeOK, ThreadTypes, PoolTypes, NextLate
  <2>3. cid' \in [Threads -> Ids]
    BY ThreadKinds DEF IType, TypeOK, ThreadTypes, PoolTypes, NextLate
  <2>4. late' \in SUBSET Handlers
    BY ThreadKinds DEF IType, TypeOK, ThreadTypes, PoolTypes, NextLate
  <2> QED
    BY <2>1, <2>2, <2>3, <2>4 DEF IType, TypeOK, ThreadTypes, NextLate, Goto, poolVars,
       tableVars, boundVars, histVars
<1>2. OnKnown'
  BY ThreadKinds DEF IType, TypeOK, OnKnown, ThreadTypes, NextLate, Goto, poolVars,
     tableVars, boundVars, histVars
<1>3. LastBelowAccepted'
  BY ThreadKinds, Numbers DEF IType, TypeOK, LastBelowAccepted, ThreadTypes, NextLate,
     Goto, poolVars, tableVars, boundVars, histVars
<1>4. PoolTypes' /\ LockTypes' /\ TableTypes' /\ HistoryTypes' /\ BackKind'
  BY DEF IType, TypeOK, PoolTypes, LockTypes, TableTypes, HistoryTypes, BackKind,
     NextLate, Goto, poolVars, tableVars, boundVars, histVars
<1> QED BY <1>1, <1>2, <1>3, <1>4 DEF IType, TypeOK

LEMMA TypeEraseLate ==
  ASSUME IType, EraseLate
  PROVE  IType'
<1>1. TableTypes'
  BY ThreadKinds DEF IType, TypeOK, TableTypes, ThreadTypes, EraseLate, Goto, poolVars,
     boundVars, histVars
<1>2. ThreadTypes'
  <2>1. pc' \in [Threads -> Steps]
    BY ThreadKinds DEF IType, TypeOK, ThreadTypes, Steps, EraseLate, Goto
  <2> QED
    BY <2>1 DEF IType, TypeOK, ThreadTypes, EraseLate, Goto, poolVars, boundVars,
       histVars
<1>3. OnKnown'
  BY ThreadKinds DEF IType, TypeOK, OnKnown, ThreadTypes, EraseLate, Goto, poolVars,
     boundVars, histVars
<1>4. LastBelowAccepted'
  BY ThreadKinds, Numbers DEF IType, TypeOK, LastBelowAccepted, ThreadTypes, EraseLate,
     Goto, poolVars, boundVars, histVars
<1>5. PoolTypes' /\ LockTypes' /\ HistoryTypes' /\ BackKind'
  BY DEF IType, TypeOK, PoolTypes, LockTypes, HistoryTypes, BackKind, EraseLate, Goto,
     poolVars, boundVars, histVars
<1> QED BY <1>1, <1>2, <1>3, <1>4, <1>5 DEF IType, TypeOK

LEMMA TypeServerClose ==
  ASSUME IType, ServerClose
  PROVE  IType'
<1>1. on[Timer] \in Handlers /\ id[on[Timer]] \in Ids
  BY ThreadKinds DEF IType, OnKnown, TypeOK, PoolTypes, ServerClose
<1>2. PoolTypes'
  BY <1>1 DEF IType, TypeOK, PoolTypes, ServerClose, Goto, Tell, tableVars, boundVars
<1>3. ThreadTypes'
  <2>1. pc' \in [Threads -> Steps]
    BY ThreadKinds DEF IType, TypeOK, ThreadTypes, Steps, ServerClose, Goto, Tell
  <2> QED
    BY <2>1 DEF IType, TypeOK, ThreadTypes, ServerClose, Goto, Tell, tableVars,
       boundVars
<1>4. HistoryTypes'
  <2>1. told' \in [Kinds -> SUBSET Ids]
    BY <1>1 DEF IType, TypeOK, HistoryTypes, Kinds, ServerClose, Tell
  <2> QED
    BY <2>1 DEF IType, TypeOK, HistoryTypes, ServerClose, Goto, Tell, tableVars,
       boundVars
<1>5. OnKnown'
  BY <1>1, ThreadKinds DEF IType, TypeOK, OnKnown, ThreadTypes, ServerClose, Goto, Tell,
     tableVars, boundVars
<1>6. LastBelowAccepted'
  BY <1>1, ThreadKinds, Numbers DEF IType, TypeOK, LastBelowAccepted, ThreadTypes,
     BackKind, ServerClose, Goto, Tell, tableVars, boundVars
<1>7. LockTypes' /\ TableTypes' /\ BackKind'
  BY DEF IType, TypeOK, LockTypes, TableTypes, BackKind, ServerClose, Goto, Tell,
     tableVars, boundVars
<1> QED BY <1>2, <1>3, <1>4, <1>5, <1>6, <1>7 DEF IType, TypeOK

LEMMA TypeServerShut ==
  ASSUME IType, ServerShut
  PROVE  IType'
<1>1. on[Timer] \in Handlers
  BY ThreadKinds DEF IType, OnKnown, ServerShut
<1>2. PoolTypes'
  BY <1>1, Numbers DEF IType, TypeOK, PoolTypes, ServerShut, Goto, tableVars, boundVars,
     histVars
<1>3. ThreadTypes'
  <2>1. pc' \in [Threads -> Steps]
    BY ThreadKinds DEF IType, TypeOK, ThreadTypes, Steps, ServerShut, Goto
  <2> QED
    BY <2>1 DEF IType, TypeOK, ThreadTypes, ServerShut, Goto, tableVars, boundVars,
       histVars
<1>4. OnKnown'
  BY <1>1, ThreadKinds DEF IType, TypeOK, OnKnown, ThreadTypes, ServerShut, Goto,
     tableVars, boundVars, histVars
<1>5. LastBelowAccepted'
  BY <1>1, ThreadKinds, Numbers DEF IType, TypeOK, LastBelowAccepted, ThreadTypes,
     ServerShut, Goto, tableVars, boundVars, histVars
<1>6. LockTypes' /\ TableTypes' /\ HistoryTypes' /\ BackKind'
  BY DEF IType, TypeOK, LockTypes, TableTypes, HistoryTypes, BackKind, ServerShut, Goto,
     tableVars, boundVars, histVars
<1> QED BY <1>2, <1>3, <1>4, <1>5, <1>6 DEF IType, TypeOK

LEMMA TypeServerRecycle ==
  ASSUME IType, ServerRecycle
  PROVE  IType'
<1>1. PoolTypes'
  BY DEF IType, TypeOK, PoolTypes, ServerRecycle, Goto, PoolDelete, tableVars, boundVars
<1>2. ThreadTypes'
  <2>1. pc' \in [Threads -> Steps]
    BY ThreadKinds DEF IType, TypeOK, ThreadTypes, Steps, ServerRecycle, Goto,
       PoolDelete
  <2> QED
    BY <2>1 DEF IType, TypeOK, ThreadTypes, ServerRecycle, Goto, PoolDelete, tableVars,
       boundVars
<1>3. HistoryTypes'
  BY ThreadKinds DEF IType, TypeOK, HistoryTypes, ThreadTypes, ServerRecycle, Goto,
     PoolDelete, tableVars, boundVars
<1>4. OnKnown'
  BY ThreadKinds DEF IType, TypeOK, OnKnown, ThreadTypes, ServerRecycle, Goto,
     PoolDelete, tableVars, boundVars
<1>5. LastBelowAccepted'
  BY ThreadKinds, Numbers DEF IType, TypeOK, LastBelowAccepted, ThreadTypes,
     ServerRecycle, Goto, PoolDelete, tableVars, boundVars
<1>6. LockTypes' /\ TableTypes' /\ BackKind'
  BY DEF IType, TypeOK, LockTypes, TableTypes, BackKind, ServerRecycle, Goto,
     PoolDelete, tableVars, boundVars
<1> QED BY <1>1, <1>2, <1>3, <1>4, <1>5, <1>6 DEF IType, TypeOK

LEMMA TypeGoSilent ==
  ASSUME IType, NEW h \in Handlers, GoSilent(h)
  PROVE  IType'
<1>1. PoolTypes'
  BY DEF IType, TypeOK, PoolTypes, GoSilent, tableVars, boundVars, threadVars, histVars
<1>2. LastBelowAccepted'
  BY ThreadKinds, Numbers DEF IType, TypeOK, LastBelowAccepted, ThreadTypes, GoSilent,
     tableVars, boundVars, threadVars, histVars
<1>3. LockTypes' /\ TableTypes' /\ ThreadTypes' /\ HistoryTypes' /\ BackKind' /\ OnKnown'
  BY DEF IType, TypeOK, LockTypes, TableTypes, ThreadTypes, HistoryTypes, BackKind,
     OnKnown, GoSilent, tableVars, boundVars, threadVars, histVars
<1> QED BY <1>1, <1>2, <1>3 DEF IType, TypeOK

\* Close.
LEMMA TypeCloseCount ==
  ASSUME IType, NEW t \in Threads, CloseCount(t)
  PROVE  IType'
<1>1. on[t] \in Handlers
  BY ThreadKinds DEF IType, OnKnown, CloseCount
<1>2. PoolTypes'
  <2>1. count' \in [Handlers -> Nat]
    BY <1>1, ThreadKinds DEF IType, TypeOK, PoolTypes, ThreadTypes, CloseCount, Goto
  <2> QED
    BY <2>1 DEF IType, TypeOK, PoolTypes, CloseCount, Goto, tableVars, boundVars
<1>3. ThreadTypes'
  <2>1. pc' \in [Threads -> Steps]
    BY ThreadKinds DEF IType, TypeOK, ThreadTypes, Steps, CloseCount, Goto
  <2> QED
    BY <2>1 DEF IType, TypeOK, ThreadTypes, CloseCount, Goto, tableVars, boundVars
<1>4. HistoryTypes'
  BY <1>1 DEF IType, TypeOK, HistoryTypes, CloseCount, Goto, tableVars, boundVars
<1>5. OnKnown'
  BY <1>1, ThreadKinds DEF IType, TypeOK, OnKnown, ThreadTypes, CloseCount, Goto,
     tableVars, boundVars
<1>6. LastBelowAccepted'
  BY <1>1, ThreadKinds, Numbers DEF IType, TypeOK, LastBelowAccepted, ThreadTypes,
     BackKind, CloseCount, Goto, tableVars, boundVars
<1>7. LockTypes' /\ TableTypes' /\ BackKind'
  BY DEF IType, TypeOK, LockTypes, TableTypes, BackKind, CloseCount, Goto, tableVars,
     boundVars
<1> QED BY <1>2, <1>3, <1>4, <1>5, <1>6, <1>7 DEF IType, TypeOK

LEMMA TypeCloseTest ==
  ASSUME IType, NEW t \in Threads, CloseTest(t)
  PROVE  IType'
<1>1. on[t] \in Handlers /\ id[on[t]] \in Ids
  BY ThreadKinds DEF IType, OnKnown, TypeOK, PoolTypes, CloseTest
<1>2. ThreadTypes'
  <2>1. back[t] \in Steps /\ "shut" \in Steps
    BY DEF IType, TypeOK, ThreadTypes, Steps
  <2>2. pc' \in [Threads -> Steps]
    BY <2>1 DEF IType, TypeOK, ThreadTypes, CloseTest, Goto
  <2> QED
    BY <2>1, <2>2 DEF IType, TypeOK, ThreadTypes, CloseTest, Goto, Tell, poolVars,
       tableVars, boundVars
<1>3. HistoryTypes'
  <2>1. told' \in [Kinds -> SUBSET Ids]
    BY <1>1 DEF IType, TypeOK, HistoryTypes, Kinds, CloseTest, Tell
  <2> QED
    BY <2>1 DEF IType, TypeOK, HistoryTypes, CloseTest, Goto, Tell, poolVars, tableVars,
       boundVars
<1>4. OnKnown'
  BY <1>1, ThreadKinds DEF IType, TypeOK, OnKnown, ThreadTypes, CloseTest, Goto, Tell,
     poolVars, tableVars, boundVars
<1>5. LastBelowAccepted'
  BY <1>1, ThreadKinds, Numbers DEF IType, TypeOK, LastBelowAccepted, ThreadTypes,
     BackKind, CloseTest, Goto, Tell, poolVars, tableVars, boundVars
<1>6. PoolTypes' /\ LockTypes' /\ TableTypes' /\ BackKind'
  BY DEF IType, TypeOK, PoolTypes, LockTypes, TableTypes, BackKind, CloseTest, Goto,
     Tell, poolVars, tableVars, boundVars
<1> QED BY <1>2, <1>3, <1>4, <1>5, <1>6 DEF IType, TypeOK

LEMMA TypeCloseShut ==
  ASSUME IType, NEW t \in Threads, CloseShut(t)
  PROVE  IType'
<1>1. on[t] \in Handlers /\ id[on[t]] \in Ids
  BY ThreadKinds DEF IType, OnKnown, TypeOK, PoolTypes, CloseShut
<1>2. PoolTypes'
  BY <1>1, Numbers DEF IType, TypeOK, PoolTypes, CloseShut, Goto, tableVars, boundVars,
     histVars
<1>3. ThreadTypes'
  <2>1. pc' \in [Threads -> Steps]
    BY ThreadKinds DEF IType, TypeOK, ThreadTypes, Steps, CloseShut, Goto
  <2>2. cid' \in [Threads -> Ids]
    BY <1>1, ThreadKinds DEF IType, TypeOK, ThreadTypes, PoolTypes, CloseShut
  <2> QED
    BY <2>1, <2>2 DEF IType, TypeOK, ThreadTypes, CloseShut, Goto, tableVars, boundVars,
       histVars
<1>4. OnKnown'
  BY <1>1, ThreadKinds DEF IType, TypeOK, OnKnown, ThreadTypes, CloseShut, Goto,
     tableVars, boundVars, histVars
<1>5. LastBelowAccepted'
  BY <1>1, ThreadKinds, Numbers DEF IType, TypeOK, LastBelowAccepted, ThreadTypes,
     BackKind, CloseShut, Goto, tableVars, boundVars, histVars
<1>6. LockTypes' /\ TableTypes' /\ HistoryTypes' /\ BackKind'
  BY DEF IType, TypeOK, LockTypes, TableTypes, HistoryTypes, BackKind, CloseShut, Goto,
     tableVars, boundVars, histVars
<1> QED BY <1>2, <1>3, <1>4, <1>5, <1>6 DEF IType, TypeOK

LEMMA TypeCloseUnmap ==
  ASSUME IType, NEW t \in Threads, CloseUnmap(t)
  PROVE  IType'
<1>1. TableTypes'
  BY ThreadKinds DEF IType, TypeOK, TableTypes, ThreadTypes, CloseUnmap, Goto, poolVars,
     boundVars, histVars
<1>2. ThreadTypes'
  <2>1. pc' \in [Threads -> Steps]
    BY ThreadKinds DEF IType, TypeOK, ThreadTypes, Steps, CloseUnmap, Goto
  <2> QED
    BY <2>1 DEF IType, TypeOK, ThreadTypes, CloseUnmap, Goto, poolVars, boundVars,
       histVars
<1>3. OnKnown'
  BY ThreadKinds DEF IType, TypeOK, OnKnown, ThreadTypes, CloseUnmap, Goto, poolVars,
     boundVars, histVars
<1>4. LastBelowAccepted'
  BY ThreadKinds, Numbers DEF IType, TypeOK, LastBelowAccepted, ThreadTypes, BackKind,
     CloseUnmap, Goto, poolVars, boundVars, histVars
<1>5. PoolTypes' /\ LockTypes' /\ HistoryTypes' /\ BackKind'
  BY DEF IType, TypeOK, PoolTypes, LockTypes, HistoryTypes, BackKind, CloseUnmap, Goto,
     poolVars, boundVars, histVars
<1> QED BY <1>1, <1>2, <1>3, <1>4, <1>5 DEF IType, TypeOK

LEMMA TypeCloseRecycle ==
  ASSUME IType, NEW t \in Threads, CloseRecycle(t)
  PROVE  IType'
<1>1. PoolTypes'
  BY DEF IType, TypeOK, PoolTypes, CloseRecycle, Goto, PoolDelete, tableVars, boundVars
<1>2. ThreadTypes'
  <2>1. pc' \in [Threads -> Steps]
    BY ThreadKinds DEF IType, TypeOK, ThreadTypes, Steps, BackKind, CloseRecycle, Goto,
       PoolDelete
  <2> QED
    BY <2>1 DEF IType, TypeOK, ThreadTypes, CloseRecycle, Goto, PoolDelete, tableVars,
       boundVars
<1>3. HistoryTypes'
  BY ThreadKinds DEF IType, TypeOK, HistoryTypes, ThreadTypes, CloseRecycle, Goto,
     PoolDelete, tableVars, boundVars
<1>4. OnKnown'
  BY ThreadKinds DEF IType, TypeOK, OnKnown, ThreadTypes, CloseRecycle, Goto,
     PoolDelete, tableVars, boundVars
<1>5. LastBelowAccepted'
  BY ThreadKinds, Numbers DEF IType, TypeOK, LastBelowAccepted, ThreadTypes, BackKind,
     CloseRecycle, Goto, PoolDelete, tableVars, boundVars
<1>6. LockTypes' /\ TableTypes' /\ BackKind'
  BY DEF IType, TypeOK, LockTypes, TableTypes, BackKind, CloseRecycle, Goto, PoolDelete,
     tableVars, boundVars
<1> QED BY <1>1, <1>2, <1>3, <1>4, <1>5, <1>6 DEF IType, TypeOK

LEMMA TypeNext == IType /\ [Next]_vars => IType'
<1> SUFFICES ASSUME IType, [Next]_vars PROVE IType'
  OBVIOUS
<1>1. CASE AcceptorStep
  BY <1>1, TypeAccept, TypeOpen, TypeAddConnect, TypeAnnounce DEF AcceptorStep
<1>2. CASE \E r \in Reactors : ReactorStep(r)
  BY <1>2, TypeDispatch, TypeHandleInput, TypeRecvData, TypeReturnInput, TypeDropHandler
     DEF ReactorStep
<1>3. CASE \E m \in Managers : SenderStep(m)
  BY <1>3, TypeFindConnection, TypeSendMessage, TypePutSendPacket,
     TypeSetSendQueueTimeCost, TypeReturnSend DEF SenderStep
<1>4. CASE TimerStep
  BY <1>4, TypeHandleTimeout, TypeNextLate, TypeEraseLate, TypeServerClose,
     TypeServerShut, TypeServerRecycle DEF TimerStep
<1>5. CASE \E t \in Threads : Close(t)
  BY <1>5, TypeCloseCount, TypeCloseTest, TypeCloseShut, TypeCloseUnmap,
     TypeCloseRecycle DEF Close
<1>6. CASE \E c \in Ids : PostMessage(c) \/ CloseConnect(c)
  BY <1>6, TypePostMessage, TypeCloseConnect
<1>7. CASE \E h \in Handlers : GoSilent(h)
  BY <1>7, TypeGoSilent
<1>8. CASE UNCHANGED vars
  BY <1>8 DEF vars, IType, TypeOK, PoolTypes, LockTypes, TableTypes, ThreadTypes,
     HistoryTypes, BackKind, OnKnown, LastBelowAccepted
<1> QED BY <1>1, <1>2, <1>3, <1>4, <1>5, <1>6, <1>7, <1>8 DEF Next

\* Every variable keeps its type: no path through open, RecvData, the sends,
\* the timer and Close makes m_nIOCount negative, numbers more connections than
\* were accepted, or uses a handler before one was found.
THEOREM ConnectionTypes == Spec => []TypeOK
<1>1. IType => TypeOK
  BY DEF IType
<1> QED BY <1>1, TypeInit, TypeNext, PTL DEF Spec

-----------------------------------------------------------------------------
(* The connection of a sender                                              *)

\* Only send threads keep the lock of a manager, each that of its own.
LocksAreOwn == \A m \in Managers : mlock[m] \in {NoThread, m}

\* A manager queues packets for its own connections only.
QueuesAreOwn ==
  \A m \in Managers : \A i \in 1 .. Len(queue[m]) : ManagerOf(queue[m][i]) = m

\* A sender holds the lock under which its connection is in the table.
SendersHold ==
  \A m \in Managers : pc[m] \in {"send", "put"} =>
    mlock[m] = m /\ ManagerOf(cid[m]) = m /\ map[cid[m]] = on[m]

SInv == LocksAreOwn /\ QueuesAreOwn /\ SendersHold

\* Steps that leave the tables and the connections of the senders alone.
SameSenders ==
  /\ UNCHANGED <<map, mlock, queue>>
  /\ \A m \in Managers : pc'[m] \in {"send", "put"} =>
       /\ pc[m] = pc'[m] \/ pc[m] = "send"
       /\ on'[m] = on[m] /\ cid'[m] = cid[m]

LEMMA SameSendersKeep == ASSUME SInv, SameSenders PROVE SInv'
BY DEF SInv, SameSenders, LocksAreOwn, QueuesAreOwn, SendersHold

\* A step that takes the connection c out of the table, or enters one, under the
\* lock of its manager: a sender that holds the lock sends to another one.
ChangesTable(c, t) ==
  /\ c \in Ids
  /\ CanLockManager(ManagerOf(c), t)
  /\ \A d \in Ids \ {c} : map'[d] = map[d]
  /\ UNCHANGED <<mlock, queue>>
  /\ \A m \in Managers : pc'[m] \in {"send", "put"} =>
       /\ pc'[m] = pc[m] /\ m # t
       /\ on'[m] = on[m] /\ cid'[m] = cid[m]

LEMMA ChangesTableKeep ==
  ASSUME IType, SInv, NEW c, NEW t \in Threads, ChangesTable(c, t)
  PROVE  SInv'
<1>1. LocksAreOwn' /\ QueuesAreOwn'
  BY DEF SInv, ChangesTable, LocksAreOwn, QueuesAreOwn
<1>2. SendersHold'
  <2> SUFFICES ASSUME NEW m \in Managers, pc'[m] \in {"send", "put"}
               PROVE  mlock'[m] = m /\ ManagerOf(cid'[m]) = m /\ map'[cid'[m]] = on'[m]
    BY DEF SendersHold
  <2>1. mlock[m] = m /\ ManagerOf(cid[m]) = m /\ map[cid[m]] = on[m]
    BY DEF SInv, SendersHold, ChangesTable
  <2>2. m # t /\ m # NoThread /\ cid[m] \in Ids
    BY ThreadKinds DEF ChangesTable, IType, TypeOK, ThreadTypes
  <2>3. cid[m] # c
    BY <2>1, <2>2 DEF ChangesTable, CanLockManager
  <2> QED
    BY <2>1, <2>2, <2>3 DEF ChangesTable
<1> QED BY <1>1, <1>2 DEF SInv

LEMMA SendersAcceptor == ASSUME IType, SInv, AcceptorStep PROVE SInv'
<1>1. ASSUME Accept \/ Open \/ Announce PROVE SameSenders
  BY <1>1, ThreadKinds
     DEF Accept, Open, Announce, Goto, CallClose, SameSenders, tableVars, IType, TypeOK,
         ThreadTypes
<1>2. CASE AddConnect
  <2>1. lastId + 1 \in Ids
    BY <1>2, Numbers DEF IType, LastBelowAccepted, AddConnect, Ids
  <2>2. ChangesTable(lastId + 1, Acceptor)
    BY <1>2, <2>1, ThreadKinds
       DEF AddConnect, ChangesTable, Goto, IType, TypeOK, TableTypes, ThreadTypes, boundVars
  <2> QED BY <2>2, ThreadKinds, ChangesTableKeep
<1> QED BY <1>1, <1>2, SameSendersKeep DEF AcceptorStep

LEMMA SendersReactors ==
  ASSUME IType, SInv, NEW r \in Reactors, ReactorStep(r)
  PROVE  SInv'
<1>1. SameSenders
  BY ThreadKinds
     DEF ReactorStep, Dispatch, HandleInput, RecvData, ReturnInput, DropHandler, Goto,
         CallClose, SameSenders, tableVars, IType, TypeOK, ThreadTypes
<1> QED BY <1>1, SameSendersKeep

LEMMA SendersTimer == ASSUME IType, SInv, TimerStep PROVE SInv'
<1>1. ASSUME \/ \E m \in Managers : HandleTimeout(m)
             \/ NextLate \/ ServerClose \/ ServerShut \/ ServerRecycle
      PROVE  SameSenders
  BY <1>1, ThreadKinds
     DEF HandleTimeout, NextLate, ServerClose, ServerShut, ServerRecycle, Goto,
         SameSenders, tableVars, IType, TypeOK, ThreadTypes
<1>2. ASSUME EraseLate, ManagerOf(cid[Timer]) = whose PROVE ChangesTable(cid[Timer], Timer)
  BY <1>2, ThreadKinds
     DEF EraseLate, ChangesTable, Goto, IType, TypeOK, TableTypes, ThreadTypes
<1>3. ASSUME EraseLate, ManagerOf(cid[Timer]) # whose PROVE SameSenders
  BY <1>3, ThreadKinds DEF EraseLate, SameSenders, Goto, IType, TypeOK, ThreadTypes
<1> QED BY <1>1, <1>2, <1>3, ThreadKinds, SameSendersKeep, ChangesTableKeep DEF TimerStep

LEMMA SendersClose ==
  ASSUME IType, SInv, NEW t \in Threads, Close(t)
  PROVE  SInv'
<1>1. pc \in [Threads -> Steps] /\ on \in [Threads -> Handlers \cup {NoHandler}]
  BY DEF IType, TypeOK, ThreadTypes
<1>2. cid \in [Threads -> Ids] /\ back[t] \notin {"send", "put"}
  BY DEF IType, TypeOK, ThreadTypes, BackKind
<1>3. ASSUME CloseCount(t) \/ CloseShut(t) PROVE SameSenders
  BY <1>1, <1>2, <1>3, ThreadKinds
     DEF CloseCount, CloseShut, Goto, SameSenders, tableVars
<1>4. ASSUME CloseTest(t) \/ CloseRecycle(t) PROVE SameSenders
  BY <1>1, <1>2, <1>4, ThreadKinds
     DEF CloseTest, CloseRecycle, Goto, SameSenders, tableVars
<1>5. ASSUME CloseUnmap(t) PROVE ChangesTable(cid[t], t)
  BY <1>1, <1>2, <1>5, ThreadKinds
     DEF CloseUnmap, ChangesTable, Goto, IType, TypeOK, TableTypes
<1> QED BY <1>3, <1>4, <1>5, SameSendersKeep, ChangesTableKeep DEF Close

LEMMA SendersPlugins ==
  ASSUME IType, SInv, NEW c \in Ids, PostMessage(c) \/ CloseConnect(c)
  PROVE  SInv'
<1>1. ManagerOf(c) \in Managers
  BY ManagersOfIds DEF Ids
<1>2. CASE PostMessage(c)
  <2>1. LocksAreOwn' /\ SendersHold'
    BY <1>2 DEF PostMessage, SInv, LocksAreOwn, SendersHold, threadVars
  <2>2. QueuesAreOwn'
    BY <1>1, <1>2, AppendProperties
       DEF PostMessage, SInv, QueuesAreOwn, IType, TypeOK, TableTypes
  <2> QED BY <2>1, <2>2 DEF SInv
<1>3. CASE CloseConnect(c)
  <2>1. LocksAreOwn' /\ QueuesAreOwn'
    BY <1>3 DEF CloseConnect, SInv, LocksAreOwn, QueuesAreOwn
  <2>2. SendersHold'
    BY <1>3, ThreadKinds
       DEF CloseConnect, SInv, SendersHold, threadVars, IType, TypeOK, TableTypes,
           ThreadTypes
  <2> QED BY <2>1, <2>2 DEF SInv
<1> QED BY <1>2, <1>3

LEMMA SendersSend ==
  ASSUME IType, SInv, NEW m \in Managers, SenderStep(m)
  PROVE  SInv'
<1>1. CASE FindConnection(m)
  <2> DEFINE c == Head(queue[m])
  <2>1. queue[m] \in Seq(Ids) /\ queue[m] # <<>>
    BY <1>1 DEF FindConnection, IType, TypeOK, TableTypes
  <2>2. ManagerOf(c) = m /\ c \in Ids
    BY <2>1, HeadTailProperties DEF SInv, QueuesAreOwn
  <2>3. LocksAreOwn'
    BY <1>1 DEF FindConnection, SInv, LocksAreOwn, IType, TypeOK, LockTypes
  <2>4. QueuesAreOwn'
    BY <1>1, <2>1, HeadTailProperties
       DEF FindConnection, SInv, QueuesAreOwn, IType, TypeOK, TableTypes
  <2>5. SendersHold'
    BY <1>1, <2>2, ThreadKinds
       DEF FindConnection, Goto, SInv, SendersHold, IType, TypeOK, LockTypes, ThreadTypes
  <2> QED BY <2>3, <2>4, <2>5 DEF SInv
<1>2. ASSUME SendMessage(m) \/ PutSendPacket(m) \/ SetSendQueueTimeCost(m)
      PROVE  SameSenders
  BY <1>2, ThreadKinds
     DEF SendMessage, PutSendPacket, SetSendQueueTimeCost, Goto, CallClose, SameSenders,
         tableVars, IType, TypeOK, ThreadTypes
<1>3. CASE ReturnSend(m)
  <2>1. LocksAreOwn' /\ QueuesAreOwn'
    BY <1>3 DEF ReturnSend, SInv, LocksAreOwn, QueuesAreOwn, tableVars, IType, TypeOK,
                LockTypes
  <2>2. SendersHold'
    BY <1>3, ThreadKinds
       DEF ReturnSend, Goto, SInv, SendersHold, tableVars, IType, TypeOK, LockTypes,
           ThreadTypes
  <2> QED BY <2>1, <2>2 DEF SInv
<1> QED BY <1>1, <1>2, <1>3, SameSendersKeep DEF SenderStep

LEMMA SendersInit == Init => SInv
BY ThreadKinds DEF Init, SInv, LocksAreOwn, QueuesAreOwn, SendersHold

LEMMA SendersNext == IType /\ SInv /\ [Next]_vars => SInv'
<1> SUFFICES ASSUME IType, SInv, [Next]_vars PROVE SInv'
  OBVIOUS
<1>1. ASSUME \E h \in Handlers : GoSilent(h) PROVE SameSenders
  BY <1>1 DEF GoSilent, SameSenders, tableVars, threadVars
<1>2. ASSUME UNCHANGED vars PROVE SameSenders
  BY <1>2 DEF vars, SameSenders
<1> QED
  BY <1>1, <1>2, SameSendersKeep, SendersAcceptor, SendersReactors, SendersSend,
     SendersTimer, SendersClose, SendersPlugins DEF Next

\* From the look-up of SendMessage to the write of PutSendPacket the connection
\* stays in the table: CConnectManager does both under m_ThreadWriteLock, and
\* whatever enters or removes a connection takes that lock first.
THEOREM SenderKeepsItsConnection == Spec => []SendsToListed
<1>1. SInv => SendsToListed
  BY DEF SInv, SendersHold, SendsToListed
<1>2. IType /\ SInv /\ [Next]_vars => (IType /\ SInv)'
  BY TypeNext, SendersNext
<1>3. Init => IType /\ SInv
  BY TypeInit, SendersInit
<1> QED BY <1>1, <1>2, <1>3, PTL DEF Spec
=============================================================================
