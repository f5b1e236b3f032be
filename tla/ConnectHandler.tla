--------------------------- MODULE ConnectHandler ---------------------------
(***************************************************************************)
(* The life of a TCP connection (Reactor/ConnectHandler.cpp): pooled       *)
(* CConnectHandler objects, counted by m_nIOCount, and the CConnectManager *)
(* tables that find the handler of a ConnectID.                            *)
(*                                                                         *)
(* Threads: the acceptor (open), the client reactors (handle_input,        *)
(* handle_close), one send thread per manager (svc), and the timer reactor *)
(* (handle_timeout, one manager after another).  Plugins and the console   *)
(* call PostMessage and CloseConnect, each one critical section.  Every    *)
(* handler has a recursive lock, every manager too.                        *)
(*                                                                         *)
(* Sockets are numbered as they are accepted, so that a socket is never    *)
(* mistaken for a later one with the same descriptor.                      *)
(***************************************************************************)
EXTENDS Naturals, Sequences, FiniteSets

CONSTANTS
  Handlers, NoHandler,  \* CConnectHandler objects, at most (bound)
  Acceptor, Timer,      \* the threads of REACTOR_CLIENTDEFINE, REACTOR_POSTDEFINE
  Reactors,             \* threads of the client reactors
  NoThread,
  NManagers,            \* SendQueueCount: managers, each with its send thread
  LimitSends,           \* ClientDataAlert sets a limit: SendCheck may refuse
  MaxConns,             \* bound: sockets accepted
  MaxPosts              \* bound: packets posted

Managers == 0 .. NManagers - 1
Threads  == {Acceptor, Timer} \cup Reactors \cup Managers
Ids      == 0 .. MaxConns     \* 0: m_u4ConnectID of a handler never added
ManagerOf(c) == c % NManagers

ASSUME ManagersAssumption == NManagers \in Nat \ {0}
ASSUME BoundsAssumption   == MaxConns \in Nat /\ MaxPosts \in Nat
ASSUME LimitSendsAssumption == LimitSends \in BOOLEAN
ASSUME HandlersAssumption == NoHandler \notin Handlers
ASSUME ThreadsAssumption ==
  /\ NoThread \notin Threads
  /\ Acceptor # Timer
  /\ {Acceptor, Timer} \cap (Reactors \cup Managers) = {}
  /\ Reactors \cap Managers = {}
  /\ IsFiniteSet(Reactors)

VARIABLES
  inUse,        \* m_mapMessageUsed of the pool; the other handlers are free
  id,           \* m_u4ConnectID
  sock,         \* peer(): its socket, 0 when closed
  reg,          \* the reactor the socket is registered with
  count,        \* m_nIOCount
  cstate,       \* m_u1ConnectState
  parse,        \* m_pPacketParse is not NULL
  silent,       \* m_atvInput is older than m_u2MaxConnectTime
  hlock,        \* m_ThreadLock of the handler: who holds it
  map,          \* the m_mapConnectManager maps: the handler of a ConnectID
  mlock,        \* m_ThreadWriteLock of the manager: who holds it
  queue,        \* ConnectIDs of the packets in the send queue of a manager
  lastId,       \* m_u4CurrMaxCount of the group
  accepted, posts,             \* bounds: sockets accepted, packets posted
  pc, on, cid, less, back, fd, \* per thread: its step, its handler, the id it
                               \* read, argument and return of Close, socket
  late, whose,  \* the timer: handlers still to close, the manager that does
  closing,      \* history: handlers on which Close(2) began in this life
  told,         \* history: events made, by kind: their ConnectIDs
  asked,        \* history: ConnectIDs given to CloseConnect
  stray,        \* history: a packet went to the socket of another connection
  clean         \* history: no handler was recycled under a thread using it

poolVars   == <<inUse, id, sock, reg, count, cstate, parse, silent>>
tableVars  == <<map, queue, lastId>>
boundVars  == <<accepted, posts>>
threadVars == <<pc, on, cid, less, back, fd, late, whose>>
histVars   == <<closing, told, asked, stray, clean>>
vars == <<inUse, id, sock, reg, count, cstate, parse, silent, hlock, map, mlock,
          queue, lastId, accepted, posts, pc, on, cid, less, back, fd, late,
          whose, closing, told, asked, stray, clean>>

-----------------------------------------------------------------------------
(* Steps of threads, locks, events                                         *)

Goto(t, step) == pc' = [pc EXCEPT ![t] = step]

\* Both kinds of lock are recursive.
CanLockHandler(h, t) == hlock[h] \in {NoThread, t}
CanLockManager(m, t) == mlock[m] \in {NoThread, t}

\* Events for the plugins: CONNECT, CDISCONNET and SENDTIMEOUT messages.
Kinds == {"CONNECT", "CDISCONNET", "SENDTIMEOUT"}
Tell(kind, c) == told' = [told EXCEPT ![kind] = @ \cup {c}]

\* Threads that use a handler: from the moment they have found it.
Uses(t, h) == on[t] = h /\ pc[t] # "idle"

\* CConnectHandlerPool::Delete, by thread t; done: t itself is through with h.
PoolDelete(t, h, done) ==
  /\ inUse' = inUse \ {h}
  /\ clean' = (clean /\ done /\ (\A u \in Threads \ {t} : ~Uses(u, h)) /\ h \notin late)

-----------------------------------------------------------------------------
(* CConnectHandler::Close(k), called by thread t on handler on[t]          *)

CallClose(t, k, return) ==
  /\ pc'   = [pc EXCEPT ![t] = "dec"]
  /\ less' = [less EXCEPT ![t] = k]
  /\ back' = [back EXCEPT ![t] = return]

\* (mutant) the count may go below zero.
CloseCountUnclamped(t) ==
  LET h == on[t]  k == less[t] IN
  /\ pc[t] = "dec"
  /\ CanLockHandler(h, t)
  /\ count' = [count EXCEPT ![h] = @ - k]
  /\ closing' = IF k = 2 THEN closing \cup {h} ELSE closing
  /\ Goto(t, "test")
  /\ UNCHANGED <<inUse, id, sock, reg, cstate, parse, silent, hlock, mlock, tableVars,
                 boundVars, on, cid, less, back, fd, late, whose, told,
                 asked, stray, clean>>

\* The count, under the lock of the handler.
CloseCount(t) ==
  LET h == on[t]  k == less[t] IN
  /\ pc[t] = "dec"
  /\ CanLockHandler(h, t)
  /\ count' = [count EXCEPT ![h] = IF k > @ THEN 0 ELSE @ - k]
  /\ closing' = IF k = 2 THEN closing \cup {h} ELSE closing
  /\ Goto(t, "test")
  /\ UNCHANGED <<inUse, id, sock, reg, cstate, parse, silent, hlock, mlock, tableVars,
                 boundVars, on, cid, less, back, fd, late, whose, told,
                 asked, stray, clean>>

\* The test, after the lock was released; the last user tells the plugins.
CloseTest(t) ==
  LET h == on[t] IN
  /\ pc[t] = "test"
  /\ \/ /\ count[h] # 0
        /\ Goto(t, back[t])
        /\ UNCHANGED told
     \/ /\ count[h] = 0
        /\ IF cstate[h] # "SERVER_CLOSE" THEN Tell("CDISCONNET", id[h])
           ELSE UNCHANGED told
        /\ Goto(t, "shut")
  /\ UNCHANGED <<poolVars, hlock, mlock, tableVars, boundVars, on, cid, less, back,
                 fd, late, whose, closing, asked, stray, clean>>

\* shutdown leaves the reactor and closes the socket.
CloseShut(t) ==
  LET h == on[t] IN
  /\ pc[t] = "shut"
  /\ sock' = [sock EXCEPT ![h] = 0]
  /\ reg'  = [reg EXCEPT ![h] = NoThread]
  /\ cid'  = [cid EXCEPT ![t] = id[h]]
  /\ Goto(t, "unmap")
  /\ UNCHANGED <<inUse, id, count, cstate, parse, silent, hlock, mlock, tableVars,
                 boundVars, on, less, back, fd, late, whose, histVars>>

\* (mutant) CloseConnect does not take the lock of the manager.
CloseUnmapUnlocked(t) ==
  /\ pc[t] = "unmap"
  /\ map' = [map EXCEPT ![cid[t]] = NoHandler]
  /\ Goto(t, "recycle")
  /\ UNCHANGED <<poolVars, hlock, mlock, queue, lastId, boundVars, on, cid, less,
                 back, fd, late, whose, histVars>>

\* CConnectManager::CloseConnect only takes the id out of the table.
CloseUnmap(t) ==
  /\ pc[t] = "unmap"
  /\ CanLockManager(ManagerOf(cid[t]), t)
  /\ map' = [map EXCEPT ![cid[t]] = NoHandler]
  /\ Goto(t, "recycle")
  /\ UNCHANGED <<poolVars, hlock, mlock, queue, lastId, boundVars, on, cid, less,
                 back, fd, late, whose, histVars>>

CloseRecycle(t) ==
  /\ pc[t] = "recycle"
  /\ PoolDelete(t, on[t], back[t] = "idle")
  /\ Goto(t, back[t])
  /\ UNCHANGED <<id, sock, reg, count, cstate, parse, silent, hlock, mlock, tableVars,
                 boundVars, on, cid, less, back, fd, late, whose, closing, told,
                 asked, stray>>

Close(t) ==
  CloseCount(t) \/ CloseTest(t) \/ CloseShut(t) \/ CloseUnmap(t) \/ CloseRecycle(t)

-----------------------------------------------------------------------------
(* The acceptor: make_svc_handler, then CConnectHandler::open              *)

\* Create takes any free handler, or makes one; then the socket is accepted.
Accept ==
  /\ pc[Acceptor] = "idle"
  /\ accepted < MaxConns
  /\ \E h \in Handlers \ inUse :
       /\ inUse' = inUse \cup {h}
       /\ sock'  = [sock EXCEPT ![h] = accepted + 1]
       /\ on'    = [on EXCEPT ![Acceptor] = h]
  /\ accepted' = accepted + 1
  /\ Goto(Acceptor, "open")
  /\ UNCHANGED <<id, reg, count, cstate, parse, silent, hlock, mlock, tableVars, posts,
                 cid, less, back, fd, late, whose, histVars>>

\* open takes the lock of the handler and resets the count.  A forbidden
\* address or a bad socket ends it there: ACE then calls handle_close, with the
\* ConnectID of the previous connection.  (Allocations succeed.)
Open ==
  LET h == on[Acceptor] IN
  /\ pc[Acceptor] = "open"
  /\ CanLockHandler(h, Acceptor)
  /\ count'   = [count EXCEPT ![h] = 1]
  /\ closing' = closing \ {h}
  /\ \/ /\ parse' = [parse EXCEPT ![h] = TRUE]
        /\ silent' = [silent EXCEPT ![h] = FALSE]
        /\ hlock' = [hlock EXCEPT ![h] = Acceptor]
        /\ Goto(Acceptor, "add")
        /\ UNCHANGED <<less, back>>
     \/ /\ CallClose(Acceptor, 2, "idle")
        /\ UNCHANGED <<parse, silent, hlock>>
  /\ UNCHANGED <<inUse, id, sock, reg, cstate, mlock, tableVars, boundVars,
                 on, cid, fd, late, whose, told, asked, stray, clean>>

\* AddConnect numbers the connection and enters it in the table.
AddConnect ==
  LET h == on[Acceptor]  c == lastId + 1 IN
  /\ pc[Acceptor] = "add"
  /\ CanLockManager(ManagerOf(c), Acceptor)
  /\ lastId' = c
  /\ id'  = [id EXCEPT ![h] = c]
  /\ map' = [map EXCEPT ![c] = h]
  /\ Goto(Acceptor, "announce")
  /\ UNCHANGED <<inUse, sock, reg, count, cstate, parse, silent, hlock, mlock, queue,
                 boundVars, on, cid, less, back, fd, late, whose, histVars>>

\* (mutant) the state of the previous connection of the handler stays.
AnnounceKeepsState ==
  LET h == on[Acceptor] IN
  /\ pc[Acceptor] = "announce"
  /\ Tell("CONNECT", id[h])
  /\ hlock'  = [hlock EXCEPT ![h] = NoThread]
  /\ sock[h] # 0
  /\ \E r \in Reactors : reg' = [reg EXCEPT ![h] = r]
  /\ Goto(Acceptor, "idle")
  /\ UNCHANGED <<inUse, id, sock, count, cstate, parse, silent, mlock, tableVars,
                 boundVars, on, cid, less, back, fd, late, whose, closing, asked,
                 stray, clean>>

\* The plugins are told, the state is set, the socket is registered with one
\* of the reactors (a closed one cannot be) and the lock released.
Announce ==
  LET h == on[Acceptor] IN
  /\ pc[Acceptor] = "announce"
  /\ Tell("CONNECT", id[h])
  /\ cstate' = [cstate EXCEPT ![h] = "OPEN"]
  /\ hlock'  = [hlock EXCEPT ![h] = NoThread]
  /\ \/ /\ sock[h] # 0
        /\ \E r \in Reactors : reg' = [reg EXCEPT ![h] = r]
        /\ Goto(Acceptor, "idle")
        /\ UNCHANGED <<less, back>>
     \/ /\ sock[h] = 0
        /\ CallClose(Acceptor, 2, "idle")
        /\ UNCHANGED reg
  /\ UNCHANGED <<inUse, id, sock, count, parse, silent, mlock, tableVars, boundVars,
                 on, cid, fd, late, whose, closing, asked, stray, clean>>

-----------------------------------------------------------------------------
(* A client reactor r: handle_input, RecvData, handle_close                *)

\* The reactor picks a handler with something to read, or one whose socket has
\* an error, which it drops at once.
Dispatch(r) ==
  /\ pc[r] = "idle"
  /\ \E h \in Handlers :
       /\ reg[h] = r
       /\ on' = [on EXCEPT ![r] = h]
       /\ fd' = [fd EXCEPT ![r] = sock[h]]
  /\ \E step \in {"input", "failed"} : Goto(r, step)
  /\ UNCHANGED <<poolVars, hlock, mlock, tableVars, boundVars, cid, less, back, late, whose,
                 histVars>>

\* handle_input holds the lock of the handler until RecvData returns, which
\* counts itself; without a parser it only makes an event and fails.
HandleInput(r) ==
  LET h == on[r] IN
  /\ pc[r] = "input"
  /\ CanLockHandler(h, r)
  /\ silent' = [silent EXCEPT ![h] = FALSE]
  /\ \/ /\ parse[h]
        /\ hlock' = [hlock EXCEPT ![h] = r]
        /\ count' = [count EXCEPT ![h] = @ + 1]
        /\ Goto(r, "recv")
        /\ UNCHANGED told
     \/ /\ ~parse[h]
        /\ Tell("CDISCONNET", id[h])
        /\ Goto(r, "failed")
        /\ UNCHANGED <<hlock, count>>
  /\ UNCHANGED <<inUse, id, sock, reg, cstate, parse, mlock, tableVars, boundVars, on,
                 cid, less, back, fd, late, whose, closing, asked, stray, clean>>

\* (mutant) an early return of RecvData forgets its Close.
RecvDataUncounted(r) ==
  LET h == on[r] IN
  /\ pc[r] = "recv"
  /\ \/ /\ sock[h] # 0
        /\ CallClose(r, 1, "return_0")
        /\ UNCHANGED <<parse, hlock, told>>
     \/ /\ parse' = [parse EXCEPT ![h] = FALSE]
        /\ hlock' = [hlock EXCEPT ![h] = NoThread]
        /\ Goto(r, "failed")
        /\ UNCHANGED <<less, back, told>>
  /\ UNCHANGED <<inUse, id, sock, reg, count, cstate, silent, mlock, tableVars,
                 boundVars, on, cid, fd, late, whose, closing, asked, stray,
                 clean>>

\* (mutant) a connection that failed is closed at once, as PutSendPacket does.
RecvDataClosesTwo(r) ==
  LET h == on[r] IN
  /\ pc[r] = "recv"
  /\ \/ /\ sock[h] # 0
        /\ CallClose(r, 1, "return_0")
        /\ UNCHANGED <<parse, told>>
     \/ /\ parse' = [parse EXCEPT ![h] = FALSE]
        /\ CallClose(r, 2, "return_1")
        /\ UNCHANGED told
  /\ UNCHANGED <<inUse, id, sock, reg, count, cstate, silent, hlock, mlock, tableVars,
                 boundVars, on, cid, fd, late, whose, closing, asked, stray,
                 clean>>

\* RecvData ends in Close(1): after data; after an error that clears the
\* parser (the client left, a bad packet); or after one that makes an event of
\* its own (no buffer, a bad stream).
RecvData(r) ==
  LET h == on[r] IN
  /\ pc[r] = "recv"
  /\ \/ /\ sock[h] # 0
        /\ CallClose(r, 1, "return_0")
        /\ UNCHANGED <<parse, told>>
     \/ /\ parse' = [parse EXCEPT ![h] = FALSE]
        /\ CallClose(r, 1, "return_1")
        /\ UNCHANGED told
     \/ /\ sock[h] # 0
        /\ Tell("CDISCONNET", id[h])
        /\ CallClose(r, 1, "return_1")
        /\ UNCHANGED parse
  /\ UNCHANGED <<inUse, id, sock, reg, count, cstate, silent, hlock, mlock, tableVars,
                 boundVars, on, cid, fd, late, whose, closing, asked, stray,
                 clean>>

ReturnInput(r) ==
  /\ pc[r] \in {"return_0", "return_1"}
  /\ hlock' = [hlock EXCEPT ![on[r]] = NoThread]
  /\ Goto(r, IF pc[r] = "return_0" THEN "idle" ELSE "failed")
  /\ UNCHANGED <<poolVars, mlock, tableVars, boundVars, on, cid, less, back, fd, late, whose,
                 histVars>>

\* After a failure the reactor drops the handler, if it still has it for that
\* socket, and calls handle_close.
DropHandler(r) ==
  LET h == on[r] IN
  /\ pc[r] = "failed"
  /\ \/ /\ reg[h] = r /\ sock[h] = fd[r]
        /\ reg' = [reg EXCEPT ![h] = NoThread]
        /\ CallClose(r, 2, "idle")
     \/ /\ ~(reg[h] = r /\ sock[h] = fd[r])
        /\ Goto(r, "idle")
        /\ UNCHANGED <<reg, less, back>>
  /\ UNCHANGED <<inUse, id, sock, count, cstate, parse, silent, hlock, mlock, tableVars,
                 boundVars, on, cid, fd, late, whose, histVars>>

-----------------------------------------------------------------------------
(* Plugins and the console                                                 *)

PostMessage(c) ==
  /\ mlock[ManagerOf(c)] = NoThread
  /\ map[c] # NoHandler
  /\ posts < MaxPosts
  /\ posts' = posts + 1
  /\ queue' = [queue EXCEPT ![ManagerOf(c)] = Append(@, c)]
  /\ UNCHANGED <<poolVars, hlock, mlock, map, lastId, accepted, threadVars, histVars>>

\* CLIENT_CLOSE_IMMEDIATLY; any other status does nothing.
CloseConnect(c) ==
  /\ mlock[ManagerOf(c)] = NoThread
  /\ map[c] # NoHandler
  /\ map' = [map EXCEPT ![c] = NoHandler]
  /\ asked' = asked \cup {c}
  /\ UNCHANGED <<poolVars, hlock, mlock, queue, lastId, boundVars, threadVars, closing,
                 told, stray, clean>>

-----------------------------------------------------------------------------
(* The send thread m: CConnectManager::svc and SendMessage                 *)

\* svc takes a packet and SendMessage, under the lock of the manager, looks up
\* its connection; a packet whose connection is gone is dropped.
FindConnection(m) ==
  LET c == Head(queue[m]) IN
  /\ pc[m] = "idle"
  /\ queue[m] # <<>>
  /\ CanLockManager(m, m)
  /\ queue' = [queue EXCEPT ![m] = Tail(@)]
  /\ \/ /\ map[c] # NoHandler
        /\ mlock' = [mlock EXCEPT ![m] = m]
        /\ on'    = [on EXCEPT ![m] = map[c]]
        /\ cid'   = [cid EXCEPT ![m] = c]
        /\ Goto(m, "send")
     \/ /\ map[c] = NoHandler
        /\ UNCHANGED <<mlock, on, cid, pc>>
  /\ UNCHANGED <<poolVars, hlock, map, lastId, boundVars, less, back, fd, late, whose,
                 histVars>>

\* CConnectHandler::SendMessage counts itself.
SendMessage(m) ==
  /\ pc[m] = "send"
  /\ CanLockHandler(on[m], m)
  /\ count' = [count EXCEPT ![on[m]] = @ + 1]
  /\ Goto(m, "put")
  /\ UNCHANGED <<inUse, id, sock, reg, cstate, parse, silent, hlock, mlock, tableVars,
                 boundVars, on, cid, less, back, fd, late, whose, histVars>>

\* PutSendPacket closes the connection when SendCheck finds it sends too much;
\* otherwise it writes to the socket, or fails to.  (m_emStatus is never
\* CLIENT_CLOSE_SENDOK: ServerClose is called with IMMEDIATLY only.)
PutSendPacket(m) ==
  LET h == on[m] IN
  /\ pc[m] = "put"
  /\ \/ /\ LimitSends
        /\ CallClose(m, 2, "cost")
        /\ UNCHANGED stray
     \/ /\ sock[h] # 0
        /\ stray' = (stray \/ id[h] # cid[m])
        /\ CallClose(m, 1, "cost")
     \/ /\ CallClose(m, 1, "cost")
        /\ UNCHANGED stray
  /\ UNCHANGED <<poolVars, hlock, mlock, tableVars, boundVars, on, cid, fd, late, whose,
                 closing, told, asked, clean>>

\* SetSendQueueTimeCost counts itself once more; a send over its time is told.
SetSendQueueTimeCost(m) ==
  LET h == on[m] IN
  /\ pc[m] = "cost"
  /\ CanLockHandler(h, m)
  /\ count' = [count EXCEPT ![h] = @ + 1]
  /\ CallClose(m, 1, "return")
  /\ \/ UNCHANGED told
     \/ Tell("SENDTIMEOUT", id[h])
  /\ UNCHANGED <<inUse, id, sock, reg, cstate, parse, silent, hlock, mlock, tableVars,
                 boundVars, on, cid, fd, late, whose, closing, asked, stray, clean>>

ReturnSend(m) ==
  /\ pc[m] = "return"
  /\ mlock' = [mlock EXCEPT ![m] = NoThread]
  /\ Goto(m, "idle")
  /\ UNCHANGED <<poolVars, hlock, tableVars, boundVars, on, cid, less, back, fd, late, whose,
                 histVars>>

-----------------------------------------------------------------------------
(* The timer: CConnectManager::handle_timeout and ServerClose              *)

\* Without the lock it collects the handlers whose client is silent (CheckAlive).
HandleTimeout(m) ==
  /\ pc[Timer] = "idle"
  /\ late' = {map[c] : c \in {d \in Ids : ManagerOf(d) = m /\ map[d] # NoHandler
                                          /\ silent[map[d]]}}
  /\ late' # {}
  /\ whose' = m
  /\ Goto(Timer, "next")
  /\ UNCHANGED <<poolVars, hlock, mlock, tableVars, boundVars, on, cid, less, back, fd,
                 histVars>>

\* (mutant) the loop over the collected handlers ends one too early.
NextLateOffByOne ==
  /\ pc[Timer] = "next"
  /\ \/ /\ Cardinality(late) > 1
        /\ \E h \in late :
             /\ late' = late \ {h}
             /\ on'   = [on EXCEPT ![Timer] = h]
             /\ cid'  = [cid EXCEPT ![Timer] = id[h]]
        /\ Goto(Timer, "erase")
     \/ /\ Cardinality(late) <= 1
        /\ late' = {}
        /\ Goto(Timer, "idle")
        /\ UNCHANGED <<on, cid>>
  /\ UNCHANGED <<poolVars, hlock, mlock, tableVars, boundVars, less, back, fd,
                 whose, histVars>>

NextLate ==
  /\ pc[Timer] = "next"
  /\ \/ \E h \in late :
          /\ late' = late \ {h}
          /\ on'   = [on EXCEPT ![Timer] = h]
          /\ cid'  = [cid EXCEPT ![Timer] = id[h]]
          /\ Goto(Timer, "erase")
     \/ /\ late = {}
        /\ Goto(Timer, "idle")
        /\ UNCHANGED <<late, on, cid>>
  /\ UNCHANGED <<poolVars, hlock, mlock, tableVars, boundVars, less, back, fd,
                 whose, histVars>>

\* (mutant) the id stays in the table.
EraseLateForgets ==
  /\ pc[Timer] = "erase"
  /\ CanLockManager(whose, Timer)
  /\ Goto(Timer, "server_close")
  /\ UNCHANGED <<poolVars, hlock, mlock, tableVars, boundVars, on, cid, less, back, fd,
                 late, whose, histVars>>

\* Close of the manager whose timer it is takes the id out of its map, where the
\* id is not if the handler serves a connection of another manager by now.
EraseLate ==
  LET c == cid[Timer] IN
  /\ pc[Timer] = "erase"
  /\ CanLockManager(whose, Timer)
  /\ map' = IF ManagerOf(c) = whose THEN [map EXCEPT ![c] = NoHandler] ELSE map
  /\ Goto(Timer, "server_close")
  /\ UNCHANGED <<poolVars, hlock, mlock, queue, lastId, boundVars, on, cid, less, back,
                 fd, late, whose, histVars>>

\* ServerClose(CLIENT_CLOSE_IMMEDIATLY, PACKET_CHEK_TIMEOUT), without the lock
\* of the handler: ProcessMessageBlock makes a SENDTIMEOUT message of it.
ServerClose ==
  LET h == on[Timer] IN
  /\ pc[Timer] = "server_close"
  /\ Tell("SENDTIMEOUT", id[h])
  /\ cstate' = [cstate EXCEPT ![h] = "SERVER_CLOSE"]
  /\ Goto(Timer, "server_shut")
  /\ UNCHANGED <<inUse, id, sock, reg, count, parse, silent, hlock, mlock, tableVars,
                 boundVars, on, cid, less, back, fd, late, whose, closing, asked,
                 stray, clean>>

\* shutdown and ClearPacketParse.
ServerShut ==
  LET h == on[Timer] IN
  /\ pc[Timer] = "server_shut"
  /\ sock'  = [sock EXCEPT ![h] = 0]
  /\ reg'   = [reg EXCEPT ![h] = NoThread]
  /\ parse' = [parse EXCEPT ![h] = FALSE]
  /\ Goto(Timer, "server_recycle")
  /\ UNCHANGED <<inUse, id, count, cstate, silent, hlock, mlock, tableVars, boundVars,
                 on, cid, less, back, fd, late, whose, histVars>>

ServerRecycle ==
  /\ pc[Timer] = "server_recycle"
  /\ PoolDelete(Timer, on[Timer], TRUE)
  /\ Goto(Timer, "next")
  /\ UNCHANGED <<id, sock, reg, count, cstate, parse, silent, hlock, mlock, tableVars,
                 boundVars, on, cid, less, back, fd, late, whose, closing, told,
                 asked, stray>>

\* Time passes without a byte from the client; a call of handle_input, which
\* holds the lock, is shorter than m_u2MaxConnectTime.
GoSilent(h) ==
  /\ reg[h] # NoThread /\ ~silent[h] /\ hlock[h] = NoThread
  /\ silent' = [silent EXCEPT ![h] = TRUE]
  /\ UNCHANGED <<inUse, id, sock, reg, count, cstate, parse, hlock, mlock, tableVars,
                 boundVars, threadVars, histVars>>

-----------------------------------------------------------------------------
Init ==
  /\ inUse  = {}
  /\ id     = [h \in Handlers |-> 0]
  /\ sock   = [h \in Handlers |-> 0]
  /\ reg    = [h \in Handlers |-> NoThread]
  /\ count  = [h \in Handlers |-> 1]
  /\ cstate = [h \in Handlers |-> "INIT"]
  /\ parse  = [h \in Handlers |-> FALSE]
  /\ silent = [h \in Handlers |-> FALSE]
  /\ hlock  = [h \in Handlers |-> NoThread]
  /\ map    = [c \in Ids |-> NoHandler]
  /\ mlock  = [m \in Managers |-> NoThread]
  /\ queue  = [m \in Managers |-> <<>>]
  /\ lastId = 0 /\ accepted = 0 /\ posts = 0
  /\ pc     = [t \in Threads |-> "idle"]
  /\ on     = [t \in Threads |-> NoHandler]
  /\ cid    = [t \in Threads |-> 0]
  /\ less   = [t \in Threads |-> 1]
  /\ back   = [t \in Threads |-> "idle"]
  /\ fd     = [t \in Threads |-> 0]
  /\ late   = {} /\ whose = 0
  /\ closing = {}
  /\ told   = [k \in Kinds |-> {}]
  /\ asked  = {}
  /\ stray  = FALSE
  /\ clean  = TRUE

AcceptorStep == Accept \/ Open \/ AddConnect \/ Announce
ReactorStep(r) ==
  Dispatch(r) \/ HandleInput(r) \/ RecvData(r) \/ ReturnInput(r) \/ DropHandler(r)
SenderStep(m) ==
  \/ FindConnection(m) \/ SendMessage(m) \/ PutSendPacket(m)
  \/ SetSendQueueTimeCost(m) \/ ReturnSend(m)
TimerStep ==
  \/ \E m \in Managers : HandleTimeout(m)
  \/ NextLate \/ EraseLate \/ ServerClose \/ ServerShut \/ ServerRecycle

Next ==
  \/ AcceptorStep
  \/ \E r \in Reactors : ReactorStep(r)
  \/ \E m \in Managers : SenderStep(m)
  \/ TimerStep
  \/ \E t \in Threads : Close(t)
  \/ \E c \in Ids : PostMessage(c) \/ CloseConnect(c)
  \/ \E h \in Handlers : GoSilent(h)

Spec == Init /\ [][Next]_vars

\* The operating system runs every thread that is inside a call, the timer of a
\* manager expires again and again and a send thread takes what is queued.
\* Nobody has to connect, to send, to leave or to close.
FairSpec ==
  /\ Spec
  /\ WF_vars(Open \/ AddConnect \/ Announce)
  /\ \A r \in Reactors :
       WF_vars(HandleInput(r) \/ RecvData(r) \/ ReturnInput(r) \/ DropHandler(r))
  /\ \A m \in Managers : WF_vars(SenderStep(m)) /\ SF_vars(HandleTimeout(m))
  /\ WF_vars(NextLate \/ EraseLate \/ ServerClose \/ ServerShut \/ ServerRecycle)
  /\ \A t \in Threads : WF_vars(Close(t))

-----------------------------------------------------------------------------
(* Correctness                                                             *)

Steps == {"idle", "open", "add", "announce", "input", "recv", "return_0", "return_1",
          "failed", "send", "put", "cost", "return", "next", "erase", "server_close",
          "server_shut", "server_recycle", "dec", "test", "shut", "unmap", "recycle"}

PoolTypes ==
  /\ inUse \in SUBSET Handlers
  /\ id \in [Handlers -> Ids] /\ sock \in [Handlers -> Ids]
  /\ reg \in [Handlers -> Reactors \cup {NoThread}]
  /\ count \in [Handlers -> Nat]
  /\ cstate \in [Handlers -> {"INIT", "OPEN", "SERVER_CLOSE"}]
  /\ parse \in [Handlers -> BOOLEAN] /\ silent \in [Handlers -> BOOLEAN]
LockTypes ==
  /\ hlock \in [Handlers -> Threads \cup {NoThread}]
  /\ mlock \in [Managers -> Threads \cup {NoThread}]
TableTypes ==
  /\ map \in [Ids -> Handlers \cup {NoHandler}]
  /\ queue \in [Managers -> Seq(Ids)]
  /\ lastId \in Ids /\ accepted \in Ids /\ posts \in 0 .. MaxPosts
ThreadTypes ==
  /\ pc \in [Threads -> Steps]
  /\ on \in [Threads -> Handlers \cup {NoHandler}]
  /\ cid \in [Threads -> Ids]
  /\ less \in [Threads -> 1 .. 2]
  /\ back \in [Threads -> Steps]
  /\ fd \in [Threads -> Ids]
  /\ late \in SUBSET Handlers /\ whose \in Managers
HistoryTypes ==
  /\ closing \in SUBSET Handlers
  /\ told \in [Kinds -> SUBSET Ids]
  /\ asked \in SUBSET Ids
  /\ stray \in BOOLEAN /\ clean \in BOOLEAN

\* The types of the variables; in particular m_nIOCount is never negative, and
\* no more ConnectIDs are given than sockets accepted.
TypeOK == PoolTypes /\ LockTypes /\ TableTypes /\ ThreadTypes /\ HistoryTypes

\* Threads that raised the count of h and did not lower it yet.
Counted(h) ==
  {t \in Threads : /\ on[t] = h
                   /\ pc[t] \in {"recv", "put"} \/ (pc[t] = "dec" /\ back[t] # "idle")}

\* A handler between open and the first Close(2) counts its operations: one for
\* the connection and one for each operation in progress, on every path through
\* them ("number of current IO operations", ConnectHandler.h), as long as no
\* handler was recycled under a thread.
CountIsOperations ==
  clean => \A h \in inUse \ closing : count[h] = 1 + Cardinality(Counted(h))

\* A mapped ConnectID leads to a handler in use that carries this ConnectID, as
\* long as no handler was recycled under a thread.
TableIsCurrent ==
  \A c \in Ids : map[c] # NoHandler => map[c] \in inUse /\ id[map[c]] = c
TableIsCurrentWhileClean == clean => TableIsCurrent

\* From look-up to write the connection stays in the table, whoever closes it.
SendsToListed ==
  \A m \in Managers : pc[m] \in {"send", "put"} => map[cid[m]] = on[m]

\* What a blocked thread waits for: the holder of the lock it needs next.
Holder(t) ==
  CASE pc[t] \in {"open", "input", "send", "cost", "dec"} -> hlock[on[t]]
    [] pc[t] = "add" -> mlock[ManagerOf(lastId + 1)]
    [] pc[t] = "unmap" -> mlock[ManagerOf(cid[t])]
    [] pc[t] = "erase" -> mlock[whose]
    [] OTHER -> NoThread
WaitsFor(t, u) == t # u /\ Holder(t) = u

\* No threads wait for each other: the locks of handlers and of managers are
\* taken in both orders (send threads against open and RecvData), and only the
\* reference count keeps the two sides apart, as long as no handler was
\* recycled under a thread.  (Where ClientDataAlert sets no limit: a sender that
\* passes it closes with 2 under a reactor, whose Close(1) then goes on to the
\* lock of the manager while the sender waits for that of the handler.)
NoLockCycle ==
  clean => ~ \E W \in (SUBSET Threads) \ {{}} : \A t \in W : \E u \in W : WaitsFor(t, u)

\* A connection the plugins were told of, and whose handler went back to the
\* pool or on to another client, was also told to have ended: by Close or by
\* the timer, which leaves it to each other through m_u1ConnectState.
EndIsTold ==
  clean => \A c \in told["CONNECT"] : (\A h \in inUse : id[h] # c) =>
             c \in told["CDISCONNET"] \cup told["SENDTIMEOUT"]

\* A connection whose client is silent is heard again or leaves the table: the
\* timer of its manager takes care of every late handler it collected.
SilentIsDropped ==
  \A c \in Ids : (map[c] # NoHandler /\ silent[map[c]])
                  ~> (map[c] = NoHandler \/ ~silent[map[c]])

\* A handler that handle_close closes goes back to the pool, whatever sends and
\* the timer do meanwhile.
ClosedIsRecycled == \A h \in Handlers : h \in closing /\ h \in inUse ~> h \notin inUse

\* "the limit is passed, the connection must be closed" (PutSendPacket): a
\* connection refused by SendCheck leaves the table.
OverLimitIsClosed ==
  \A m \in Managers, c \in Ids :
    (pc[m] = "dec" /\ less[m] = 2 /\ cid[m] = c) ~> map[c] = NoHandler

\* "the server closes the connection" (IConnectManager.h): a connection given to
\* CloseConnect loses its socket.
AskedIsClosed ==
  \A c \in Ids : c \in asked ~> (\A h \in Handlers : id[h] = c => sock[h] = 0)

\* "u4ConnectID: the connection to send to": a packet goes to no other client.
DeliveredToOwn == ~stray
=============================================================================
