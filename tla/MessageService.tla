--------------------------- MODULE MessageService ---------------------------
(***************************************************************************)
(* The work threads of the server (Message/MessageService.cpp) and the     *)
(* part of Common/MakePacket.cpp that feeds them.                          *)
(*                                                                         *)
(* A CMessageServiceGroup owns NThreads CMessageService objects.  Each has *)
(* a bounded message queue, one thread (svc) that takes messages from it   *)
(* and runs the plugin modules on them, and a pool of CMessage objects.    *)
(* Network threads create a CMessage, fill it and put it in the queue of   *)
(* the thread chosen by the connection; a console thread may meanwhile     *)
(* unload a module (UnloadModule), which parks the threads first.          *)
(*                                                                         *)
(* A CMessage is a cell; of its _MessageBase the model keeps the packet    *)
(* type, which decides the route, and the identity of the packet: who sent *)
(* it and its rank there.  The rank of a connection's packets is the order *)
(* in which its handler made them (one thread at a time runs a handler).   *)
(***************************************************************************)
EXTENDS Naturals, Sequences, FiniteSets

CONSTANTS
  NThreads,     \* number of CMessageService objects (Msg_Thread)
  Conns,        \* TCP connections, by their ConnectID
  UdpSources,   \* listening UDP handlers
  Cells,        \* bound: the CMessage objects the pools may allocate
  NoCell,
  PoolSize,     \* MAX_MESSAGE_POOL: objects a pool allocates at start
  MaxQueue,     \* m_u4MaxQueue: limit PutMessage checks
  HighMark,     \* ACE high water mark of the queue, in messages
  MaxPackets,   \* bound: packets one producer makes
  MaxUnloads    \* bound: UnloadModule commands

Producers == Conns \cup UdpSources
Threads   == 0 .. NThreads - 1

ASSUME ThreadsAssumption == NThreads \in Nat \ {0}
ASSUME ProducersAssumption ==
  /\ Conns \subseteq Nat
  /\ Conns \cap UdpSources = {}
  /\ IsFiniteSet(Producers)
ASSUME CellsAssumption == NoCell \notin Cells
ASSUME LimitsAssumption ==
  /\ MaxQueue \in Nat \ {0}
  /\ HighMark \in Nat \ {0}
  /\ MaxPackets \in Nat
  /\ MaxUnloads \in Nat
  /\ PoolSize \in Nat

VARIABLES
  free, used,     \* per thread: m_mapMessageFree, m_mapMessageUsed of its pool
  base,           \* per cell: the _MessageBase it carries
  queue,          \* per thread: the ACE message queue
  ppc, hand,      \* per producer: step of ProcessMessageBlock, its CMessage
  target,         \* per producer: thread whose queue PutMessage checked
  sent,           \* per producer: packets made so far
  wpc, cur,       \* per thread: step of svc / ProcessMessage, its CMessage
  cmd,            \* per thread: the base read when processing began
  step,           \* per thread: m_ThreadInfo.m_u4State
  state,          \* per thread: m_emThreadState
  kept,           \* cells a module kept (blDeleteFlag = false)
  served,         \* per connection: rank of the last packet handled
  upc, uidx,      \* UnloadModule: its phase and its loop index
  unloads,        \* UnloadModule commands so far
  entered         \* per thread: messages begun since every thread was
                  \* marked and until the module is removed

poolVars == <<free, used, base>>
prodVars == <<ppc, hand, target, sent>>
workVars == <<wpc, cur, cmd, step, kept, served, entered>>
unloVars == <<state, upc, uidx, unloads>>
vars     == <<free, used, base, queue, ppc, hand, target, sent, wpc, cur, cmd,
              step, state, kept, served, upc, uidx, unloads, entered>>

-----------------------------------------------------------------------------
(* What a CMessage carries                                                 *)

Bases     == [type : {"TCP", "UDP"}, from : Producers \cup {NoCell}, num : 0 .. MaxPackets]
FreshBase == [type |-> "TCP", from |-> NoCell, num |-> 0]

\* The first packet of a connection is its CLIENT_LINK_CONNECT event and the
\* last its CLIENT_LINK_CDISCONNET event; every other one is a logic command.
IsLinkEvent(b) == b.from \in Conns /\ b.num \in {1, MaxPackets}

\* SetMessage, SetMessageConnect and SetMessageCDisConnect write the base of a
\* message; only the UDP variant of SetMessage writes m_u1PacketType.
SetMessage(b, p, n) ==
  [type |-> IF p \in UdpSources THEN "UDP" ELSE b.type, from |-> p, num |-> n]

\* (mutant) the route ignores the packet type and is always random.
GetWorkThreadIDRandom(p, type) == Threads

\* GetWorkThreadID: TCP by the ConnectID, UDP at random.
GetWorkThreadID(p, type) == IF type = "TCP" THEN {p % NThreads} ELSE Threads

-----------------------------------------------------------------------------
(* CMessagePool                                                            *)

Allocated == UNION {free[t] \cup used[t] : t \in Threads}

\* Create takes any free cell (the map is ordered by address), or allocates.
CreateFrom(t) == IF free[t] # {} THEN free[t] ELSE Cells \ Allocated

\* Delete returns a cell only if it is in this pool's used map.
PoolDelete(t, c) ==
  /\ used' = [used EXCEPT ![t] = @ \ {c}]
  /\ free' = [free EXCEPT ![t] = IF c \in used[t] THEN @ \cup {c} ELSE @]

-----------------------------------------------------------------------------
(* Network threads: CMakePacket::ProcessMessageBlock                       *)

\* CreateMessage picks the pool by the packet type of the connection, then the
\* SetMessage variants fill the cell.
CreateAndSet(p) ==
  /\ ppc[p] = "idle"
  /\ sent[p] < MaxPackets
  /\ \E t \in GetWorkThreadID(p, IF p \in UdpSources THEN "UDP" ELSE "TCP") :
       \E c \in CreateFrom(t) :
         /\ free' = [free EXCEPT ![t] = @ \ {c}]
         /\ used' = [used EXCEPT ![t] = @ \cup {c}]
         /\ base' = [base EXCEPT ![c] = SetMessage(@, p, sent[p] + 1)]
         /\ hand' = [hand EXCEPT ![p] = c]
  /\ ppc'  = [ppc EXCEPT ![p] = "filled"]
  /\ sent' = [sent EXCEPT ![p] = @ + 1]
  /\ UNCHANGED <<queue, target, workVars, unloVars>>

\* The group routes by the base of the message and ignores what PutMessage of
\* the service returns, so a refused message is forgotten, not deleted.
Forget(p) ==
  /\ ppc'  = [ppc EXCEPT ![p] = "idle"]
  /\ hand' = [hand EXCEPT ![p] = NoCell]

\* (mutant) the limit is compared with <= instead of <.
CheckQueueOffByOne(p) ==
  /\ ppc[p] = "filled"
  /\ \E t \in GetWorkThreadID(base[hand[p]].from, base[hand[p]].type) :
       \/ /\ Len(queue[t]) <= MaxQueue
          /\ target' = [target EXCEPT ![p] = t]
          /\ ppc'    = [ppc EXCEPT ![p] = "checked"]
          /\ UNCHANGED hand
       \/ /\ Len(queue[t]) > MaxQueue
          /\ Forget(p)
          /\ UNCHANGED target
  /\ UNCHANGED <<poolVars, queue, sent, workVars, unloVars>>

\* PutMessage: the limit is read before, and outside, the lock of the queue.
CheckQueue(p) ==
  /\ ppc[p] = "filled"
  /\ \E t \in GetWorkThreadID(base[hand[p]].from, base[hand[p]].type) :
       \/ /\ Len(queue[t]) < MaxQueue
          /\ target' = [target EXCEPT ![p] = t]
          /\ ppc'    = [ppc EXCEPT ![p] = "checked"]
          /\ UNCHANGED hand
       \/ /\ Len(queue[t]) >= MaxQueue
          /\ Forget(p)
          /\ UNCHANGED target
  /\ UNCHANGED <<poolVars, queue, sent, workVars, unloVars>>

\* putq blocks while the queue is at its high water mark ...
Putq(p) ==
  /\ ppc[p] = "checked"
  /\ Len(queue[target[p]]) < HighMark
  /\ queue' = [queue EXCEPT ![target[p]] = Append(@, hand[p])]
  /\ Forget(p)
  /\ UNCHANGED <<poolVars, target, sent, workVars, unloVars>>

\* ... and gives up after m_u4WorkQueuePutTime.
PutqTimeout(p) ==
  /\ ppc[p] = "checked"
  /\ Len(queue[target[p]]) >= HighMark
  /\ Forget(p)
  /\ UNCHANGED <<poolVars, queue, target, sent, workVars, unloVars>>

-----------------------------------------------------------------------------
(* Work threads: CMessageService::svc and ProcessMessage                   *)

Getq(w) ==
  /\ wpc[w] = "getq"
  /\ queue[w] # <<>>
  /\ cur'   = [cur EXCEPT ![w] = Head(queue[w])]
  /\ queue' = [queue EXCEPT ![w] = Tail(@)]
  /\ wpc'   = [wpc EXCEPT ![w] = "gate"]
  /\ UNCHANGED <<poolVars, prodVars, unloVars, cmd, step, kept, served, entered>>

\* (mutant) svc does not look at m_emThreadState.
PassGateUnguarded(w) ==
  /\ wpc[w] = "gate"
  /\ wpc' = [wpc EXCEPT ![w] = "passed"]
  /\ UNCHANGED <<poolVars, queue, prodVars, unloVars, cur, cmd, step, kept, served, entered>>

\* The loop that waits while a module is being unloaded; it is left at the
\* first look that finds THREAD_RUN.
PassGate(w) ==
  /\ wpc[w] = "gate"
  /\ state[w] = "RUN"
  /\ wpc' = [wpc EXCEPT ![w] = "passed"]
  /\ UNCHANGED <<poolVars, queue, prodVars, unloVars, cur, cmd, step, kept, served, entered>>

\* ProcessMessage announces THREAD_RUNBEGIN, then reads the command.
Begin(w) ==
  /\ wpc[w] = "passed"
  /\ step'    = [step EXCEPT ![w] = "RUNBEGIN"]
  /\ cmd'     = [cmd EXCEPT ![w] = base[cur[w]]]
  /\ wpc'     = [wpc EXCEPT ![w] = "begun"]
  /\ entered' = [entered EXCEPT ![w] = IF upc \in {"scan", "unload"} THEN @ + 1 ELSE @]
  /\ UNCHANGED <<poolVars, queue, prodVars, unloVars, cur, kept, served>>

\* The packet in cmd[w] has been handled, by a module or by a busy answer.
Handled(w) ==
  served' = [c \in Conns |-> IF c = cmd[w].from THEN cmd[w].num ELSE served[c]]

\* CheckCurrTimeout finds the command forbidden: the client gets the busy
\* answer, the message is deleted and the modules are not called.
Refuse(w) ==
  /\ wpc[w] = "begun"
  /\ ~IsLinkEvent(cmd[w])
  /\ PoolDelete(w, cur[w])
  /\ Handled(w)
  /\ step' = [step EXCEPT ![w] = "RUNEND"]
  /\ cur'  = [cur EXCEPT ![w] = NoCell]
  /\ wpc'  = [wpc EXCEPT ![w] = "getq"]
  /\ UNCHANGED <<base, queue, prodVars, unloVars, cmd, kept, entered>>

\* CMessageManager::DoMessage runs every module bound to the command; a module
\* may clear blDeleteFlag to keep the message.
DoMessage(w) ==
  /\ wpc[w] = "begun"
  /\ Handled(w)
  /\ \/ wpc' = [wpc EXCEPT ![w] = "delete"] /\ UNCHANGED kept
     \/ wpc' = [wpc EXCEPT ![w] = "tail"] /\ kept' = kept \cup {cur[w]}
  /\ UNCHANGED <<poolVars, queue, prodVars, unloVars, cur, cmd, step, entered>>

\* (mutant) the handled message is not given back to the pool.
DeleteMessageSkipped(w) ==
  /\ wpc[w] = "delete"
  /\ wpc' = [wpc EXCEPT ![w] = "tail"]
  /\ UNCHANGED <<poolVars, queue, prodVars, unloVars, cur, cmd, step, kept, served, entered>>

DeleteMessage(w) ==
  /\ wpc[w] = "delete"
  /\ PoolDelete(w, cur[w])
  /\ wpc' = [wpc EXCEPT ![w] = "tail"]
  /\ UNCHANGED <<base, queue, prodVars, unloVars, cur, cmd, step, kept, served, entered>>

\* (mutant) the message is deleted a second time.
FinishDeletesAgain(w) ==
  /\ wpc[w] = "tail"
  /\ PoolDelete(w, cur[w])
  /\ step' = [step EXCEPT ![w] = "RUNEND"]
  /\ cur'  = [cur EXCEPT ![w] = NoCell]
  /\ wpc'  = [wpc EXCEPT ![w] = "getq"]
  /\ UNCHANGED <<base, queue, prodVars, unloVars, cmd, kept, served, entered>>

\* (mutant) THREAD_RUNEND is not announced.
FinishKeepsRunBegin(w) ==
  /\ wpc[w] = "tail"
  /\ cur'  = [cur EXCEPT ![w] = NoCell]
  /\ wpc'  = [wpc EXCEPT ![w] = "getq"]
  /\ UNCHANGED <<poolVars, queue, prodVars, unloVars, cmd, step, kept, served, entered>>

\* The statistics are charged to the command found in the cell after it was
\* deleted; then THREAD_RUNEND.
Finish(w) ==
  /\ wpc[w] = "tail"
  /\ step' = [step EXCEPT ![w] = "RUNEND"]
  /\ cur'  = [cur EXCEPT ![w] = NoCell]
  /\ wpc'  = [wpc EXCEPT ![w] = "getq"]
  /\ UNCHANGED <<poolVars, queue, prodVars, unloVars, cmd, kept, served, entered>>

-----------------------------------------------------------------------------
(* Console thread: CMessageServiceGroup::UnloadModule                      *)

StartUnload ==
  /\ upc = "idle"
  /\ unloads < MaxUnloads
  /\ unloads' = unloads + 1
  /\ upc'     = "mark"
  /\ uidx'    = 0
  /\ UNCHANGED <<poolVars, queue, prodVars, workVars, state>>

\* (mutant) the loop index is not reset for the next loop.
AdvanceNoReset(next) ==
  /\ uidx' = uidx + 1
  /\ upc'  = IF uidx + 1 = NThreads THEN next ELSE upc
  /\ UNCHANGED unloads

\* The loop over the threads moves on; after the last one the next phase begins.
Advance(next) ==
  /\ uidx' = (uidx + 1) % NThreads
  /\ upc'  = IF uidx + 1 = NThreads THEN next ELSE upc
  /\ UNCHANGED unloads

MarkThread ==
  /\ upc = "mark"
  /\ state' = [state EXCEPT ![uidx] = "MODULE_UNLOAD"]
  /\ Advance("scan")
  /\ UNCHANGED <<poolVars, queue, prodVars, workVars>>

\* A thread found at THREAD_RUNBEGIN restarts the whole scan.
ScanThread ==
  /\ upc = "scan"
  /\ \/ /\ step[uidx] = "RUNBEGIN"
        /\ uidx' = 0
        /\ UNCHANGED <<upc, unloads>>
     \/ /\ step[uidx] # "RUNBEGIN"
        /\ Advance("unload")
  /\ UNCHANGED <<poolVars, queue, prodVars, workVars, state>>

\* UnloadModuleCommand has removed the module: resume the threads.
UnloadModuleCommand ==
  /\ upc = "unload"
  /\ upc' = "resume"
  /\ entered' = [t \in Threads |-> 0]
  /\ UNCHANGED <<poolVars, queue, prodVars, wpc, cur, cmd, step, kept, served,
                 state, uidx, unloads>>

\* (mutant) only the first thread is resumed.
ResumeFirstOnly ==
  /\ upc = "resume"
  /\ state' = [state EXCEPT ![uidx] = "RUN"]
  /\ upc'   = "idle"
  /\ UNCHANGED <<poolVars, queue, prodVars, workVars, uidx, unloads>>

ResumeThread ==
  /\ upc = "resume"
  /\ state' = [state EXCEPT ![uidx] = "RUN"]
  /\ Advance("idle")
  /\ UNCHANGED <<poolVars, queue, prodVars, workVars>>

-----------------------------------------------------------------------------
Init ==
  /\ free    \in [Threads -> {S \in SUBSET Cells : Cardinality(S) = PoolSize}]
  /\ \A t, u \in Threads : t # u => free[t] \cap free[u] = {}
  /\ used    = [t \in Threads |-> {}]
  /\ base    = [c \in Cells |-> FreshBase]
  /\ queue   = [t \in Threads |-> <<>>]
  /\ ppc     = [p \in Producers |-> "idle"]
  /\ hand    = [p \in Producers |-> NoCell]
  /\ target  = [p \in Producers |-> 0]
  /\ sent    = [p \in Producers |-> 0]
  /\ wpc     = [t \in Threads |-> "getq"]
  /\ cur     = [t \in Threads |-> NoCell]
  /\ cmd     = [t \in Threads |-> FreshBase]
  /\ step    = [t \in Threads |-> "INIT"]
  /\ state   = [t \in Threads |-> "RUN"]
  /\ kept    = {}
  /\ served  = [c \in Conns |-> 0]
  /\ upc     = "idle"
  /\ uidx    = 0
  /\ unloads = 0
  /\ entered = [t \in Threads |-> 0]

Put(p) == CheckQueue(p) \/ Putq(p) \/ PutqTimeout(p)

Work(w) ==
  \/ Getq(w) \/ PassGate(w) \/ Begin(w) \/ Refuse(w)
  \/ DoMessage(w) \/ DeleteMessage(w) \/ Finish(w)

Unload == MarkThread \/ ScanThread \/ UnloadModuleCommand \/ ResumeThread

Next ==
  \/ \E p \in Producers : CreateAndSet(p) \/ Put(p)
  \/ \E w \in Threads : Work(w)
  \/ StartUnload
  \/ Unload

Spec == Init /\ [][Next]_vars

-----------------------------------------------------------------------------
(* Correctness                                                             *)

\* Every variable has its type; a producer has a message in hand unless idle,
\* a work thread unless it waits at its queue.
TypeOK ==
  /\ free \in [Threads -> SUBSET Cells]
  /\ used \in [Threads -> SUBSET Cells]
  /\ base \in [Cells -> Bases]
  /\ queue \in [Threads -> Seq(Cells)]
  /\ ppc \in [Producers -> {"idle", "filled", "checked"}]
  /\ hand \in [Producers -> Cells \cup {NoCell}]
  /\ target \in [Producers -> Threads]
  /\ sent \in [Producers -> 0 .. MaxPackets]
  /\ wpc \in [Threads -> {"getq", "gate", "passed", "begun", "delete", "tail"}]
  /\ cur \in [Threads -> Cells \cup {NoCell}]
  /\ cmd \in [Threads -> Bases]
  /\ step \in [Threads -> {"INIT", "RUNBEGIN", "RUNEND"}]
  /\ state \in [Threads -> {"RUN", "MODULE_UNLOAD"}]
  /\ kept \subseteq Cells
  /\ served \in [Conns -> 0 .. MaxPackets]
  /\ upc \in {"idle", "mark", "scan", "unload", "resume"}
  /\ uidx \in Threads
  /\ unloads \in 0 .. MaxUnloads
  /\ entered \in [Threads -> Nat]
  /\ \A p \in Producers : ppc[p] = "idle" <=> hand[p] = NoCell
  /\ \A w \in Threads : wpc[w] = "getq" <=> cur[w] = NoCell

\* A work thread owns its message until it hands it to the pool or a module.
Owns(w) == wpc[w] \in {"gate", "passed", "begun", "delete"}

InQueue(c) == \E t \in Threads : \E i \in DOMAIN queue[t] : queue[t][i] = c
InHand(c)  == \E p \in Producers : hand[p] = c
AtWork(c)  == \E w \in Threads : Owns(w) /\ cur[w] = c
InFlight(c) == InQueue(c) \/ InHand(c) \/ AtWork(c) \/ c \in kept

QueuedOnce ==
  \A t, u \in Threads : \A i \in DOMAIN queue[t], j \in DOMAIN queue[u] :
    queue[t][i] = queue[u][j] => t = u /\ i = j
HandsDiffer == \A p, q \in Producers : hand[p] = hand[q] /\ hand[p] # NoCell => p = q
WorksDiffer == \A v, w \in Threads : Owns(v) /\ Owns(w) /\ cur[v] = cur[w] => v = w
OneKindOfHolder ==
  \A c \in Cells :
    /\ InQueue(c) => ~InHand(c) /\ ~AtWork(c) /\ c \notin kept
    /\ InHand(c) => ~AtWork(c) /\ c \notin kept
    /\ AtWork(c) => c \notin kept
CountedAsUsed == \A c \in Cells : InFlight(c) => \E t \in Threads : c \in used[t]
PoolsDisjoint ==
  \A t, u \in Threads :
    /\ free[t] \cap used[u] = {}
    /\ t # u => free[t] \cap free[u] = {} /\ used[t] \cap used[u] = {}

\* Every message in flight has one holder: one place of one queue, one
\* producer, one work thread, or the module that kept it; a pool counts it as
\* used and none offers it as free.  (CMessagePool::Delete clears a message
\* before it looks whether the message is in use, so one that was handed out
\* twice would be emptied under its second holder.)
OneHolder ==
  /\ QueuedOnce
  /\ HandsDiffer
  /\ WorksDiffer
  /\ OneKindOfHolder
  /\ CountedAsUsed
  /\ PoolsDisjoint

\* No CMessage is lost: one that a pool counts as used is somewhere on its way.
NothingLost == \A t \in Threads : \A c \in used[t] : InFlight(c)

\* A queue never passes its high water mark, and passes m_u4MaxQueue only by
\* the producers that read its length before the others put theirs.
Checked(t) == {p \in Producers : ppc[p] = "checked" /\ target[p] = t}
QueueBound ==
  \A t \in Threads :
    /\ Len(queue[t]) <= HighMark
    /\ Len(queue[t]) + Cardinality(Checked(t)) <= MaxQueue + Cardinality(Producers) - 1

\* What thread w is about to handle is newer than all it, or any other thread,
\* handled for that connection: packets of a connection are never reordered
\* or handled twice.
ServedInOrder ==
  \A w \in Threads : wpc[w] = "begun" /\ cmd[w].from \in Conns =>
    cmd[w].num > served[cmd[w].from]

\* Two threads never have messages of one connection at the same time
\* ("one Connectid belongs to one thread only", MessageService.h).
SourcesAt(t) ==
  {base[queue[t][i]].from : i \in DOMAIN queue[t]}
    \cup (IF Owns(t) THEN {base[cur[t]].from} ELSE {})
OneThreadPerConnection ==
  \A t, u \in Threads : t # u => SourcesAt(t) \cap SourcesAt(u) \cap Conns = {}

\* While a module is being unloaded a thread begins at most one message: the
\* one with which it had passed the gate before it was marked.
AtMostOneStraggler ==
  upc \in {"scan", "unload"} => \A w \in Threads : entered[w] <= 1

\* No thread is inside the modules while one of them is removed.
UnloadQuiescent == upc = "unload" => \A w \in Threads : wpc[w] # "begun"

-----------------------------------------------------------------------------
(* Scheduling: the operating system runs every thread that can run, and    *)
(* plugin modules return.  Nothing obliges a client to send.               *)

Fairness ==
  /\ \A p \in Producers : WF_vars(Put(p))
  /\ \A w \in Threads : WF_vars(Work(w))
  /\ WF_vars(Unload)

FairSpec == Spec /\ Fairness

\* An unload command waits for the threads but not for ever.
UnloadReturns == upc # "idle" ~> upc = "idle"

\* A packet that was made is eventually handled, unloads notwithstanding.
HandledEventually ==
  \A c \in Conns : \A n \in 1 .. MaxPackets : sent[c] >= n ~> served[c] >= n

-----------------------------------------------------------------------------
(* The work threads implement one ordered channel per connection.          *)

\* A packet that is not handled yet is in the hand of the handler of its
\* connection, in a queue, or with a thread that has not run the modules on it.
Waiting(x) ==
  \/ InHand(x) \/ InQueue(x)
  \/ \E w \in Threads : wpc[w] \in {"gate", "passed", "begun"} /\ cur[w] = x

\* The packets of connection c on their way.
InTransit(c) == {base[x].num : x \in {y \in Cells : Waiting(y) /\ base[y].from = c}}

Channel == INSTANCE ConnectionOrder WITH
  sent    <- [c \in Conns |-> sent[c]],
  pending <- [c \in Conns |-> InTransit(c)]

\* Every step of the work threads is a step, or no step, of the channels.
ImplementsChannels == Channel!Spec
=============================================================================
