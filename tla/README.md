# PurenessScopeServer: TLA+ models, model checking and proofs

PurenessScopeServer (`src/purenessscopeserver/PurenessScopeServer`, C++ on ACE)
is a TCP/UDP server framework: network threads cut the byte streams of clients
into packets, a group of work threads runs plugin modules on them, modules
answer through the connection table. This directory models its core, checks the
models with TLC and proves the most important facts with TLAPS.

Paths below are relative to that directory. The model follows the Linux build
(`Reactor/`); the Windows front end (`Proactor/`) speaks the same protocol.

## 1. Inventory

| component | state | operations | hard parts | what makes it correct |
|---|---|---|---|---|
| work threads, `Message/MessageService.cpp` | per thread: ACE queue, `m_emThreadState`, `m_ThreadInfo.m_u4State`, a message pool | `PutMessage`, `svc`, `ProcessMessage`, `UnloadModule`, watchdog `handle_timeout` | many producers, unlocked length test, unload handshake through two unsynchronised flags, thread kill and restart | order per connection, bounded queues, no lost or shared message, unload is exclusive and ends |
| message pool, `Message/Message.cpp` | free and used maps | `Create`, `Delete` | objects recycled with their old base | one holder per message, nothing leaks |
| packet to message, `Common/MakePacket.cpp` | stateless but for a pool | `PutMessageBlock`, `PutUDPMessageBlock`, `ProcessMessageBlock`, `PutSendErrorMessage` | events of one connection made by several threads | every event of a connection reaches its thread once |
| command table, `Message/MessageManager.cpp` | commands to modules, modules to commands | `AddClientCommand`, `DelClientCommand`, `DoMessage`, `UnloadModuleCommand` | unload while threads run, reload | the two tables agree |
| module loader, `Message/LoadModule.cpp` | loaded modules | `LoadModule`, `UnLoadModule`, `Close` | reload, close while walking | a loaded module is registered, an unloaded one gone |
| self protection, `Message/WorkThreadAI.cpp` | ring of late commands, forbidden list | `SaveTimeout`, `CheckCurrTimeout` | ring boundary, expiry | a command is forbidden for its time only |
| TCP connection, `Reactor/ConnectHandler.cpp` | `m_nIOCount`, `m_u1ConnectState`, `m_emStatus`, buffers | `open`, `handle_input`, `SendMessage`, `PutSendPacket`, `Close`, `ServerClose` | reference count tested outside the lock, recycled handlers | closed once, never used after recycling |
| connection table, `CConnectManager` (same file) | map of connections, send queue | `AddConnect`, `CloseConnect`, `PostMessage`, `PostMessageAll`, timer | timer against map, buffers shared by receivers | map and pool agree, every buffer freed once |
| admission, `Reactor/ConnectAccept.cpp`, `Common/ForbiddenIP.cpp`, `Common/IPAccount.h` | counters and lists per address | `make_svc_handler`, `AddIP`, `CheckIP` | limits off by one, refusal lost | limits hold, bans expire |
| outgoing connections, `Reactor/ClientReConnectManager.cpp` | map of servers, state | `Connect`, timer, `Close`, `SendData` | retry, lock held over a blocking send | a lost server is connected again |
| buffer pools (`BuffPacketManager`, `MessageBlockManager`, `PacketParsePool`, `SendMessage`) | free and used maps | create, delete | as the message pool | as the message pool |
| packet framing, `PacketParse/`, `RecvData` | partial packet per connection | `RecvData`, `CheckMessage` | arbitrary split of the stream | same packets whatever the split |
| statistics, timers, console, server start, configuration, log, mail, UDP sockets, reactors | | | | `PROJECT.json` says what is done with each |

How they interact: `CConnectHandler::handle_input` (network thread) cuts a packet and
calls `CMakePacket::PutMessageBlock`, which takes a `CMessage` from the pool of the
work thread of that connection, fills it and puts it in that thread's queue. `svc`
takes it out, waits at a gate while a module is being unloaded, and
`ProcessMessage` runs the modules (`CMessageManager::DoMessage`) and gives the
message back. Modules answer with `CConnectManagerGroup::PostMessage`, which
queues a send for a sending thread. `open`, `Close` and `ServerClose` of a
connection make events that travel the same way as packets. The console calls
`UnloadModule`; timers call the watchdog and the checks of the connection table.

`PROJECT.json` lists every component with what is modelled of it, every hazard of
this code we know of at its line, and which property watches it.

## 2. Plan

Order of work, most important first:

1. **MessageService** with **ConnectionOrder** (done): the path of a packet from
   the network thread to the modules; unload of modules; proofs.
2. **ConnectHandler** (done): handlers through `open`, `handle_input`, sends,
   `Close`, `ServerClose`, recycling; the reference count and its unlocked test; the
   table, the timer, the pool; every safety property proved.
3. **WorkThreadAI** (done): which commands a work thread forbids, with the ring;
   everything but liveness proved.
4. **ModuleManager** (done): command table and module loader; load, unload, load
   again, against threads inside `DoMessage`, those among them that `UnloadModule`
   does not see; everything proved.
5. **Framing** (done): the stream of a client into packets, in both receive loops;
   everything but liveness proved.

Abstract specifications: ordered channel per connection (`ConnectionOrder`). In
Framing and WorkThreadAI the reference is a history variable instead: the stream
as the client wrote it, the late runs as they happened.

Every safety property that a run checks is proved (section 5); what is left to TLC is
liveness. Worth modelling next: the send path (`PostMessageAll`, the water marks of
`CheckSendMask`, the ownership of its buffers) and the lists and counters of
admission, and then: every buffer freed once, a ban that ends. Section 7 says why
the rest is left out.

## 3. Modules

### MessageService

State, and the code it stands for:

| variable | code |
|---|---|
| `free`, `used` | `m_mapMessageFree`, `m_mapMessageUsed` of the pool of each thread |
| `base` | the `_MessageBase` of a message: packet type, sender, rank |
| `queue` | the ACE message queue of each `CMessageService` |
| `ppc`, `hand`, `target`, `sent` | where a producer is in `ProcessMessageBlock`, the message it fills, the queue it checked |
| `wpc`, `cur`, `cmd` | where a work thread is in `svc`/`ProcessMessage`, its `CMessage*`, the command read at its start |
| `step`, `state` | `m_ThreadInfo.m_u4State`, `m_emThreadState` |
| `upc`, `uidx` | the console thread inside `UnloadModule` and its loop index |
| `kept`, `served`, `entered`, `unloads` | messages kept by modules; history: last packet handled, messages begun since all threads were marked; bound |

Actions are the pieces of code between two points where another thread can see
or change something. Producers: `CreateAndSet` (create and fill), `CheckQueue`
(length test), `Putq` or `PutqTimeout`. Work threads: `Getq`, `PassGate`,
`Begin` (THREAD_RUNBEGIN), `Refuse` (command forbidden) or `DoMessage`,
`DeleteMessage`, `Finish` (statistics, THREAD_RUNEND). Console: `StartUnload`,
`MarkThread` for each thread, `ScanThread` restarting when it meets a running
thread, `UnloadModuleCommand`, `ResumeThread` for each thread.

What is abstracted. A cell stands for a `CMessage`; payload, sizes, times and
statistics are dropped. The command is its rank: the first packet of a
connection is its connect event, the last its disconnect. Whether a command is
forbidden (`CWorkThreadAI`) and whether a module keeps a message are free choices.
The packets of one connection come from one producer; the events that other
threads may make for it (`ServerClose`, `PutSendErrorMessage`) are left to the
ConnectHandler model. One unload runs at a time, as the console commands of one
operator do. The watchdog is not in this module, so a thread is never replaced. Of the two water
marks of a queue (`open`, lines 114-115) only the high one is modelled: a put that waits
may go on as soon as there is room, where ACE wakes it at the low mark, and gives up
only while there is none. No property depends on the difference: a refusal changes no
queue, whenever it comes.

### ConnectionOrder

The abstract promise to a connection: packets are received, the newest may be
refused (full queue), the oldest is handled. `MessageService!ImplementsChannels`
maps it: pending are the packets in the hand of the producer, in a queue, and with a
thread that has not run the modules on it yet (`Waiting`). They are a set; that the
oldest is handled and the newest refused is what the places must provide.

### MCMessageService

Instantiates MessageService for TLC: symmetry of the cells. Each run has its cfg.

### ConnectHandler

| variable | code |
|---|---|
| `inUse` | `m_mapMessageUsed` of `CConnectHandlerPool` |
| `id`, `count`, `cstate`, `parse`, `silent`, `hlock` | `m_u4ConnectID`, `m_nIOCount`, `m_u1ConnectState`, `m_pPacketParse` set, `m_atvInput` too old, `m_ThreadLock` of a handler |
| `sock`, `reg` | its socket, the reactor that has it |
| `map`, `mlock`, `queue`, `lastId` | the table, the lock and the send queue of each manager; the counter of the group |
| `pc`, `on`, `cid`, `less`, `back`, `fd` | where each thread is and the local variables of its call |
| `late`, `whose` | the handlers collected by the timer, the manager whose timer it is |
| `closing`, `told`, `asked`, `stray`, `clean` | history |

Threads: the acceptor (`Accept`, `Open`, `AddConnect`, `Announce`), the client
reactors (`Dispatch`, `HandleInput`, `RecvData`, `ReturnInput`, `DropHandler`), a
send thread per manager (`FindConnection`, `SendMessage`, `PutSendPacket`,
`SetSendQueueTimeCost`, `ReturnSend`), the timer (`HandleTimeout`, `NextLate`,
`EraseLate`, `ServerClose`, `ServerShut`, `ServerRecycle`; `whose` is the manager
whose map `EraseLate` looks into). `Close` is a procedure of
five steps (`CloseCount` to `CloseRecycle`) any of them calls: the count is lowered
under the lock and tested outside it. Plugins and console call `PostMessage` and
`CloseConnect`, one critical section each.

`clean` says that no handler was given back to the pool while another thread was
in a call on it or the timer had it in its list. The code does not guarantee that
(`stray`), and once it happened two threads or two clients share a handler and little
holds. `CountIsOperations`, `TableIsCurrentWhileClean`, `NoLockCycle` and `EndIsTold` are
therefore promised for as long as it did not; `SendsToListed`, `SilentIsDropped` and
`ClosedIsRecycled` hold with it.

Abstracted: bytes and framing (`RecvData` ends in one of three ways), times (a
client falls silent, a send is late, as a free choice; a call of `handle_input` is
shorter than `m_u2MaxConnectTime`), allocation (succeeds; so the return of `RecvData_et`
without its `Close` when no parser can be had, lines 1060-1065, which leaves the count one
too high, does not occur), the reactor (level
triggered mode, one thread each). Sockets are numbered, so a reused descriptor is
not confused with its predecessor. The timer's walk over the table is one step.

### MCConnectHandler

Instantiates ConnectHandler for TLC: symmetry of the handlers.

### WorkThreadAI

| variable | code |
|---|---|
| `on`, `checkTime`, `stopTime` | `m_u1WTAI`, `m_u4WTCheckTime`, `m_u4WTStopTime` |
| `known`, `ring`, `index` | `m_vecCommandTime`: the commands with a ring, `m_pRingLink` and `m_nIndex` of each |
| `bans` | `m_vecCommandTimeout`, in order |
| `now` | `gettimeofday`, in seconds |
| `running`, `inside` | the command `ProcessMessage` read at its start, between check and note |
| `lates`, `blurred`, `resets`, `misreads` | history: the late runs of each command; commands whose runs and records differ; bounds |

`Run` and `Refuse` are `CheckCurrTimeout` with its two answers, `SaveTimeout` is the end
of `ProcessMessage`, `ReSet` the console, `Tick` the clock. Whether a run is late
(`m_u4DisposeTime`) is a free choice. `ProcessMessage` reads the command for
`SaveTimeout` from a message it has already given back (`MessageService.cpp:311`), so
`SaveTimeout` may be given another one; that command and the one that ran are
`blurred`, and the properties speak of all the others. The same holds for a command
during whose run the console switches the guard on or off.

### ModuleManager

| variable | code |
|---|---|
| `loaded`, `fileOf` | `m_mapModuleInfo` of `CLoadModule`, and the file of each module |
| `listed`, `lists` | `m_mapClientCommand`: commands with a list, the registrations of each |
| `modules` | `m_mapModuleClient`: the registrations of each module |
| `loading`, `todo`, `loads` | the console inside `LoadModuleData` of a plugin; bound |
| `upc`, `unloading`, `marked`, `scanned` | the console inside `UnloadModule`: its module, the threads with THREAD_MODULE_UNLOAD, those the scan has passed |
| `passed` | threads between the gate of `svc` and THREAD_RUNBEGIN |
| `busy`, `count`, `at`, `call` | a work thread in `DoMessage`: command, `nCount`, `i`, the registration it calls |
| `strays` | history: threads whose message a scan overlooked |
| `owed`, `called` | history: who was registered when the message came, who was called |

`LoadModule` adds the module, `Register` is one command of its `LoadModuleData`,
`EndLoad` its return or failure. `UnloadModule` is `StartUnload`, `MarkThread` and
`ScanThread` for each thread, `UnloadModuleCommand`, which takes the registrations
back, `CloseModule`, which tells the plugin (it takes its commands back once more)
and drops it from the map, and `ResumeThread` for each thread. A work thread does
`PassGate`, then `Ignore` (a command that is banned or nobody registered) or
`StartMessage`, `CallModule` per registration, and `EndMessage`.

Nothing in the model keeps threads out of `DoMessage` while a module goes but these
steps of the code. A thread that has passed the gate when the scan passes it becomes
a stray: it may start its message before, between or after `UnloadModuleCommand` and
`CloseModule`, walk a list that gets shorter under its `nCount`, and be inside a
module whose library is closed. What `GetClientCommandIndex` returns from a list
that was shortened under its reader is undefined (the vector is erased from, the
registration freed): `Indexed` lets it be any registration that was there or is
there, or none. `CallsLoaded` and `HeardByAll` are promised for the messages no scan
overlooked, however many strays run beside them; without that condition TLC
refutes both, which is what `quiescent` shows of the same handshake in
MessageService. `TablesAgree` and `RegisteredOnce` hold whoever runs.

THREAD_RUNBEGIN, the look-up of the list and `GetCount` are one step. A scan that meets
a thread between them waits, and nothing is loaded while an unload goes on, so for
a message that was not overlooked they can be moved together. For one that was, the
list itself may be freed in between; nothing is said of it, since it stays a stray
until its message ends. The order of the threads in the loops of `UnloadModule` is
left open. Modules know each other by the name they give themselves, which two
files may share, but not by the name of a file (`FilesAssumption`: no module is
called like a file).

### Framing

| variable | code |
|---|---|
| `block`, `currSize`, `parse` | `m_pCurrMessage` with size and length, `m_u4CurrSize`, `m_pPacketParse` |
| `taken` | what `recv` has returned |
| `et`, `marks` | configuration: `RecvData_et` or `RecvData`; a parser that sets `m_blIsHead` or not |
| `pc`, `closedBy` | where the handler is, which branch closed the connection |
| `wire`, `wireEnd`, `arrived`, `fin` | the client and the network: packets sent, bytes delivered, end |
| `delivered`, `opened` | history: packets handed to `CMakePacket`; bound |

A byte is its position in the stream, so a packet handed on says exactly which
bytes became its head and its body. `RecvSome` is one `recv` with the branch it
takes (`ShortRead`, `TakeHead`, `TakeBody`); `RecvNothing` and `RecvAgain` are `recv` without a
byte. A block that begins no packet but is taken for a head announces any length.
The handler is recycled (`ServerClose`, `Open`) with whatever it has in hand, between two
reads: `ServerClose` takes no lock and may come into the middle of `RecvData`, which then
goes on with a block that was given back. That is undefined and belongs to what
`stray` shows. A closed
connection and a packet refused by the rate check are free choices.

### MCWorkThreadAI, MCModuleManager, MCFraming

Instantiate the three for TLC (the values of functions and sets, symmetry).

### The proof modules

`MessageService_proofs` and, on top of it, `MessageOrder_proofs`; `ConnectHandler_proofs`
and, each on the one before, `ConnectLife_proofs` and `ConnectLocks_proofs`;
`WorkThreadAI_proofs`, `Framing_proofs`, `ModuleManager_proofs`: the theorems of section 5.

## 4. Runs

| run | instance | shows |
|---|---|---|
| `tcp` | 2 threads, 2 connections of one thread, 5 cells, limit and high mark 2, 3 packets each, one unload | `TypeOK`, `ServedInOrder`, `OneThreadPerConnection`, `AtMostOneStraggler`, `OneHolder`, `QueueBound` |
| `live` | 2 connections of one thread, 2 packets each, one unload, fair threads, queues that never fill | `UnloadReturns`, `HandledEventually`, `ImplementsChannels`, `NothingLost` |
| `quiescent`, `udp_route` | small | the disagreements of section 6 |
| `table` | two handlers, two connections, two managers, one send, limit on sends, timer, `CloseConnect` | `TypeOK`, `CountIsOperations`, `TableIsCurrentWhileClean`, `SendsToListed`, `EndIsTold` |
| `drop` | one connection, one send, fair threads | `SilentIsDropped`, `ClosedIsRecycled`, `NoLockCycle` |
| `over_limit`, `close_connect`, `stray` | small | the disagreements of section 6 |
| `ai` | 2 commands, ring of 2, clock 2 to 5, bans of 1 or 2 seconds, one change of settings, one misread | `TypeOK`, `RingHoldsLates`, `OneBanEach`, `BannedWhenEarned`, `BannedStaysOut`, `BanEnds` |
| `modules` | 3 plugin files (2 of one name), 2 commands, 2 threads, 3 loads, any number of unloads | `TypeOK`, `TablesAgree`, `RegisteredOnce`, `CallsLoaded`, `HeardByAll` |
| `framing` | head of 2 bytes, bodies of 0, 2, 3 or 4, limit 4, 3 packets, 2 clients in turn, both loops, both kinds of parsers | `TypeOK`, `FramesIntact`, `OversizeEnds`, `ArrivedIsServed`, `EndIsNoticed` |

Bounds. `Handlers` bounds what the pool creates, `MaxConns` the clients, `MaxPosts`
the packets posted. One handler and two connections are the least that recycle
one; two handlers let one connection be sent to while the other is opened or
closed. One reactor thread and one manager (the default `SendQueueCount` is 1)
already interleave with the acceptor, the timer and the console; `table` has two
managers, so that a late handler may have become a connection of the other one
before the timer comes to it; `stray` needs three
connections to hand one handler out twice. `Cells` bounds what `new CMessage` may allocate, `MaxPackets` the packets of
a producer, `MaxUnloads` the commands; they only end behaviours, so `CHECK_DEADLOCK`
is off. Two threads are the least with a wrong thread to choose; the two connections
meet in one queue (1 and 3 are both odd). A limit of
two with three packets each makes queues fill; a high mark at the limit
makes both tests bite. Cells are interchangeable, hence the symmetry; it is not
used with liveness or refinement. The theorems remove the bounds for what they state.

In `ai` a ring of two is the least whose newest and oldest entries differ, and the
clock runs long enough for the index to wrap, a ban to end and another to begin.
In `framing` the bodies are none, as long as a head, a proper one and one at the
limit; the head of two bytes and every point of arrival cut each packet at every
byte, and the second client meets what the first left in the handler. In `modules`
two files of one name meet, a command has two modules, and each may come and go
and come again; of two threads one may stray while the other is waited for, and a
stray outlives its module and meets the next of its name. The threads are
interchangeable there (symmetry).

Fairness (`FairSpec`): every thread that can take a step takes one eventually. The
operating system schedules threads, modules are expected to return, and each step
is a bounded piece of code; nothing obliges a client to send or an operator to
unload, so those actions are not fair. In ConnectHandler a thread inside a call goes on,
a send thread takes what is queued and the timer of each manager expires again
and again; clients need not connect, send or leave. The drop of a silent client
is checked with a single connection and without a limit on sends: with several a
handler may be recycled in use (`stray`), with a limit threads can block each other
for ever (`over_limit`).

In WorkThreadAI time passes, modules return, and a client goes on asking for the
command: a strong fairness of `Run`, since the queue of the thread is first in first
out and a command is not passed over for ever. In Framing only the reactor and its
thread are fair; no client sends, no network delivers and nobody closes unless it
happens.

## 5. Proofs

`MessageService_proofs` proves for every number of threads, connections, UDP
sources, cells and every limit (assumptions: the `ASSUME`s of MessageService; the
limits are positive, connections are numbers and not UDP sources, producers are
finitely many):

* `TypeCorrect`, `MessagesHaveOneHolder`: `IInd` is `TypeOK`, `HandBase` and
  `OneHolder`. `TypeOK` alone is not inductive: `CheckQueue` routes by what the
  message in hand says, so the route stays in range only because that is the
  producer's own packet (`HandBase`); this holds because nobody fills a message
  another one holds, which is `OneHolder`. `OneHolder` is proved through the places
  a message can be in: each action moves one message between two places.
* `QueuesAreBounded`: at the length test at most all producers are past it, so
  length plus those past it stays below limit plus producers; afterwards a put
  turns one of the latter into one of the former.
* `OneStragglerPerThread`: `StragglerInv` says how far the marking loop is and that
  a marked thread either still has its one message before it or has begun it.

`MessageOrder_proofs` adds what holds on a server without UDP sources (`UdpSources = {}`;
with one, `udp_route` refutes the order), again for every number of the rest:

* `TcpServedInOrder`, `TcpOneThread`: `Row` says where the packets of a connection are.
  They meet in one thread (`AtHome`) and stand there in a row: at work, in the queue
  from front to back, in the hand of the handler. Along the row the numbers rise
  (`Rising`), from the packet handled last to the one received last (`Ranged`). That each
  queue is in order is not inductive by itself: nothing in it says that the packet
  to be put is newer than those in the queue, nor which thread it goes to.
* `TcpNothingLost`: a message is counted by the pool of the thread of its connection
  (`UsedAtHome`), so the thread that handles it gives it back to the right pool.
  Assumes limits that all the messages together do not reach (`Roomy`): a message a
  full queue refused is lost (`Forget`).
* `TcpImplementsChannels`: under the row each step maps to `Receive` (`CreateAndSet`),
  `Refuse` (a full queue), `Handle` (the modules run, or the command is refused), or to
  no step of `ConnectionOrder`.

`ConnectHandler_proofs` proves for every number of handlers, reactors, managers,
connections and packets (assumptions: the `ASSUME`s of ConnectHandler; at least one
manager, threads of different kinds are different):

* `ConnectionTypes`: `IType` adds to `TypeOK` what a step relies on: `Close` returns
  to where it was called (`BackKind`), a thread inside a call has a handler
  (`OnKnown`), and each accepted socket is numbered once (`LastBelowAccepted`).
* `SenderKeepsItsConnection`: `SInv` says that a sender holds the lock of its own
  manager, that a manager only queues packets of its own connections, and that
  the connection is still in the table. Every step that changes the table takes
  the lock of the manager of the ConnectID first (`ChangesTable`), so it changes the
  entry of another connection; all the other steps leave senders alone
  (`SameSenders`).

`ConnectLife_proofs` proves the three promises that hold as long as no handler was
recycled under a thread (`clean`), for the same constants with finitely many reactors:

* `TableStaysCurrent`: `Users` says who can be on a handler in each of its ages. Free:
  nobody, and nothing leads to it (`Free`). Being opened: only the acceptor (`Alone`);
  once it is in the table also senders, which wait for its lock until it is
  registered (`Announcing`). Closing: the closer has taken away what leads others to it
  before it gives it back (`CutOf`; the timer does since what a manager has collected
  are its own connections, `Owners`). `clean` enters where the closer gives back a
  handler: whoever else was on it would have made `clean` false.
* `EveryEndIsTold`: `Ends` adds who has the duty: whoever passed the test of `Close` tells
  (`CloserTold`), or finds the mark of the timer, which told (`MarkTold`).
* `CountCountsOperations`: `Counts` follows the count through all of `Close`. A thread is
  counted from the step that raises the count to the one that lowers it; `Close(2)`
  lowers it by two and takes the one of the connection with it.

`ConnectLocks_proofs` proves for the same constants, without a limit on sends
(`LimitSends = FALSE`), also as long as `clean`:

* `NoThreadsInACycle`: `open` and `RecvData` hold the lock of a handler and want that of a
  manager, a send thread the other way round. Yet who is waited for with the lock of a
  handler does not wait itself. The acceptor: while it wants the lock of the manager
  nobody else is on the handler (`Alone`), and afterwards it wants none. A reactor: the
  count still has one for its connection and one for the operation (`Counts`), so its
  `Close(1)` inside `RecvData` does not go on to the lock of the manager. So only send threads are waited for and
  wait, and no two of them for each other. With a limit a refused send takes the count
  of the connection (`Close(2)`) under the reactor; TLC then finds the cycle in the
  instance of `drop`, which is how `over_limit` comes to its end.

`WorkThreadAI_proofs` proves for every size of the ring, every set of commands and
settings (assumptions: a ring has a slot, the clock starts past every check time):

* `GuardTypes`, `RingIsHistory`: a lemma says that a slot read before an entry is
  added is found one further back afterwards, for every position of the index; so
  the ring of a command that is not blurred always equals its history.
* `OneBanPerCommand`, `BannedCommandsStayOut`: a command inside a run has no entry in
  the list (the check let it pass and erased the one that was over), hence the entry
  `SaveTimeout` appends is its only one. That is the invariant `SaveTimeout` itself
  relies on.
* `BansAreEarned`: a step property from the three: the decision looks at the oldest
  entry of the ring after the new one is in, which is the TimeoutCount-th late run.

`Framing_proofs` proves for every length of head, set of bodies, limit, and number
of packets and clients (assumptions: a head has a byte, the limit is positive):

* `FramingTypes`: the agreement of `m_u4CurrSize`, block and position, with `Fresh`: a
  socket that would block finds the block of the handler empty or the loop left, so the
  reset of `m_u4CurrSize` before EAGAIN loses nothing.
* `PacketsAreFramed`, `OversizeIsDropped`: `FramingInv` adds `WireOK` (each packet begins
  where the one before ends) and `Aligned`: as long as the packets so far were
  tellable, the block begins the next packet, or its body with the head in the parser
  and a length below the limit. `FramesIntact` itself is not inductive: nothing in it
  says where the block stands.

`ModuleManager_proofs` proves for every number of threads, set of files and commands
(assumptions: `FilesAssumption`):

* `ModuleTypes`, `TablesAlwaysAgree`, `ModulesRegisterOnce`: `Tables` adds to the agreement
  that a name is loaded once, a list has no entry twice, entries are of loaded modules
  for commands their plugin knows (`OfLoaded`), what a module being loaded has yet to
  register is in no list (`Loading`), and between `UnloadModuleCommand` and `CloseModule`
  nothing is left of the module but empty lists of commands it knows (`Closing`). So, as
  each list holds a module at most once, one erasure per list takes back all there is of
  it (`TakeBackErases`), and the second round of the plugin erases nothing of another
  module (`CloseModuleEffect`). None of it looks at the work threads.
* `CalledModulesAreLoaded`, `ModulesHearAll`: `Handshake` says that a thread the scan has
  passed has no message and gets none, or is a stray; from it follows that when a
  list is shortened or a library closed every thread inside `DoMessage` is a stray.
  `Walks` says that what any other busy thread counted, found and ran is a prefix of its
  list: to those threads lists only grow. A thread the present scan has overlooked still
  counts with them (`Sound`), for the scan may start over. The number of registrations
  found is the number counted since none is listed twice.

Model-checked only: liveness, since fairness and ENABLED are out of the prover's reach
(`UnloadReturns`, `HandledEventually`, `SilentIsDropped`, `ClosedIsRecycled`, `BanEnds`,
`ArrivedIsServed`, `EndIsNoticed`). The order, the channels and `NothingLost` are proved,
as they are checked, without UDP sources only.

## 6. Where the code disagrees with its comments and documents

* `quiescent`: a thread between the gate and THREAD_RUNBEGIN is not seen by
  `UnloadModule` and runs modules while one is removed. At most one message per
  thread slips through (`AtMostOneStraggler`, proved). ModuleManager has what it may
  then do (`strays`), and what is still promised to the others.
* `udp_route`: the packet type of a recycled message is never reset, so a TCP packet
  in a message once used for UDP goes to a random thread.
* `over_limit`: after a refused send the reactor and the send thread can each hold
  the lock the other needs; the connection that "must be closed" stays for ever.
* `close_connect`: `CloseConnect` takes a connection out of the table and does not
  close it; silence does not either, since the timer walks the table: only the
  client can end it.
* `stray`: a handler given back twice serves two ConnectIDs, and a packet posted
  to one client reaches another.

Seen while modelling, visible in the actions, but not given a run:

* a UDP message handled by another thread than the one that created it never returns
  to a pool (`CreateAndSet` and `DeleteMessage` use different pools);
* `CMessageServiceGroup::PutMessage` returns true whatever happened, so a message a
  full queue refused is never deleted (`Forget`);
* `ProcessMessage` reads the command of a message it has already given back, to
  leave link events out of the statistics (`Finish`) and to note a late command,
  which may then be another one (`SaveTimeout` of WorkThreadAI);
* the end of a connection may be told twice: `RecvData` makes the event for a bad
  stream and the `Close` that follows makes it again; a refused `open` makes it for
  the previous connection of its handler (`Open`, `CloseTest`);
* a silent client is announced as a late send: `ProcessMessageBlock` makes the same
  message of PACKET_CHEK_TIMEOUT and PACKET_SEND_TIMEOUT (`ServerClose`);
* `ServerClose` returns a handler to the pool without a look at its count;
* a reload never loads: `UnloadModuleCommand` asks the loader for the module it has
  just unloaded, to learn its path (`MessageManager.cpp:254-264`);
* a module whose `LoadModuleData` fails before it registered a command stays loaded,
  can neither be unloaded (`MessageManager.cpp:215` knows it not) nor loaded again, and
  the console reports success either way; loading a loaded plugin again leaks a
  reference of `dlopen`;
* `CLoadModule::Close` walks its map by index while it removes from it and skips every
  second module; `LoadModule` with a parameter deletes the info of a module that
  failed and leaves it in the map (`LoadModule.cpp:153`);
* `m_u4DisposeTime` is cut to 16 bits on its way, and a TimeoutCount of 0 makes a ring
  without a slot, which `SaveTimeout` writes to (`CountAssumption`);
* the guide of packet parsers (`../PacketParse/PacketParse编写指南.txt:24`) wants
  `SetPacketHead` to set `m_blIsHead`; the `CPacketParse` beside it does not, and a body
  exactly as long as a head (40 bytes) is taken for a head (`marks` FALSE: `FramesIntact`
  holds up to the first such packet and with `marks` TRUE throughout);
* `RecvData_et` calls `ClearPacketParse` after `Close` may have recycled the handler;
  `Close` releases `m_pCurrMessage` without a reset of the pointer, which a refused `open`
  of the recycled handler finds again;
* `PutSendPacket` reads the length of a packet before it tests the pointer that an
  empty packet without head leaves NULL (`ConnectHandler.cpp:1394`);
* no server is ever connected from this side: `CReactorClientInfo::Run` connects unless
  the state is SERVER_CONNECT_FIRST or SERVER_CONNECT_RECONNECT, and its callers pass
  only these (`ClientReConnectManager.cpp:70`); the client object it keeps makes the
  timer believe in a connection.

One document says less than the code: `doc/chinese/配置文件说明书.txt` lines 47-51 say
that with several threads packets of a client are handled out of order; the code
keeps the order per connection (`ServedInOrder`, TCP).

## 7. Not modelled

* Outgoing connections (`ClientReConnectManager`, `ConnectClient`): `Run` never
  connects (section 6), so on this build there is no behaviour behind it.
* The watchdog of the work threads: `handle_timeout` signals the late thread with
  SIGUSR1, for which nothing here installs a handler, so the default action ends the
  process; did it not, the service, its queue and its pool would be deleted while the
  thread, and network threads, may be inside. There is no state to continue with.
* The send path: `PostMessageAll`, the water marks of `CheckSendMask`, who owns a send
  buffer. In ConnectHandler a send is refused or late by free choice.
* Admission (`ForbiddenIP`, `IPAccount`): a refusal is a free choice of `Accept` and
  `Open`.
* The stream mode of packet parsers, failing allocations, the ownership of message
  blocks.
* Shutdown: the `Close` of each component, called once when nobody is served.
* Statistics, timers (the thread that dispatches them), log files, mail, configuration,
  encryption: input and output, or state no decision depends on.
* Vendored code (TinyXML, strtk, Lua, the copy of ACE's reactor), client tools and
  example modules: separate programs or other people's code.
