------------------------------- MODULE Framing -------------------------------
(***************************************************************************)
(* How the bytes of a TCP connection become packets: RecvData and          *)
(* RecvData_et of CConnectHandler in the mode PACKET_WITHHEAD, with the    *)
(* calls they make to a packet parser (CPacketParse).  The client sends a  *)
(* head, which says how long the body is, and the body; the network        *)
(* delivers the bytes in pieces of any size.  The handler keeps one block  *)
(* (m_pCurrMessage) that is first as long as a head, then as long as the   *)
(* body the head announced, and m_u4CurrSize, the bytes it holds.          *)
(*                                                                         *)
(* A byte is its position in the stream of the connection; what a head     *)
(* says is the length of the packet that begins at its first byte.  A      *)
(* block that does not begin a packet but is read as a head says any       *)
(* length.  A packet handed on is the positions of its head and its body.  *)
(*                                                                         *)
(* Two things the configuration and the plugin decide are fixed at the     *)
(* beginning: et (NETWORKMODE_RE_EPOLL_ET, the loop of RecvData_et) and    *)
(* marks (SetPacketHead sets m_blIsHead, as PacketParse's guide asks and   *)
(* as the CPacketParse of this repository does not).                       *)
(***************************************************************************)
EXTENDS Naturals, Sequences

CONSTANTS
    HeadLen,          \* GetPacketHeadLen()
    BodyLens,         \* the lengths a head can announce
    MaxPacketSize,    \* m_u4MaxPacketSize: a body must be shorter
    MaxPackets,       \* bound: packets a client sends
    MaxConnections    \* bound: connections the handler serves in turn

ASSUME HeadAssumption == HeadLen \in Nat \ {0}

ASSUME BodyAssumption == BodyLens \subseteq Nat

ASSUME SizeAssumption == MaxPacketSize \in Nat \ {0}

ASSUME BoundAssumption == MaxPackets \in Nat /\ MaxConnections \in Nat

VARIABLES
    et,         \* the network mode: RecvData_et serves the connection
    marks,      \* the parser: SetPacketHead sets m_blIsHead
    opened,     \* connections the handler has served
    wire,       \* the packets the client sends: where they begin, how long
    wireEnd,    \* where the last of them ends
    arrived,    \* bytes the network has delivered to the socket
    fin,        \* the client has closed its side
    pc,         \* "armed", "recv" or "idle" (given back to the pool)
    closedBy,   \* which branch closed the connection
    taken,      \* bytes recv has returned
    block,      \* m_pCurrMessage: first byte, size() and length()
    currSize,   \* m_u4CurrSize
    parse,      \* m_pPacketParse: m_blIsHead and m_pmbHead
    delivered   \* packets handed to CMakePacket

client == <<opened, wire, wireEnd, arrived, fin>>

vars == <<et, marks, client, pc, closedBy, taken, block, currSize, parse,
          delivered>>

Frame == [at : Nat, len : BodyLens]

Packet == [head : Nat, body : Nat, len : Nat]

Branches == {"none", "size", "recv", "head", "check", "server"}

(* No head yet: every block begins at a position, so it needs a mark. *)
NoHead == [got |-> FALSE, at |-> 0]

(* CPacketParse::Init, when the pool hands a parser out. *)
NewParse == [isHead |-> FALSE, head |-> NoHead]

(* App_MessageBlockManager::Create: an empty block for the bytes from at. *)
NewBlock(at, size) == [at |-> at, size |-> size, length |-> 0]

Init ==
    /\ et \in BOOLEAN
    /\ marks \in BOOLEAN
    /\ opened = 0
    /\ wire = <<>>
    /\ wireEnd = 0
    /\ arrived = 0
    /\ fin = FALSE
    /\ pc = "idle"
    /\ closedBy = "none"
    /\ taken = 0
    /\ block = NewBlock(0, HeadLen)
    /\ currSize = 0
    /\ parse = NewParse
    /\ delivered = <<>>

-----------------------------------------------------------------------------
(* The client and the network. *)

(* CConnectHandler::open: the handler of the pool serves a new client. *)
Open ==
    /\ pc = "idle"
    /\ opened < MaxConnections
    /\ opened' = opened + 1
    /\ wire' = <<>>
    /\ wireEnd' = 0
    /\ arrived' = 0
    /\ fin' = FALSE
    /\ pc' = "armed"
    /\ closedBy' = "none"
    /\ taken' = 0
    /\ block' = NewBlock(0, HeadLen)
    /\ currSize' = 0
    /\ parse' = NewParse
    /\ delivered' = <<>>
    /\ UNCHANGED <<et, marks>>

(* The client writes a packet whose body is n bytes long. *)
Send(n) ==
    /\ pc # "idle"
    /\ ~fin
    /\ Len(wire) < MaxPackets
    /\ wire' = Append(wire, [at |-> wireEnd, len |-> n])
    /\ wireEnd' = wireEnd + HeadLen + n
    /\ UNCHANGED <<et, marks, opened, arrived, fin, pc, closedBy, taken, block,
                   currSize, parse, delivered>>

(* The network delivers the bytes before position p. *)
Arrive(p) ==
    /\ pc # "idle"
    /\ ~fin
    /\ p > arrived
    /\ arrived' = p
    /\ UNCHANGED <<et, marks, opened, wire, wireEnd, fin, pc, closedBy, taken,
                   block, currSize, parse, delivered>>

(* The client closes, perhaps in the middle of a packet. *)
Fin ==
    /\ pc # "idle"
    /\ ~fin
    /\ fin' = TRUE
    /\ UNCHANGED <<et, marks, opened, wire, wireEnd, arrived, pc, closedBy,
                   taken, block, currSize, parse, delivered>>

-----------------------------------------------------------------------------
(* The reactor and the handler. *)

(* dispatch_io_event: the handle is registered for one event, taken out of *)
(* the interest set before handle_input and put back, with a new look at   *)
(* the socket, when handle_input returns 0.                                *)
Dispatch ==
    /\ pc = "armed"
    /\ taken < arrived \/ fin
    /\ pc' = "recv"
    /\ UNCHANGED <<et, marks, client, closedBy, taken, block, currSize, parse,
                   delivered>>

(* ClearPacketParse or the loss of the parser, Close and a return of -1,   *)
(* after which the reactor removes the handler.                            *)
Drop(branch) ==
    /\ pc' = "idle"
    /\ closedBy' = branch
    /\ parse' = NewParse

(* What the block still takes: nCurrCount. *)
Room == block.size - currSize

\* (mutant) a recv that returns 0 is taken for one that would block.
RecvNothingIgnored ==
    /\ pc = "recv"
    /\ \/ currSize >= block.size
       \/ taken = arrived /\ (fin \/ ~et)
    /\ pc' = "armed"
    /\ UNCHANGED <<et, marks, client, closedBy, taken, block, currSize, parse,
                   delivered>>

(* The connection ends before recv (m_u4CurrSize beyond the block) or when *)
(* recv returns nothing: the client has closed and its bytes are all       *)
(* taken, the handler asked for no byte at all, or RecvData waited and     *)
(* none came.                                                              *)
RecvNothing ==
    /\ pc = "recv"
    /\ \/ currSize >= block.size
       \/ taken = arrived /\ (fin \/ ~et)
    /\ Drop(IF currSize > block.size THEN "size" ELSE "recv")
    /\ currSize' = 0
    /\ UNCHANGED <<et, marks, client, taken, block, delivered>>

(* recv returns -1 with EAGAIN: the loop of RecvData_et is done. *)
RecvAgain ==
    /\ pc = "recv"
    /\ et
    /\ ~fin
    /\ taken = arrived
    /\ currSize < block.size
    /\ currSize' = 0
    /\ pc' = "armed"
    /\ UNCHANGED <<et, marks, client, closedBy, taken, block, parse, delivered>>

(* What recv returns when there is something: as much as the block still   *)
(* takes, or what there is.                                                *)
Got == IF Room <= arrived - taken THEN Room ELSE arrived - taken

\* (mutant) the short read forgets how much the block holds.
ShortReadForgets(n) ==
    /\ block.size > currSize + n
    /\ currSize' = 0
    /\ block' = [block EXCEPT !.length = @ + n]
    /\ pc' = "armed"
    /\ UNCHANGED <<closedBy, parse, delivered>>

\* (mutant) a full block is taken for a short read.
ShortReadOffByOne(n) ==
    /\ block.size >= currSize + n
    /\ currSize' = currSize + n
    /\ block' = [block EXCEPT !.length = @ + n]
    /\ pc' = "armed"
    /\ UNCHANGED <<closedBy, parse, delivered>>

\* (mutant) RecvData_et reads on after a short read, until EAGAIN.
ShortReadLoops(n) ==
    /\ block.size > currSize + n
    /\ currSize' = currSize + n
    /\ block' = [block EXCEPT !.length = @ + n]
    /\ pc' = IF et THEN "recv" ELSE "armed"
    /\ UNCHANGED <<closedBy, parse, delivered>>

(* A short read: both functions return, and the block waits. *)
ShortRead(n) ==
    /\ block.size > currSize + n
    /\ currSize' = currSize + n
    /\ block' = [block EXCEPT !.length = @ + n]
    /\ pc' = "armed"
    /\ UNCHANGED <<closedBy, parse, delivered>>

(* After a packet or a head RecvData returns, RecvData_et reads on. *)
Onward == pc' = IF et THEN "recv" ELSE "armed"

(* CheckMessage: the rate check may refuse the packet, which closes the    *)
(* connection; else the packet goes to CMakePacket, and the handler takes  *)
(* a new parser and a block for the next head.                             *)
CheckMessage(packet, next) ==
    \/ /\ Drop("check")
       /\ UNCHANGED <<currSize, block, delivered>>
    \/ /\ delivered' = Append(delivered, packet)
       /\ parse' = NewParse
       /\ block' = NewBlock(next, HeadLen)
       /\ currSize' = 0
       /\ Onward
       /\ UNCHANGED closedBy

(* The lengths a block at p can announce: that of the packet which begins  *)
(* there, or any when none does.                                           *)
Announced(p) ==
    LET begins == {i \in DOMAIN wire : wire[i].at = p}
    IN  IF begins = {} THEN BodyLens ELSE {wire[i].len : i \in begins}

\* (mutant) the length alone tells a head from a body.
LengthOfHead(length) == length = HeadLen

(* The test that tells a head from a body. *)
LooksLikeHead(length) == length = HeadLen /\ ~parse.isHead

\* (mutant) a body of MaxPacketSize bytes passes.
TakeHeadOffByOne(n, next) ==
    \/ /\ n = 0
       /\ CheckMessage([head |-> block.at, body |-> next, len |-> 0], next)
    \/ /\ n > 0
       /\ n > MaxPacketSize
       /\ Drop("head")
       /\ currSize' = 0
       /\ UNCHANGED <<block, delivered>>
    \/ /\ n > 0
       /\ n <= MaxPacketSize
       /\ parse' = [isHead |-> marks, head |-> [got |-> TRUE, at |-> block.at]]
       /\ block' = NewBlock(next, n)
       /\ currSize' = 0
       /\ Onward
       /\ UNCHANGED <<closedBy, delivered>>

(* SetPacketHead, when n is the length it finds. *)
TakeHead(n, next) ==
    \/ /\ n = 0
       /\ CheckMessage([head |-> block.at, body |-> next, len |-> 0], next)
    \/ /\ n > 0
       /\ n >= MaxPacketSize
       /\ Drop("head")
       /\ currSize' = 0
       /\ UNCHANGED <<block, delivered>>
    \/ /\ n > 0
       /\ n < MaxPacketSize
       /\ parse' = [isHead |-> marks, head |-> [got |-> TRUE, at |-> block.at]]
       /\ block' = NewBlock(next, n)
       /\ currSize' = 0
       /\ Onward
       /\ UNCHANGED <<closedBy, delivered>>

(* SetPacketBody. *)
TakeBody(length, next) ==
    CheckMessage([head |-> parse.head.at, body |-> block.at, len |-> length],
                 next)

(* recv returns n bytes. *)
RecvSome ==
    /\ pc = "recv"
    /\ currSize < block.size
    /\ taken < arrived
    /\ LET n      == Got
           length == block.length + n
           next   == taken + n
       IN  /\ taken' = next
           /\ \/ ShortRead(n)
              \/ /\ block.size <= currSize + n
                 /\ LooksLikeHead(length)
                 /\ \E len \in Announced(block.at) : TakeHead(len, next)
              \/ /\ block.size <= currSize + n
                 /\ ~LooksLikeHead(length)
                 /\ TakeBody(length, next)
    /\ UNCHANGED <<et, marks, client>>

(* ServerClose (the timer, a module): the parser and the block are given   *)
(* back between two reads; m_u4CurrSize stays as it is.                    *)
ServerClose ==
    /\ pc = "armed"
    /\ Drop("server")
    /\ UNCHANGED <<et, marks, client, taken, block, currSize, delivered>>

Receive == RecvNothing \/ RecvAgain \/ RecvSome

Next ==
    \/ Open
    \/ \E n \in BodyLens : Send(n)
    \/ \E p \in 1..wireEnd : Arrive(p)
    \/ Fin
    \/ Dispatch
    \/ Receive
    \/ ServerClose

Spec == Init /\ [][Next]_vars

(* The reactor keeps polling and the thread it runs keeps running; no      *)
(* client and no network has to do anything.                               *)
FairSpec == Spec /\ WF_vars(Dispatch) /\ WF_vars(Receive)

-----------------------------------------------------------------------------
(* The types, and the state of the block: it holds exactly the bytes taken *)
(* since its first, m_u4CurrSize counts them, and it is never full when    *)
(* recv is called.                                                         *)
TypeOK ==
    /\ et \in BOOLEAN /\ marks \in BOOLEAN /\ fin \in BOOLEAN
    /\ opened \in Nat /\ wireEnd \in Nat /\ arrived \in 0..wireEnd
    /\ wire \in Seq(Frame)
    /\ pc \in {"armed", "recv", "idle"}
    /\ closedBy \in Branches
    /\ taken \in 0..arrived
    /\ block \in [at : Nat, size : Nat, length : Nat]
    /\ currSize \in Nat
    /\ parse \in [isHead : BOOLEAN, head : [got : BOOLEAN, at : Nat]]
    /\ delivered \in Seq(Packet)
    /\ pc # "idle" => /\ block.at + block.length = taken
                      /\ currSize = block.length
                      /\ currSize < block.size

(* RecvData can tell the head from the body in packet i and those before   *)
(* it: the parser marks the head, or no body is as long as a head.         *)
Tellable(i) ==
    \A j \in 1..i : j <= Len(wire) => marks \/ wire[j].len # HeadLen

(* And none of them is too long. *)
Proper(i) ==
    /\ Tellable(i)
    /\ \A j \in 1..i : j <= Len(wire) => wire[j].len < MaxPacketSize

Cut(w) == [head |-> w.at, body |-> w.at + HeadLen, len |-> w.len]

(* However the network cuts the stream, in both modes and whatever became  *)
(* of earlier connections of the handler, the packets handed on are those  *)
(* the client sent, in order, none left out, with the head and the body    *)
(* where the client put them, up to the first whose body is as long as a   *)
(* head for a parser that does not mark heads.  (RecvData, RecvData_et:    *)
(* the short read keeps m_u4CurrSize, each head and each packet resets it.)*)
FramesIntact ==
    \A i \in 1..Len(delivered) :
        Tellable(i) => i <= Len(wire) /\ delivered[i] = Cut(wire[i])

(* A packet that announces MaxPacketSize bytes or more ends its            *)
(* connection: neither it nor anything after it is handed on.              *)
OversizeEnds ==
    \A i \in 1..Len(delivered) :
        Tellable(i) /\ i <= Len(wire) => wire[i].len < MaxPacketSize

Complete(i) == i <= Len(wire) /\ arrived >= wire[i].at + HeadLen + wire[i].len

(* A proper packet that has arrived is handed on without another byte or   *)
(* event having to come, also when the client closes right after it,       *)
(* unless the server closed the connection or the rate check did.          *)
ArrivedIsServed ==
    \A i \in 1..MaxPackets :
        (pc # "idle" /\ Complete(i) /\ Proper(i))
            ~> (Len(delivered) >= i \/ closedBy \in {"server", "check"})

(* A client that closes is noticed, also when its last packet is only half *)
(* there and the short read has returned before the end was seen.          *)
EndIsNoticed == (fin /\ pc # "idle") ~> (pc = "idle")
=============================================================================
