---------------------------- MODULE Framing_proofs ----------------------------
(***************************************************************************)
(* Theorems about Framing, for every length of the head, every set of      *)
(* lengths of bodies and every limit.                                      *)
(***************************************************************************)
EXTENDS Framing, TLAPS

Assumptions == /\ HeadLen \in Nat /\ HeadLen > 0
               /\ BodyLens \subseteq Nat
               /\ MaxPacketSize \in Nat /\ MaxPacketSize > 0

LEMMA AssumptionsHold == Assumptions
BY HeadAssumption, BodyAssumption, SizeAssumption DEF Assumptions

-----------------------------------------------------------------------------
(* Types                                                                   *)

LEMMA NewBlockType ==
  ASSUME NEW at \in Nat, NEW size \in Nat
  PROVE  /\ NewBlock(at, size) \in [at : Nat, size : Nat, length : Nat]
         /\ NewBlock(at, size).at = at
         /\ NewBlock(at, size).size = size
         /\ NewBlock(at, size).length = 0
BY DEF NewBlock

LEMMA NewParseType ==
  /\ NewParse \in [isHead : BOOLEAN, head : [got : BOOLEAN, at : Nat]]
  /\ ~NewParse.isHead
  /\ ~NewParse.head.got
BY DEF NewParse, NoHead

LEMMA AnnouncedType ==
  ASSUME TypeOK, NEW p, NEW len \in Announced(p)
  PROVE  len \in BodyLens /\ len \in Nat
<1>1. len \in BodyLens
  <2>1. \A i \in DOMAIN wire : wire[i].len \in BodyLens
    <3>1. wire \in Seq(Frame)
      BY DEF TypeOK
    <3>2. \A i \in DOMAIN wire : wire[i] \in Frame
      BY <3>1
    <3>3. QED BY <3>2 DEF Frame
  <2>2. CASE {i \in DOMAIN wire : wire[i].at = p} = {}
    BY <2>2 DEF Announced
  <2>3. CASE {i \in DOMAIN wire : wire[i].at = p} # {}
    BY <2>1, <2>3 DEF Announced
  <2>4. QED BY <2>2, <2>3
<1>2. QED BY <1>1, AssumptionsHold DEF Assumptions

\* What a recv that returns something returns: it fills the block, or takes
\* all there is.
LEMMA GotFits ==
  ASSUME TypeOK, pc = "recv", taken < arrived
  PROVE  /\ Got \in Nat \ {0}
         /\ taken + Got \in 0..arrived
         /\ block.length + Got = currSize + Got
         /\ currSize + Got <= block.size
         /\ block.at + (block.length + Got) = taken + Got
<1>1. /\ block.at \in Nat /\ block.size \in Nat /\ block.length \in Nat
      /\ currSize \in Nat /\ taken \in Nat /\ arrived \in Nat
      /\ block.at + block.length = taken
      /\ currSize = block.length
      /\ currSize < block.size
  BY DEF TypeOK
<1>2. CASE Room <= arrived - taken
  BY <1>1, <1>2 DEF Got, Room
<1>3. CASE ~(Room <= arrived - taken)
  BY <1>1, <1>3 DEF Got, Room
<1>4. QED BY <1>2, <1>3

\* recv never finds nothing while the block holds a part of a head or of a
\* body: the short read returned, and the next event brought something.  It is
\* why the m_u4CurrSize = 0 of RecvData_et at EAGAIN forgets nothing.
Fresh ==
  pc = "recv" => taken < arrived \/ fin \/ block.length = 0

LEMMA InitType == Init => TypeOK
<1> SUFFICES ASSUME Init PROVE TypeOK OBVIOUS
<1>1. block \in [at : Nat, size : Nat, length : Nat]
  BY NewBlockType, AssumptionsHold DEF Init, Assumptions
<1>2. parse \in [isHead : BOOLEAN, head : [got : BOOLEAN, at : Nat]]
  BY NewParseType DEF Init
<1>3. wire \in Seq(Frame) /\ delivered \in Seq(Packet)
  BY DEF Init
<1>4. /\ taken = 0 /\ arrived = 0 /\ wireEnd = 0 /\ currSize = 0 /\ opened = 0
      /\ fin = FALSE /\ et \in BOOLEAN /\ marks \in BOOLEAN
      /\ closedBy = "none" /\ pc = "idle"
  BY DEF Init
<1>5. closedBy \in Branches
  BY <1>4 DEF Branches
<1>6. arrived \in 0..wireEnd /\ taken \in 0..arrived
  BY <1>4
<1>7. QED BY <1>1, <1>2, <1>3, <1>4, <1>5, <1>6 DEF TypeOK

\* The state of the block is all that the steps of the handler can disturb.
BlockOK ==
  pc # "idle" => /\ block.at + block.length = taken
                 /\ currSize = block.length
                 /\ currSize < block.size

LEMMA OpenType == TypeOK /\ Open => TypeOK'
<1> SUFFICES ASSUME TypeOK, Open PROVE TypeOK' OBVIOUS
<1>1. /\ block' \in [at : Nat, size : Nat, length : Nat]
      /\ block'.at = 0 /\ block'.size = HeadLen /\ block'.length = 0
  BY NewBlockType, AssumptionsHold DEF Open, Assumptions
<1>2. wire' \in Seq(Frame) /\ delivered' \in Seq(Packet)
  BY DEF Open
<1>3. parse' \in [isHead : BOOLEAN, head : [got : BOOLEAN, at : Nat]]
  BY NewParseType DEF Open
<1>4. /\ taken' = 0 /\ arrived' = 0 /\ wireEnd' = 0 /\ currSize' = 0
      /\ opened' = opened + 1 /\ fin' = FALSE /\ et' = et /\ marks' = marks
      /\ closedBy' = "none" /\ pc' = "armed"
  BY DEF Open
<1>5. closedBy' \in Branches
  BY <1>4 DEF Branches
<1>6. BlockOK'
  BY <1>1, <1>4, AssumptionsHold DEF BlockOK, Assumptions
<1>7. et' \in BOOLEAN /\ marks' \in BOOLEAN /\ opened' \in Nat
  BY <1>4 DEF TypeOK
<1>8. arrived' \in 0..wireEnd' /\ taken' \in 0..arrived'
  BY <1>4
<1>9. QED BY <1>1, <1>2, <1>3, <1>4, <1>5, <1>6, <1>7, <1>8 DEF TypeOK, BlockOK

LEMMA SendType == ASSUME NEW n \in BodyLens PROVE TypeOK /\ Send(n) => TypeOK'
<1> SUFFICES ASSUME TypeOK, Send(n) PROVE TypeOK' OBVIOUS
<1>1. n \in Nat /\ HeadLen \in Nat
  BY AssumptionsHold DEF Assumptions
<1>2. wire' \in Seq(Frame)
  <2>1. [at |-> wireEnd, len |-> n] \in Frame
    BY DEF Frame, TypeOK
  <2>2. QED BY <2>1 DEF Send, TypeOK
<1>3. wireEnd' \in Nat /\ wireEnd' >= wireEnd
  BY <1>1 DEF Send, TypeOK
<1>4. QED BY <1>2, <1>3 DEF Send, TypeOK

LEMMA ArriveType == ASSUME NEW p \in 1..wireEnd PROVE TypeOK /\ Arrive(p) => TypeOK'
BY DEF TypeOK, Arrive

LEMMA FinType == TypeOK /\ Fin => TypeOK'
BY DEF TypeOK, Fin

LEMMA DispatchType == TypeOK /\ Dispatch => TypeOK'
BY DEF TypeOK, Dispatch, client

LEMMA RecvNothingType == TypeOK /\ RecvNothing => TypeOK'
BY NewParseType DEF TypeOK, RecvNothing, Drop, client, Branches

LEMMA RecvAgainType == TypeOK /\ Fresh /\ RecvAgain => TypeOK'
<1> SUFFICES ASSUME TypeOK, Fresh, RecvAgain PROVE TypeOK' OBVIOUS
<1>1. block.length = 0 /\ currSize = 0
  <2>1. ~(taken < arrived)
    BY DEF TypeOK, RecvAgain
  <2>2. QED BY <2>1 DEF RecvAgain, Fresh, TypeOK
<1>2. QED BY <1>1 DEF TypeOK, RecvAgain, client

LEMMA ServerCloseType == TypeOK /\ ServerClose => TypeOK'
BY NewParseType DEF TypeOK, ServerClose, Drop, client, Branches

\* The outcomes of a recv that returns something.
Gets == TypeOK /\ pc = "recv" /\ taken < arrived /\ currSize < block.size

Same == UNCHANGED <<et, marks, client>>

\* All that RecvSome leaves to its outcomes.
LEMMA OutcomeType ==
  ASSUME Gets, Same, taken' = taken + Got,
         pc' \in {"armed", "recv", "idle"}, closedBy' \in Branches,
         block' \in [at : Nat, size : Nat, length : Nat],
         currSize' \in Nat,
         parse' \in [isHead : BOOLEAN, head : [got : BOOLEAN, at : Nat]],
         delivered' \in Seq(Packet),
         BlockOK'
  PROVE  TypeOK'
<1>1. taken' \in 0..arrived
  BY GotFits DEF Gets
<1>2. QED BY <1>1 DEF Gets, TypeOK, Same, client, BlockOK

LEMMA ShortReadType ==
  ASSUME Gets, Same, taken' = taken + Got, ShortRead(Got)
  PROVE  TypeOK' /\ Fresh'
<1>1. Got \in Nat
  BY GotFits DEF Gets
<1>2. /\ block' \in [at : Nat, size : Nat, length : Nat]
      /\ block'.at = block.at /\ block'.size = block.size
      /\ block'.length = block.length + Got
  <2>1. block' = [block EXCEPT !.length = block.length + Got]
    BY DEF ShortRead
  <2>2. block \in [at : Nat, size : Nat, length : Nat]
    BY DEF Gets, TypeOK
  <2>3. block.length + Got \in Nat
    BY <1>1, <2>2
  <2>4. QED BY <2>1, <2>2, <2>3
<1>3. currSize' = currSize + Got /\ pc' = "armed" /\ block.size > currSize + Got
  BY DEF ShortRead
<1>4. BlockOK' /\ currSize' \in Nat
  <2>1. /\ block.at \in Nat /\ block.length \in Nat /\ currSize \in Nat
        /\ taken \in Nat /\ block.at + block.length = taken
        /\ currSize = block.length
    BY DEF Gets, TypeOK
  <2>2. taken' = taken + Got
    OBVIOUS
  <2>3. QED BY <1>1, <1>2, <1>3, <2>1, <2>2 DEF BlockOK
<1>5. /\ closedBy' \in Branches /\ delivered' \in Seq(Packet)
      /\ parse' \in [isHead : BOOLEAN, head : [got : BOOLEAN, at : Nat]]
  BY DEF ShortRead, Gets, TypeOK
<1>6. TypeOK'
  BY <1>2, <1>3, <1>4, <1>5, OutcomeType
<1>7. QED BY <1>3, <1>6 DEF Fresh

\* A packet refused, or a head that announces too much.
LEMMA DropType ==
  ASSUME Gets, Same, taken' = taken + Got, NEW b \in Branches, Drop(b),
         currSize' \in Nat, UNCHANGED <<block, delivered>>
  PROVE  TypeOK' /\ Fresh'
<1>1. pc' = "idle" /\ closedBy' = b
  BY DEF Drop
<1>2. parse' \in [isHead : BOOLEAN, head : [got : BOOLEAN, at : Nat]]
  BY NewParseType DEF Drop
<1>3. BlockOK' /\ Fresh'
  BY <1>1 DEF BlockOK, Fresh
<1>4. block' \in [at : Nat, size : Nat, length : Nat] /\ delivered' \in Seq(Packet)
  BY DEF Gets, TypeOK
<1>5. QED BY <1>1, <1>2, <1>3, <1>4, OutcomeType

\* A new block of size bytes, after a packet or after a head.
LEMMA NextBlockType ==
  ASSUME Gets, Same, taken' = taken + Got, Onward, UNCHANGED closedBy,
         NEW size \in Nat, size > 0, block' = NewBlock(taken + Got, size),
         currSize' = 0,
         parse' \in [isHead : BOOLEAN, head : [got : BOOLEAN, at : Nat]],
         delivered' \in Seq(Packet)
  PROVE  TypeOK' /\ Fresh'
<1>1. taken + Got \in Nat
  BY GotFits DEF Gets, TypeOK
<1>2. /\ block' \in [at : Nat, size : Nat, length : Nat]
      /\ block'.at = taken + Got /\ block'.size = size /\ block'.length = 0
  BY <1>1, NewBlockType
<1>3. pc' \in {"armed", "recv", "idle"} /\ closedBy' \in Branches
  BY DEF Onward, Gets, TypeOK
<1>4. BlockOK' /\ Fresh'
  BY <1>1, <1>2 DEF BlockOK, Fresh
<1>5. QED BY <1>2, <1>3, <1>4, OutcomeType

\* A packet handed on, a head understood, a connection ended.
Handed(packet) ==
  /\ delivered' = Append(delivered, packet)
  /\ parse' = NewParse
  /\ block' = NewBlock(taken + Got, HeadLen)
  /\ currSize' = 0
  /\ Onward
  /\ UNCHANGED closedBy

Begun(len) ==
  /\ len > 0
  /\ len < MaxPacketSize
  /\ parse' = [isHead |-> marks, head |-> [got |-> TRUE, at |-> block.at]]
  /\ block' = NewBlock(taken + Got, len)
  /\ currSize' = 0
  /\ Onward
  /\ UNCHANGED <<closedBy, delivered>>

Ended ==
  \E b \in Branches : /\ Drop(b)
                      /\ currSize' \in Nat
                      /\ UNCHANGED <<block, delivered>>

Full == block.at + block.size = taken + Got

HeadOnly == [head |-> block.at, body |-> taken + Got, len |-> 0]

HeadAndBody == [head |-> parse.head.at, body |-> block.at, len |-> block.size]

Outcome ==
  \/ ShortRead(Got)
  \/ Ended
  \/ Full /\ LooksLikeHead(block.size) /\ 0 \in Announced(block.at) /\ Handed(HeadOnly)
  \/ Full /\ LooksLikeHead(block.size) /\ \E len \in Announced(block.at) : Begun(len)
  \/ Full /\ ~LooksLikeHead(block.size) /\ Handed(HeadAndBody)

LEMMA CheckMessageOutcome ==
  ASSUME TypeOK, NEW packet, CheckMessage(packet, taken + Got)
  PROVE  Ended \/ Handed(packet)
<1>1. CASE Drop("check") /\ UNCHANGED <<currSize, block, delivered>>
  <2>1. "check" \in Branches
    BY DEF Branches
  <2>2. currSize' \in Nat
    BY <1>1 DEF TypeOK
  <2>3. Ended
    BY <1>1, <2>1, <2>2 DEF Ended
  <2>4. QED BY <2>3
<1>2. CASE delivered' = Append(delivered, packet)
  BY <1>1, <1>2 DEF CheckMessage, Handed
<1>3. QED BY <1>1, <1>2 DEF CheckMessage

LEMMA TakeHeadOutcome ==
  ASSUME TypeOK, Full, LooksLikeHead(block.size),
         NEW len \in Announced(block.at), TakeHead(len, taken + Got)
  PROVE  Outcome
<1>1. CASE len = 0 /\ CheckMessage(HeadOnly, taken + Got)
  BY <1>1, CheckMessageOutcome DEF Outcome
<1>2. CASE Drop("head") /\ currSize' = 0 /\ UNCHANGED <<block, delivered>>
  <2>1. "head" \in Branches /\ currSize' \in Nat
    BY <1>2 DEF Branches
  <2>2. Ended
    BY <1>2, <2>1 DEF Ended
  <2>3. QED BY <2>2 DEF Outcome
<1>3. CASE Begun(len)
  BY <1>3 DEF Outcome
<1>4. QED BY <1>1, <1>2, <1>3 DEF TakeHead, HeadOnly, Begun

LEMMA RecvSomeOutcome ==
  ASSUME TypeOK, RecvSome
  PROVE  Gets /\ Same /\ taken' = taken + Got /\ Outcome
<1>1. Gets /\ Same /\ taken' = taken + Got
  BY DEF RecvSome, Gets, Same
<1>2. CASE ShortRead(Got)
  BY <1>1, <1>2 DEF Outcome
<1>3. ASSUME block.size <= currSize + Got
      PROVE  Full /\ block.length + Got = block.size
  <2>1. /\ block.at \in Nat /\ block.size \in Nat /\ block.length \in Nat
        /\ currSize \in Nat /\ Got \in Nat /\ currSize = block.length
        /\ taken \in Nat /\ block.at + block.length = taken
        /\ currSize + Got <= block.size
    BY <1>1, GotFits DEF Gets, TypeOK
  <2>2. QED BY <1>3, <2>1 DEF Full
<1>4. CASE /\ block.size <= currSize + Got
           /\ LooksLikeHead(block.length + Got)
           /\ \E len \in Announced(block.at) : TakeHead(len, taken + Got)
  BY <1>1, <1>3, <1>4, TakeHeadOutcome
<1>5. CASE /\ block.size <= currSize + Got
           /\ ~LooksLikeHead(block.length + Got)
           /\ TakeBody(block.length + Got, taken + Got)
  <2>1. Full /\ ~LooksLikeHead(block.size) /\ CheckMessage(HeadAndBody, taken + Got)
    BY <1>3, <1>5 DEF TakeBody, HeadAndBody
  <2>2. QED BY <1>1, <2>1, CheckMessageOutcome DEF Outcome
<1>6. QED BY <1>1, <1>2, <1>4, <1>5 DEF RecvSome

LEMMA HandedType ==
  ASSUME Gets, Same, taken' = taken + Got, NEW packet \in Packet, Handed(packet)
  PROVE  TypeOK' /\ Fresh'
<1>1. HeadLen \in Nat /\ HeadLen > 0
  BY AssumptionsHold DEF Assumptions
<1>2. parse' \in [isHead : BOOLEAN, head : [got : BOOLEAN, at : Nat]]
  BY NewParseType DEF Handed
<1>3. delivered' \in Seq(Packet)
  <2>1. delivered \in Seq(Packet)
    BY DEF Gets, TypeOK
  <2>2. QED BY <2>1 DEF Handed
<1>4. QED BY <1>1, <1>2, <1>3, NextBlockType DEF Handed

LEMMA BegunType ==
  ASSUME Gets, Same, taken' = taken + Got, NEW len \in Nat, Begun(len)
  PROVE  TypeOK' /\ Fresh'
<1>1. block.at \in Nat /\ marks \in BOOLEAN
  BY DEF Gets, TypeOK
<1>2. parse' \in [isHead : BOOLEAN, head : [got : BOOLEAN, at : Nat]]
  BY <1>1 DEF Begun
<1>3. delivered' \in Seq(Packet)
  BY DEF Begun, Gets, TypeOK
<1>4. QED BY <1>2, <1>3, NextBlockType DEF Begun

LEMMA RecvSomeType ==
  ASSUME TypeOK, RecvSome
  PROVE  TypeOK' /\ Fresh'
<1>1. Gets /\ Same /\ taken' = taken + Got /\ Outcome
  BY RecvSomeOutcome
<1>2. CASE ShortRead(Got)
  BY <1>1, <1>2, ShortReadType
<1>3. CASE Ended
  BY <1>1, <1>3, DropType DEF Ended
<1>4. CASE Handed(HeadOnly)
  <2>1. HeadOnly \in Packet
    BY <1>1, GotFits DEF HeadOnly, Packet, Gets, TypeOK
  <2>2. QED BY <1>1, <1>4, <2>1, HandedType
<1>5. CASE \E len \in Announced(block.at) : Begun(len)
  BY <1>1, <1>5, AnnouncedType, BegunType
<1>6. CASE Handed(HeadAndBody)
  <2>1. HeadAndBody \in Packet
    BY DEF HeadAndBody, Packet, TypeOK
  <2>2. QED BY <1>1, <1>6, <2>1, HandedType
<1>7. QED BY <1>1, <1>2, <1>3, <1>4, <1>5, <1>6 DEF Outcome

TypeInv == TypeOK /\ Fresh

LEMMA TypeStep == TypeInv /\ [Next]_vars => TypeInv'
<1> SUFFICES ASSUME TypeInv, [Next]_vars PROVE TypeInv' OBVIOUS
<1> USE DEF TypeInv
<1>1. CASE Open
  BY <1>1, OpenType DEF Open, Fresh
<1>2. CASE \E n \in BodyLens : Send(n)
  BY <1>2, SendType DEF Send, Fresh
<1>3. CASE \E p \in 1..wireEnd : Arrive(p)
  <2>1. PICK p \in 1..wireEnd : Arrive(p)
    BY <1>3
  <2>2. taken < arrived => taken < arrived'
    BY <2>1 DEF Arrive, TypeOK
  <2>3. QED BY <2>1, <2>2, ArriveType DEF Arrive, Fresh
<1>4. CASE Fin
  BY <1>4, FinType DEF Fin, Fresh
<1>5. CASE Dispatch
  BY <1>5, DispatchType DEF Dispatch, Fresh, client
<1>6. CASE RecvNothing
  BY <1>6, RecvNothingType DEF RecvNothing, Drop, Fresh
<1>7. CASE RecvAgain
  BY <1>7, RecvAgainType DEF RecvAgain, Fresh
<1>8. CASE RecvSome
  BY <1>8, RecvSomeType
<1>9. CASE ServerClose
  BY <1>9, ServerCloseType DEF ServerClose, Drop, Fresh
<1>10. CASE UNCHANGED vars
  BY <1>10 DEF vars, client, TypeOK, Fresh
<1>11. QED
  BY <1>1, <1>2, <1>3, <1>4, <1>5, <1>6, <1>7, <1>8, <1>9, <1>10 DEF Next, Receive

\* The state has its types, and when recv is called the block holds just the
\* bytes taken since its first and has room for more (RecvData, RecvData_et).
THEOREM FramingTypes == Spec => []TypeOK
<1>1. Init => TypeInv
  BY InitType DEF Init, TypeInv, Fresh
<1>2. TypeInv /\ [Next]_vars => TypeInv'
  BY TypeStep
<1>3. TypeInv => TypeOK
  BY DEF TypeInv
<1>4. QED BY <1>1, <1>2, <1>3, PTL DEF Spec

-----------------------------------------------------------------------------
(* The stream the client sends                                             *)

\* Where packet i begins, or would begin when the client has not sent it.
StartOf(i) == IF i <= Len(wire) THEN wire[i].at ELSE wireEnd

WireOK ==
  /\ StartOf(1) = 0
  /\ \A i \in 1..Len(wire) : StartOf(i + 1) = wire[i].at + HeadLen + wire[i].len
  /\ \A i, j \in 1..Len(wire) : i < j => wire[i].at < wire[j].at
  /\ \A i \in 1..Len(wire) : wire[i].at < wireEnd

LEMMA WireType ==
  ASSUME TypeOK
  PROVE  /\ Len(wire) \in Nat
         /\ \A i \in 1..Len(wire) : /\ wire[i].at \in Nat
                                   /\ wire[i].len \in Nat
                                   /\ wire[i].len \in BodyLens
<1>1. wire \in Seq(Frame)
  BY DEF TypeOK
<1>2. \A i \in 1..Len(wire) : wire[i] \in Frame
  BY <1>1
<1>3. Frame = [at : Nat, len : BodyLens] /\ BodyLens \subseteq Nat
  BY AssumptionsHold DEF Frame, Assumptions
<1>4. ASSUME NEW i \in 1..Len(wire)
      PROVE  wire[i].at \in Nat /\ wire[i].len \in Nat /\ wire[i].len \in BodyLens
  <2>1. wire[i] \in [at : Nat, len : BodyLens]
    BY <1>2, <1>3
  <2>2. QED BY <1>3, <2>1
<1>5. QED BY <1>1, <1>4

LEMMA SendWire ==
  ASSUME TypeOK, WireOK, NEW n \in BodyLens, Send(n)
  PROVE  /\ WireOK'
         /\ Len(wire') = Len(wire) + 1
         /\ \A i \in 1..Len(wire) : wire'[i] = wire[i]
         /\ \A i \in 1..(Len(wire) + 1) : StartOf(i)' = StartOf(i)
<1> DEFINE L == Len(wire)
<1>1. /\ wire' = Append(wire, [at |-> wireEnd, len |-> n])
      /\ wireEnd' = wireEnd + HeadLen + n
  BY DEF Send
<1>2. L \in Nat /\ wire \in Seq(Frame) /\ wireEnd \in Nat
  BY WireType DEF TypeOK
<1>3. n \in Nat /\ HeadLen \in Nat /\ HeadLen > 0
  BY AssumptionsHold DEF Assumptions
<1>4. /\ Len(wire') = L + 1
      /\ \A i \in 1..L : wire'[i] = wire[i]
      /\ wire'[L + 1].at = wireEnd
      /\ wire'[L + 1].len = n
  BY <1>1, <1>2
<1>5. \A i \in 1..(L + 1) : StartOf(i)' = StartOf(i)
  BY <1>2, <1>4 DEF StartOf
<1>7. \A i \in 1..(L + 1) :
         StartOf(i + 1)' = wire'[i].at + HeadLen + wire'[i].len
  <2>1. ASSUME NEW i \in 1..L
        PROVE  StartOf(i + 1)' = wire'[i].at + HeadLen + wire'[i].len
    <3>1. i + 1 \in 1..(L + 1)
      BY <1>2
    <3>2. StartOf(i + 1)' = StartOf(i + 1)
      BY <1>5, <3>1
    <3>3. StartOf(i + 1) = wire[i].at + HeadLen + wire[i].len
      BY DEF WireOK
    <3>4. QED BY <1>4, <3>2, <3>3
  <2>2. ASSUME NEW i \in 1..(L + 1), i = L + 1
        PROVE  StartOf(i + 1)' = wire'[i].at + HeadLen + wire'[i].len
    <3>1. i + 1 = L + 2 /\ ~(L + 2 <= Len(wire'))
      BY <1>2, <1>4, <2>2
    <3>2. StartOf(i + 1)' = wireEnd'
      BY <3>1 DEF StartOf
    <3>3. QED BY <1>1, <1>4, <2>2, <3>2
  <2>3. QED BY <1>2, <2>1, <2>2
<1>8. \A i \in 1..L : wire[i].at \in Nat /\ wire[i].at < wireEnd
  BY WireType DEF WireOK
<1>9. \A i, j \in 1..(L + 1) : i < j => wire'[i].at < wire'[j].at
  <2>1. ASSUME NEW i \in 1..(L + 1), NEW j \in 1..(L + 1), i < j
        PROVE  wire'[i].at < wire'[j].at
    <3>1. i \in 1..L
      BY <1>2, <2>1
    <3>2. CASE j = L + 1
      BY <1>4, <1>8, <3>1, <3>2
    <3>3. CASE j # L + 1
      <4>1. j \in 1..L
        BY <1>2, <3>3
      <4>2. wire[i].at < wire[j].at
        BY <2>1, <3>1, <4>1 DEF WireOK
      <4>3. QED BY <1>4, <3>1, <4>1, <4>2
    <3>4. QED BY <3>2, <3>3
  <2>2. QED BY <2>1
<1>10. \A i \in 1..(L + 1) : wire'[i].at < wireEnd'
  BY <1>1, <1>2, <1>3, <1>4, <1>8
<1>11. StartOf(1)' = 0
  BY <1>2, <1>5 DEF WireOK
<1>12. WireOK'
  BY <1>4, <1>7, <1>9, <1>10, <1>11 DEF WireOK
<1>13. QED BY <1>4, <1>5, <1>12

\* A block that begins where packet i does is told the length of packet i.
LEMMA AnnouncedAtStart ==
  ASSUME TypeOK, WireOK, NEW i \in 1..Len(wire), NEW len \in Announced(wire[i].at)
  PROVE  len = wire[i].len
<1> DEFINE begins == {j \in DOMAIN wire : wire[j].at = wire[i].at}
<1>1. DOMAIN wire = 1..Len(wire) /\ Len(wire) \in Nat
  BY DEF TypeOK
<1>2. \A j \in 1..Len(wire) : wire[j].at \in Nat
  BY WireType
<1>3. \A j \in begins : j = i
  BY <1>1, <1>2 DEF WireOK
<1>4. begins = {i}
  BY <1>1, <1>3
<1>5. QED BY <1>4 DEF Announced

-----------------------------------------------------------------------------
(* Where the handler stands in the stream                                  *)

\* The next packet is the one after those delivered.
Ready == Len(delivered) + 1

\* Waiting for its head.
AtHead ==
  /\ block.at = StartOf(Ready)
  /\ block.size = HeadLen
  /\ ~parse.isHead

\* Waiting for its body.
AtBody ==
  /\ Ready <= Len(wire)
  /\ parse.isHead = marks
  /\ marks \/ wire[Ready].len # HeadLen
  /\ parse.head.at = wire[Ready].at
  /\ block.at = wire[Ready].at + HeadLen
  /\ block.size = wire[Ready].len
  /\ wire[Ready].len < MaxPacketSize

\* About to take its body for a head.
Lost ==
  /\ Ready <= Len(wire)
  /\ ~marks
  /\ wire[Ready].len = HeadLen

Aligned ==
  pc # "idle" /\ Tellable(Len(delivered)) => AtHead \/ AtBody \/ Lost

\* As long as every body could be told from a head.
Intact(i) ==
  Tellable(i) => /\ i <= Len(wire)
                 /\ delivered[i] = Cut(wire[i])
                 /\ wire[i].len < MaxPacketSize

AllIntact == \A i \in 1..Len(delivered) : Intact(i)

FramingInv == TypeInv /\ WireOK /\ Aligned /\ AllIntact

LEMMA DeliveredType == TypeOK => Len(delivered) \in Nat /\ delivered \in Seq(Packet)
BY DEF TypeOK

\* Nothing the client sent before is longer or shorter for what it sends now.
LEMMA SendAligned ==
  ASSUME FramingInv, NEW n \in BodyLens, Send(n)
  PROVE  Aligned' /\ AllIntact'
<1> DEFINE L == Len(wire)
<1> DEFINE d == Len(delivered)
<1>1. /\ Len(wire') = L + 1
      /\ \A i \in 1..L : wire'[i] = wire[i]
      /\ \A i \in 1..(L + 1) : StartOf(i)' = StartOf(i)
  BY SendWire DEF FramingInv, TypeInv
<1>2. L \in Nat /\ d \in Nat
  BY WireType, DeliveredType DEF FramingInv, TypeInv
<1>3. UNCHANGED <<pc, marks, block, parse, delivered>>
  BY DEF Send
<1>4. ASSUME NEW i \in Nat, Tellable(i)'
      PROVE  Tellable(i)
  <2>1. ASSUME NEW j \in 1..i, j <= L
        PROVE  marks \/ wire[j].len # HeadLen
    <3>1. j \in 1..L /\ j <= Len(wire')
      BY <1>1, <1>2, <2>1
    <3>2. marks' \/ wire'[j].len # HeadLen
      BY <1>4, <3>1 DEF Tellable
    <3>3. QED BY <1>1, <1>3, <3>1, <3>2
  <2>2. QED BY <2>1 DEF Tellable
<1>5. Tellable(Len(delivered))' => Tellable(d)
  <2> SUFFICES ASSUME Tellable(Len(delivered))', NEW j \in 1..d, j <= L
               PROVE  marks \/ wire[j].len # HeadLen
    BY DEF Tellable
  <2>1. j \in 1..L /\ j <= Len(wire') /\ j \in 1..Len(delivered')
    BY <1>1, <1>2, <1>3
  <2>2. marks' \/ wire'[j].len # HeadLen
    BY <2>1 DEF Tellable
  <2>3. QED BY <1>1, <1>3, <2>1, <2>2
<1>6. AllIntact'
  <2>1. ASSUME NEW i \in 1..d, Tellable(i)'
        PROVE  Intact(i)'
    <3>1. Tellable(i) /\ i \in 1..d
      BY <1>2, <1>4, <2>1
    <3>2. i <= L /\ delivered[i] = Cut(wire[i]) /\ wire[i].len < MaxPacketSize
      BY <3>1 DEF FramingInv, AllIntact, Intact
    <3>3. wire'[i] = wire[i] /\ i <= Len(wire')
      BY <1>1, <1>2, <3>2
    <3>4. QED BY <1>3, <3>2, <3>3 DEF Intact, Cut
  <2>2. QED BY <1>3, <2>1 DEF AllIntact, Intact
<1>7. Aligned'
  <2> SUFFICES ASSUME pc' # "idle", Tellable(d)'
               PROVE  AtHead' \/ AtBody' \/ Lost'
    BY <1>3 DEF Aligned
  <2>1. AtHead \/ AtBody \/ Lost
    BY <1>3, <1>5 DEF FramingInv, Aligned
  <2>2. Ready' = Ready /\ Ready \in Nat /\ Ready = d + 1
    BY <1>2, <1>3 DEF Ready
  <2>3. d <= L
    <3>1. CASE d = 0
      BY <1>2, <3>1
    <3>2. CASE d # 0
      <4>1. d \in 1..d
        BY <1>2, <3>2
      <4>2. Tellable(d)
        BY <1>5
      <4>3. QED BY <4>1, <4>2 DEF FramingInv, AllIntact, Intact
    <3>3. QED BY <3>1, <3>2
  <2>4. StartOf(Ready)' = StartOf(Ready)
    <3>1. Ready \in 1..(L + 1)
      BY <1>2, <2>2, <2>3
    <3>2. QED BY <1>1, <2>2, <3>1 DEF StartOf
  <2>5. CASE AtHead
    BY <1>3, <2>4, <2>5 DEF AtHead
  <2>6. ASSUME Ready <= L
        PROVE  wire'[Ready'] = wire[Ready] /\ Ready' <= Len(wire')
    BY <1>1, <1>2, <2>2, <2>6
  <2>7. CASE AtBody
    BY <1>3, <2>6, <2>7 DEF AtBody
  <2>8. CASE Lost
    BY <1>3, <2>6, <2>8 DEF Lost
  <2>9. QED BY <2>1, <2>5, <2>7, <2>8
<1>8. QED BY <1>6, <1>7

\* A step that leaves the stream and the packets alone.
LEMMA StreamSame ==
  ASSUME UNCHANGED <<wire, wireEnd, marks>>
  PROVE  /\ WireOK => WireOK'
         /\ UNCHANGED delivered /\ AllIntact => AllIntact'
         /\ UNCHANGED <<pc, delivered, block, parse>> /\ Aligned => Aligned'
<1>1. WireOK => WireOK'
  BY DEF WireOK, StartOf
<1>2. UNCHANGED delivered /\ AllIntact => AllIntact'
  BY DEF AllIntact, Intact, Tellable, Cut
<1>3. UNCHANGED <<pc, delivered, block, parse>> /\ Aligned => Aligned'
  BY DEF Aligned, AtHead, AtBody, Lost, Ready, Tellable, StartOf
<1>4. QED BY <1>1, <1>2, <1>3

\* A full block that stands where the next head begins is that head: the
\* bytes of a head only come from a packet the client has sent.
LEMMA HeadIsThere ==
  ASSUME FramingInv, Gets, Full, AtHead
  PROVE  /\ Ready \in 1..Len(wire)
         /\ block.at = wire[Ready].at
         /\ taken + Got = wire[Ready].at + HeadLen
         /\ \A len \in Announced(block.at) : len = wire[Ready].len
<1>1. /\ taken + Got <= wireEnd /\ taken + Got \in Nat /\ wireEnd \in Nat
      /\ block.at + HeadLen = taken + Got /\ block.at \in Nat
  BY GotFits DEF Gets, TypeOK, Full, AtHead
<1>2. Ready \in Nat /\ Ready >= 1 /\ Len(wire) \in Nat
  BY DeliveredType, WireType DEF Ready, FramingInv, TypeInv
<1>3. HeadLen \in Nat /\ HeadLen > 0
  BY AssumptionsHold DEF Assumptions
<1>4. Ready <= Len(wire)
  <2> SUFFICES ASSUME ~(Ready <= Len(wire)) PROVE FALSE OBVIOUS
  <2>1. block.at = wireEnd
    BY DEF AtHead, StartOf
  <2>2. QED BY <1>1, <1>3, <2>1
<1>5. Ready \in 1..Len(wire)
  BY <1>2, <1>4
<1>6. block.at = wire[Ready].at
  BY <1>4 DEF AtHead, StartOf
<1>7. \A len \in Announced(block.at) : len = wire[Ready].len
  BY <1>5, <1>6, AnnouncedAtStart DEF FramingInv, TypeInv
<1>8. QED BY <1>1, <1>5, <1>6, <1>7

LEMMA StartAfter ==
  ASSUME FramingInv, Ready \in 1..Len(wire)
  PROVE  StartOf(Ready + 1) = wire[Ready].at + HeadLen + wire[Ready].len
BY DEF FramingInv, WireOK

LEMMA TellableBefore ==
  ASSUME TypeOK, Tellable(Ready)
  PROVE  /\ Tellable(Len(delivered))
         /\ Ready <= Len(wire) => marks \/ wire[Ready].len # HeadLen
<1>1. Len(delivered) \in Nat /\ Len(wire) \in Nat
  BY DeliveredType, WireType
<1>2. QED BY <1>1 DEF Tellable, Ready

\* A packet handed on is the next one of the client, when it ends where that
\* one does.
LEMMA HandedAligned ==
  ASSUME FramingInv, Same, NEW packet, Handed(packet),
         Tellable(Ready) => /\ Ready \in 1..Len(wire)
                            /\ packet = Cut(wire[Ready])
                            /\ wire[Ready].len < MaxPacketSize
                            /\ taken + Got = StartOf(Ready + 1)
  PROVE  Aligned' /\ AllIntact'
<1>1. /\ delivered' = Append(delivered, packet)
      /\ parse' = NewParse
      /\ block' = NewBlock(taken + Got, HeadLen)
  BY DEF Handed
<1>2. wire' = wire /\ wireEnd' = wireEnd /\ marks' = marks
  BY DEF Same, client
<1>3. Len(delivered) \in Nat /\ delivered \in Seq(Packet)
  BY DeliveredType DEF FramingInv, TypeInv
<1>4. /\ Len(delivered') = Ready /\ Ready \in Nat
      /\ \A i \in 1..Len(delivered) : delivered'[i] = delivered[i]
      /\ delivered'[Ready] = packet
      /\ 1..Ready = 1..Len(delivered) \cup {Ready}
  BY <1>1, <1>3 DEF Ready
<1>5. \A i : Tellable(i)' <=> Tellable(i)
  BY <1>2 DEF Tellable
<1>6. AllIntact'
  <2>1. ASSUME NEW i \in 1..Len(delivered)
        PROVE  Intact(i)'
    <3>1. Intact(i) /\ delivered'[i] = delivered[i]
      BY <1>4 DEF FramingInv, AllIntact
    <3>2. QED BY <1>2, <1>5, <3>1 DEF Intact, Cut
  <2>2. ASSUME NEW i, i = Ready
        PROVE  Intact(i)'
    <3>1. SUFFICES ASSUME Tellable(Ready)
                   PROVE  /\ Ready <= Len(wire)
                          /\ delivered'[Ready] = Cut(wire[Ready])
                          /\ wire[Ready].len < MaxPacketSize
      BY <1>2, <1>5, <2>2 DEF Intact, Cut
    <3>2. QED BY <1>4, <3>1
  <2>3. QED BY <1>4, <2>1, <2>2 DEF AllIntact
<1>7. Aligned'
  <2>1. SUFFICES ASSUME Tellable(Ready) PROVE AtHead'
    BY <1>2, <1>4 DEF Aligned, Tellable
  <2>2. block'.at = taken + Got /\ block'.size = HeadLen
    BY <1>1 DEF NewBlock
  <2>3. ~parse'.isHead
    BY <1>1, NewParseType
  <2>4. Ready' = Ready + 1
    BY <1>4 DEF Ready
  <2>5. StartOf(Ready)' = StartOf(Ready + 1)
    BY <1>2, <2>4 DEF StartOf
  <2>6. taken + Got = StartOf(Ready + 1)
    BY <2>1
  <2>7. QED BY <2>2, <2>3, <2>5, <2>6 DEF AtHead
<1>8. QED BY <1>6, <1>7

\* What a connection stands at while all before could be told apart.
LEMMA WhereItStands ==
  ASSUME FramingInv, Gets, Tellable(Len(delivered))
  PROVE  AtHead \/ AtBody \/ Lost
BY DEF FramingInv, Aligned, Gets

LEMMA HeadOnlyAligned ==
  ASSUME FramingInv, Gets, Same, Full, LooksLikeHead(block.size),
         0 \in Announced(block.at), Handed(HeadOnly)
  PROVE  Aligned' /\ AllIntact'
<1>1. ASSUME Tellable(Ready)
      PROVE  /\ Ready \in 1..Len(wire)
             /\ HeadOnly = Cut(wire[Ready])
             /\ wire[Ready].len < MaxPacketSize
             /\ taken + Got = StartOf(Ready + 1)
  <2>1. /\ Tellable(Len(delivered))
        /\ Ready <= Len(wire) => marks \/ wire[Ready].len # HeadLen
    BY <1>1, TellableBefore DEF FramingInv, TypeInv
  <2>2. ~Lost
    BY <2>1 DEF Lost
  <2>3. ~AtBody
    BY DEF AtBody, LooksLikeHead
  <2>4. AtHead
    BY <2>1, <2>2, <2>3, WhereItStands
  <2>5. /\ Ready \in 1..Len(wire) /\ block.at = wire[Ready].at
        /\ taken + Got = wire[Ready].at + HeadLen /\ wire[Ready].len = 0
    BY <2>4, HeadIsThere
  <2>6. StartOf(Ready + 1) = wire[Ready].at + HeadLen + wire[Ready].len
    BY <2>5, StartAfter
  <2>7. wire[Ready].at \in Nat /\ HeadLen \in Nat /\ MaxPacketSize \in Nat /\ MaxPacketSize > 0
    BY <2>5, WireType, AssumptionsHold DEF FramingInv, TypeInv, Assumptions
  <2>8. QED BY <2>5, <2>6, <2>7 DEF HeadOnly, Cut
<1>2. QED BY <1>1, HandedAligned

LEMMA HeadAndBodyAligned ==
  ASSUME FramingInv, Gets, Same, Full, ~LooksLikeHead(block.size),
         Handed(HeadAndBody)
  PROVE  Aligned' /\ AllIntact'
<1>1. ASSUME Tellable(Ready)
      PROVE  /\ Ready \in 1..Len(wire)
             /\ HeadAndBody = Cut(wire[Ready])
             /\ wire[Ready].len < MaxPacketSize
             /\ taken + Got = StartOf(Ready + 1)
  <2>1. /\ Tellable(Len(delivered))
        /\ Ready <= Len(wire) => marks \/ wire[Ready].len # HeadLen
    BY <1>1, TellableBefore DEF FramingInv, TypeInv
  <2>2. ~Lost
    BY <2>1 DEF Lost
  <2>3. ~AtHead
    BY DEF AtHead, LooksLikeHead
  <2>4. AtBody
    BY <2>1, <2>2, <2>3, WhereItStands
  <2>5. Ready \in 1..Len(wire)
    BY <2>4, DeliveredType, WireType DEF AtBody, Ready, FramingInv, TypeInv
  <2>6. taken + Got = wire[Ready].at + HeadLen + wire[Ready].len
    BY <2>4 DEF AtBody, Full
  <2>7. StartOf(Ready + 1) = wire[Ready].at + HeadLen + wire[Ready].len
    BY <2>5, StartAfter
  <2>8. QED BY <2>4, <2>5, <2>6, <2>7 DEF AtBody, HeadAndBody, Cut
<1>2. QED BY <1>1, HandedAligned

LEMMA BegunAligned ==
  ASSUME FramingInv, Gets, Same, Full, LooksLikeHead(block.size),
         NEW len \in Announced(block.at), Begun(len)
  PROVE  Aligned' /\ AllIntact'
<1>1. /\ UNCHANGED <<wire, wireEnd, marks>> /\ UNCHANGED delivered
      /\ parse' = [isHead |-> marks, head |-> [got |-> TRUE, at |-> block.at]]
      /\ block' = NewBlock(taken + Got, len)
      /\ len < MaxPacketSize
  BY DEF Same, client, Begun
<1>2. AllIntact'
  BY <1>1, StreamSame DEF FramingInv
<1>3. Ready' = Ready
  BY <1>1 DEF Ready
<1>4. Aligned'
  <2>1. SUFFICES ASSUME Tellable(Len(delivered)) PROVE AtBody' \/ Lost'
    BY <1>1 DEF Aligned, Tellable
  <2>2. ~AtBody
    BY DEF AtBody, LooksLikeHead
  <2>3. CASE Lost
    BY <1>1, <1>3, <2>3 DEF Lost
  <2>4. CASE AtHead
    <3>1. /\ Ready \in 1..Len(wire) /\ block.at = wire[Ready].at
          /\ taken + Got = wire[Ready].at + HeadLen /\ len = wire[Ready].len
      BY <2>4, HeadIsThere
    <3>2. Ready <= Len(wire)
      BY <3>1
    <3>3. CASE marks \/ wire[Ready].len # HeadLen
      <4>1. /\ parse'.isHead = marks /\ parse'.head.at = wire[Ready].at
            /\ block'.at = wire[Ready].at + HeadLen /\ block'.size = wire[Ready].len
        BY <1>1, <3>1 DEF NewBlock
      <4>2. QED BY <1>1, <1>3, <3>1, <3>2, <3>3, <4>1 DEF AtBody
    <3>4. CASE ~(marks \/ wire[Ready].len # HeadLen)
      BY <1>1, <1>3, <3>2, <3>4 DEF Lost
    <3>5. QED BY <3>3, <3>4
  <2>5. QED BY <2>1, <2>2, <2>3, <2>4, WhereItStands
<1>5. QED BY <1>2, <1>4

LEMMA RecvSomeAligned ==
  ASSUME FramingInv, RecvSome
  PROVE  Aligned' /\ AllIntact'
<1>1. Gets /\ Same /\ taken' = taken + Got /\ Outcome
  BY RecvSomeOutcome DEF FramingInv, TypeInv
<1>2. UNCHANGED <<wire, wireEnd, marks>>
  BY <1>1 DEF Same, client
<1>3. CASE ShortRead(Got)
  <2>1. UNCHANGED parse /\ UNCHANGED delivered
    BY <1>3 DEF ShortRead
  <2>2. block'.at = block.at /\ block'.size = block.size
    BY <1>1, <1>3 DEF ShortRead, Gets, TypeOK
  <2>3. pc # "idle"
    BY <1>1 DEF Gets
  <2>4. Aligned'
    BY <1>2, <2>1, <2>2, <2>3
       DEF FramingInv, Aligned, AtHead, AtBody, Lost, Ready, Tellable, StartOf
  <2>5. QED BY <1>2, <2>1, <2>4, StreamSame DEF FramingInv
<1>4. CASE Ended
  <2>1. pc' = "idle" /\ UNCHANGED delivered
    BY <1>4 DEF Ended, Drop
  <2>2. QED BY <1>2, <2>1, StreamSame DEF Aligned, FramingInv
<1>5. QED
  BY <1>1, <1>3, <1>4, HeadOnlyAligned, HeadAndBodyAligned, BegunAligned
     DEF Outcome

LEMMA FramingInit == Init => FramingInv
<1> SUFFICES ASSUME Init PROVE FramingInv OBVIOUS
<1>1. TypeInv
  BY InitType DEF Init, TypeInv, Fresh
<1>2. Len(wire) = 0 /\ Len(delivered) = 0 /\ wireEnd = 0 /\ pc = "idle"
  BY DEF Init
<1>3. WireOK
  BY <1>2 DEF WireOK, StartOf
<1>4. Aligned /\ AllIntact
  BY <1>2 DEF Aligned, AllIntact
<1>5. QED BY <1>1, <1>3, <1>4 DEF FramingInv

LEMMA OpenAligned ==
  ASSUME FramingInv, Open
  PROVE  WireOK' /\ Aligned' /\ AllIntact'
<1>1. /\ Len(wire') = 0 /\ Len(delivered') = 0 /\ wireEnd' = 0
      /\ block' = NewBlock(0, HeadLen) /\ parse' = NewParse
  BY DEF Open
<1>2. WireOK'
  BY <1>1 DEF WireOK, StartOf
<1>3. AllIntact'
  BY <1>1 DEF AllIntact
<1>4. AtHead'
  <2>1. block'.at = 0 /\ block'.size = HeadLen
    BY <1>1 DEF NewBlock
  <2>2. ~parse'.isHead
    BY <1>1, NewParseType
  <2>3. StartOf(Ready)' = 0
    BY <1>1 DEF StartOf, Ready
  <2>4. QED BY <2>1, <2>2, <2>3 DEF AtHead
<1>5. QED BY <1>2, <1>3, <1>4 DEF Aligned

LEMMA FramingStep == FramingInv /\ [Next]_vars => FramingInv'
<1> SUFFICES ASSUME FramingInv, [Next]_vars PROVE FramingInv' OBVIOUS
<1>1. TypeInv'
  BY TypeStep DEF FramingInv
<1>2. SUFFICES WireOK' /\ Aligned' /\ AllIntact'
  BY <1>1 DEF FramingInv
<1>3. CASE Open
  BY <1>3, OpenAligned
<1>4. CASE \E n \in BodyLens : Send(n)
  BY <1>4, SendWire, SendAligned DEF FramingInv, TypeInv
<1>5. CASE \E p \in 1..wireEnd : Arrive(p)
  BY <1>5, StreamSame DEF Arrive, FramingInv
<1>6. CASE Fin
  BY <1>6, StreamSame DEF Fin, FramingInv
<1>7. CASE Dispatch
  <2>1. UNCHANGED <<wire, wireEnd, marks>> /\ UNCHANGED <<delivered, block, parse>>
    BY <1>7 DEF Dispatch, client
  <2>2. pc # "idle"
    BY <1>7 DEF Dispatch
  <2>3. Aligned'
    BY <2>1, <2>2 DEF FramingInv, Aligned, AtHead, AtBody, Lost, Ready, Tellable, StartOf
  <2>4. QED BY <2>1, <2>3, StreamSame DEF FramingInv
<1>8. CASE RecvNothing \/ ServerClose
  <2>1. UNCHANGED <<wire, wireEnd, marks>> /\ UNCHANGED delivered /\ pc' = "idle"
    BY <1>8 DEF RecvNothing, ServerClose, Drop, client
  <2>2. QED BY <2>1, StreamSame DEF Aligned, FramingInv
<1>9. CASE RecvAgain
  <2>1. UNCHANGED <<wire, wireEnd, marks>> /\ UNCHANGED <<delivered, block, parse>>
    BY <1>9 DEF RecvAgain, client
  <2>2. pc # "idle"
    BY <1>9 DEF RecvAgain
  <2>3. Aligned'
    BY <2>1, <2>2 DEF FramingInv, Aligned, AtHead, AtBody, Lost, Ready, Tellable, StartOf
  <2>4. QED BY <2>1, <2>3, StreamSame DEF FramingInv
<1>10. CASE RecvSome
  <2>1. UNCHANGED <<wire, wireEnd, marks>>
    BY <1>10 DEF RecvSome, client
  <2>2. QED BY <1>10, <2>1, RecvSomeAligned, StreamSame DEF FramingInv
<1>11. CASE UNCHANGED vars
  BY <1>11, StreamSame DEF vars, client, FramingInv
<1>12. QED
  BY <1>3, <1>4, <1>5, <1>6, <1>7, <1>8, <1>9, <1>10, <1>11 DEF Next, Receive

LEMMA FramingInvariant == Spec => []FramingInv
<1>1. Init => FramingInv
  BY FramingInit
<1>2. FramingInv /\ [Next]_vars => FramingInv'
  BY FramingStep
<1>3. QED BY <1>1, <1>2, PTL DEF Spec

\* However the stream is cut and whichever of RecvData and RecvData_et reads
\* it, the packets handed on are those the client sent.
THEOREM PacketsAreFramed == Spec => []FramesIntact
<1>1. FramingInv => FramesIntact
  BY DEF FramingInv, AllIntact, Intact, FramesIntact
<1>2. QED BY <1>1, FramingInvariant, PTL

\* No packet of MaxPacketSize bytes or more is handed on, nor one after it.
THEOREM OversizeIsDropped == Spec => []OversizeEnds
<1>1. FramingInv => OversizeEnds
  BY DEF FramingInv, AllIntact, Intact, OversizeEnds
<1>2. QED BY <1>1, FramingInvariant, PTL
=============================================================================
