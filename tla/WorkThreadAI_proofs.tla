------------------------ MODULE WorkThreadAI_proofs ------------------------
(***************************************************************************)
(* Theorems about WorkThreadAI, for every number of commands, every size   *)
(* of the ring and every setting.                                          *)
(***************************************************************************)
EXTENDS WorkThreadAI, SequenceTheorems, TLAPS

-----------------------------------------------------------------------------
(* Types                                                                   *)

TypeInv == TypeOK /\ (~inside => running = NoCommand)

Numbers == /\ TimeoutCount \in Nat \ {0} /\ 0 \in Slots
           /\ Start \in Nat /\ MaxTime \in Nat
           /\ CheckTimes \subseteq Nat /\ StopTimes \subseteq Nat
           /\ \A t \in CheckTimes : t < Start

LEMMA NumbersHold == Numbers
BY CountAssumption, TimesAssumption DEF Numbers, Slots

LEMMA AddType == ASSUME NEW i \in Slots PROVE Add(i) \in Slots
BY CountAssumption DEF Slots, Add

LEMMA LinkSlotType == ASSUME NEW i \in Slots, NEW j \in Slots PROVE LinkSlot(i, j) \in Slots
BY CountAssumption DEF Slots, LinkSlot

\* The entry written last is found at 0, and every other one moves up by one.
LEMMA LinkSlotMoves ==
  ASSUME NEW i \in Slots, NEW j \in Slots
  PROVE  /\ j = 0 => LinkSlot(Add(i), j) = i
         /\ j # 0 => /\ j - 1 \in Slots
                     /\ LinkSlot(Add(i), j) = LinkSlot(i, j - 1)
                     /\ LinkSlot(i, j - 1) # i
BY CountAssumption DEF Slots, Add, LinkSlot

LEMMA ShiftType == ASSUME TypeOK, NEW f \in [Slots -> Nat] PROVE Shift(f) \in [Slots -> Nat]
<1>1. ASSUME NEW j \in Slots, j # 0 PROVE j - 1 \in Slots
  BY <1>1, CountAssumption DEF Slots
<1>2. now \in Nat
  BY DEF TypeOK
<1> QED BY <1>1, <1>2 DEF Shift

LEMMA EraseType ==
  ASSUME bans \in Seq(Bans), NEW k \in DOMAIN bans, Erase(k)
  PROVE  bans' \in Seq(Bans)
BY DEF Erase

\* What Erase leaves was there before, at another place, in the same order.
LEMMA EraseKeeps ==
  ASSUME bans \in Seq(Bans), NEW k \in DOMAIN bans, Erase(k), NEW i \in DOMAIN bans'
  PROVE  /\ i < k  => i \in DOMAIN bans /\ bans'[i] = bans[i]
         /\ i >= k => i + 1 \in DOMAIN bans /\ bans'[i] = bans[i + 1]
<1> DEFINE front == SubSeq(bans, 1, k - 1)
           back  == SubSeq(bans, k + 1, Len(bans))
<1>1. k \in 1 .. Len(bans) /\ Len(bans) \in Nat
  OBVIOUS
<1>2. front \in Seq(Bans) /\ Len(front) = k - 1 /\ \A n \in 1 .. k - 1 : front[n] = bans[n]
  BY <1>1
<1>3. back \in Seq(Bans) /\ Len(back) = Len(bans) - k
      /\ \A n \in 1 .. Len(bans) - k : back[n] = bans[k + n]
  BY <1>1
<1>4. bans' = front \o back
  BY DEF Erase
<1> HIDE DEF front, back
<1>5. Len(bans') = Len(bans) - 1 /\ i \in 1 .. Len(bans) - 1
  <2>1. bans' \in Seq(Bans) /\ Len(bans') = Len(front) + Len(back)
    BY <1>2, <1>3, <1>4, ConcatProperties
  <2>2. i \in 1 .. Len(bans')
    BY <2>1
  <2> QED BY <1>1, <1>2, <1>3, <2>1, <2>2
<1>6. CASE i < k
  BY <1>1, <1>2, <1>3, <1>4, <1>5, <1>6
<1>7. CASE i >= k
  <2>1. bans'[i] = back[i - (k - 1)]
    BY <1>1, <1>2, <1>3, <1>4, <1>5, <1>7
  <2>2. i - (k - 1) \in 1 .. Len(bans) - k /\ k + (i - (k - 1)) = i + 1
    BY <1>1, <1>5, <1>7
  <2>3. bans'[i] = bans[i + 1]
    BY <1>3, <2>1, <2>2
  <2>4. i + 1 \in DOMAIN bans
    BY <1>1, <1>5
  <2> QED BY <1>1, <1>5, <1>7, <2>3, <2>4
<1> QED BY <1>1, <1>5, <1>6, <1>7

LEMMA PassType == ASSUME TypeOK, NEW c \in Commands, Pass(c) PROVE bans' \in Seq(Bans)
<1>1. bans \in Seq(Bans)
  BY DEF TypeOK
<1>2. CASE UNCHANGED bans
  BY <1>1, <1>2
<1>3. ASSUME NEW k \in DOMAIN bans, Erase(k) PROVE bans' \in Seq(Bans)
  BY <1>1, <1>3, EraseType
<1> QED BY <1>2, <1>3 DEF Pass

LEMMA NoteType ==
  ASSUME TypeOK, NEW c \in Commands, Note(c)
  PROVE  /\ known' \subseteq Commands
         /\ ring' \in [Commands -> [Slots -> Nat]]
         /\ index' \in [Commands -> Slots]
<1> USE DEF TypeOK, Note
<1>1. known' \subseteq Commands
  OBVIOUS
<1>2. ring' \in [Commands -> [Slots -> Nat]]
  OBVIOUS
<1>3. index' \in [Commands -> Slots]
  BY AddType
<1> QED BY <1>1, <1>2, <1>3

LEMMA SaveType ==
  ASSUME TypeOK, NEW c \in Commands, Save(c)
  PROVE  /\ Note(c)
         /\ bans' \in Seq(Bans)
<1>1. [cmd |-> c, until |-> now + stopTime] \in Bans
  BY NumbersHold DEF Bans, TypeOK, Numbers
<1>2. bans \in Seq(Bans)
  BY DEF TypeOK
<1>3. Append(bans, [cmd |-> c, until |-> now + stopTime]) \in Seq(Bans)
  BY <1>1, <1>2
<1>4. bans' \in Seq(Bans)
  BY <1>2, <1>3 DEF Save
<1> QED BY <1>4 DEF Save

LEMMA WitnessType ==
  ASSUME TypeOK, NEW late \in BOOLEAN, Witness(late)
  PROVE  lates' \in [Commands -> [Slots -> Nat]]
<1>1. CASE on /\ late /\ running \in Commands
  <2>1. lates[running] \in [Slots -> Nat]
    BY <1>1 DEF TypeOK
  <2>2. Shift(lates[running]) \in [Slots -> Nat]
    BY <2>1, ShiftType
  <2>3. lates' = [lates EXCEPT ![running] = Shift(lates[running])]
    BY <1>1 DEF Witness
  <2> QED BY <2>2, <2>3 DEF TypeOK
<1>2. CASE ~(on /\ late /\ running \in Commands)
  BY <1>2 DEF Witness, TypeOK
<1> QED BY <1>1, <1>2

LEMMA BlurType ==
  ASSUME TypeOK, NEW read, Blur(read)
  PROVE  blurred' \subseteq Commands /\ misreads' \in Nat /\ blurred \subseteq blurred'
BY DEF Blur, TypeOK

LEMMA TypeInit == Init => TypeInv
<1> SUFFICES ASSUME Init PROVE TypeInv
  OBVIOUS
<1>1. 0 \in Slots /\ 0 \in Nat /\ Start \in Nat
  BY NumbersHold DEF Numbers
<1>2. bans \in Seq(Bans)
  BY DEF Init
<1> QED BY <1>1, <1>2 DEF Init, TypeInv, TypeOK

LEMMA TypeNext == TypeInv /\ [Next]_vars => TypeInv'
<1> SUFFICES ASSUME TypeInv, [Next]_vars PROVE TypeInv'
  OBVIOUS
<1> USE DEF TypeInv
<1>1. ASSUME NEW c \in Commands, Run(c) PROVE TypeInv'
  <2>1. bans' \in Seq(Bans)
    BY <1>1, PassType DEF Run
  <2> QED BY <1>1, <2>1 DEF Run, TypeOK, settings, rings
<1>2. ASSUME NEW c \in Commands, Refuse(c) PROVE TypeInv'
  BY <1>2 DEF Refuse, TypeOK, vars
<1>3. CASE RunLinkEvent
  BY <1>3 DEF RunLinkEvent, TypeOK, settings, rings
<1>4. ASSUME NEW read \in Commands \cup {NoCommand}, NEW late \in BOOLEAN, SaveTimeout(read, late)
      PROVE  TypeInv'
  <2>1. /\ bans' \in Seq(Bans) /\ known' \subseteq Commands
        /\ ring' \in [Commands -> [Slots -> Nat]] /\ index' \in [Commands -> Slots]
    <3>1. CASE on /\ late /\ read \in Commands
      BY <1>4, <3>1, SaveType, NoteType DEF SaveTimeout
    <3>2. CASE ~(on /\ late /\ read \in Commands)
      BY <1>4, <3>2 DEF SaveTimeout, rings, TypeOK
    <3> QED BY <3>1, <3>2
  <2>2. lates' \in [Commands -> [Slots -> Nat]]
    BY <1>4, WitnessType DEF SaveTimeout
  <2>3. blurred' \subseteq Commands /\ misreads' \in Nat
    BY <1>4, BlurType DEF SaveTimeout
  <2> QED BY <1>4, <2>1, <2>2, <2>3 DEF SaveTimeout, TypeOK, settings
<1>5. CASE ReSet
  BY <1>5 DEF ReSet, TypeOK, rings
<1>6. CASE Tick
  BY <1>6 DEF Tick, TypeOK, settings, rings
<1>7. CASE UNCHANGED vars
  BY <1>7 DEF vars, TypeOK
<1> QED BY <1>1, <1>2, <1>3, <1>4, <1>5, <1>6, <1>7 DEF Next, Finish

\* Every variable of the guard keeps its type; in particular m_nIndex never
\* leaves its ring, whatever its size.
THEOREM GuardTypes == Spec => []TypeOK
<1>1. TypeInv => TypeOK
  BY DEF TypeInv
<1> QED BY TypeInit, TypeNext, <1>1, PTL DEF Spec

-----------------------------------------------------------------------------
(* The ring                                                                *)

\* Besides RingHoldsLates: a command without a ring has never been late, and
\* the clock is past every CheckTime.
RingInv ==
  /\ RingHoldsLates
  /\ \A c \in Commands \ known : \A j \in Slots : ring[c][j] = 0
  /\ now >= Start

LEMMA RingInit == Init => RingInv
<1> SUFFICES ASSUME Init PROVE RingInv
  OBVIOUS
<1>1. \A c \in Commands \ blurred : \A j \in Slots : ring[c][LinkSlot(index[c], j)] = lates[c][j]
  <2>1. \A j \in Slots : LinkSlot(0, j) \in Slots
    BY LinkSlotType, NumbersHold DEF Numbers
  <2> QED BY <2>1 DEF Init
<1>2. now >= Start
  BY NumbersHold DEF Numbers, Init
<1> QED BY <1>1, <1>2 DEF RingInv, RingHoldsLates, Init

\* A late run that is noted for the command that ran moves both the ring and
\* the history up by one.
LEMMA NoteKeepsRing ==
  ASSUME TypeInv, NEW c \in Commands, Note(c), lates' = [lates EXCEPT ![c] = Shift(@)],
         \A j \in Slots : ring[c][LinkSlot(index[c], j)] = lates[c][j],
         NEW j \in Slots
  PROVE  ring'[c][LinkSlot(index'[c], j)] = lates'[c][j]
<1> USE DEF TypeInv, TypeOK, Note
<1>1. index[c] \in Slots /\ index'[c] = Add(index[c])
  OBVIOUS
<1>2. ring'[c] = [ring[c] EXCEPT ![index[c]] = now] /\ ring[c] \in [Slots -> Nat]
  OBVIOUS
<1>3. lates'[c][j] = IF j = 0 THEN now ELSE lates[c][j - 1]
  BY DEF Shift
<1>4. CASE j = 0
  <2>1. LinkSlot(index'[c], j) = index[c]
    BY <1>1, <1>4, LinkSlotMoves
  <2> QED BY <1>1, <1>2, <1>3, <1>4, <2>1
<1>5. CASE j # 0
  <2>1. /\ j - 1 \in Slots
        /\ LinkSlot(index'[c], j) = LinkSlot(index[c], j - 1)
        /\ LinkSlot(index[c], j - 1) # index[c]
    BY <1>1, <1>5, LinkSlotMoves
  <2>2. LinkSlot(index[c], j - 1) \in Slots
    BY <1>1, <2>1, LinkSlotType
  <2>3. ring'[c][LinkSlot(index[c], j - 1)] = ring[c][LinkSlot(index[c], j - 1)]
    BY <1>2, <2>1, <2>2
  <2> QED BY <1>3, <1>5, <2>1, <2>3
<1> QED BY <1>4, <1>5

\* Steps that touch neither the rings nor the history.
LEMMA RingStays ==
  ASSUME RingInv, TypeInv, UNCHANGED <<rings, lates>>, blurred \subseteq blurred',
         now' = now \/ now' = now + 1
  PROVE  RingInv'
<1>1. now' >= Start
  BY NumbersHold DEF RingInv, TypeInv, TypeOK, Numbers
<1>2. RingHoldsLates'
  BY DEF RingInv, RingHoldsLates, rings
<1>3. \A c \in Commands \ known' : \A j \in Slots : ring'[c][j] = 0
  BY DEF RingInv, rings
<1> QED BY <1>1, <1>2, <1>3 DEF RingInv

LEMMA RingSave ==
  ASSUME RingInv, TypeInv, NEW read \in Commands \cup {NoCommand}, NEW late \in BOOLEAN,
         SaveTimeout(read, late)
  PROVE  RingInv'
<1>0. now' = now /\ blurred \subseteq blurred'
  BY BlurType DEF SaveTimeout, TypeInv
<1>1. CASE on /\ late /\ read \in Commands
  <2>1. Note(read)
    BY <1>1 DEF SaveTimeout, Save
  <2>2. \A c \in Commands \ known' : \A j \in Slots : ring'[c][j] = 0
    BY <2>1 DEF Note, RingInv, TypeInv, TypeOK
  <2>3. ASSUME NEW c \in Commands \ blurred', NEW j \in Slots
        PROVE  ring'[c][LinkSlot(index'[c], j)] = lates'[c][j]
    <3>1. c \notin blurred /\ \A n \in Slots : ring[c][LinkSlot(index[c], n)] = lates[c][n]
      BY <1>0, <2>3 DEF RingInv, RingHoldsLates
    <3>2. CASE c = read
      <4>1. read = running
        BY <2>3, <3>2, <1>1 DEF SaveTimeout, Blur
      <4>2. lates' = [lates EXCEPT ![c] = Shift(@)]
        BY <1>1, <3>2, <4>1 DEF SaveTimeout, Witness
      <4> QED BY <2>1, <3>1, <3>2, <4>2, NoteKeepsRing
    <3>3. CASE c # read
      <4>1. c # running
        BY <2>3, <3>3, <1>1 DEF SaveTimeout, Blur
      <4>2. lates'[c] = lates[c]
        BY <4>1 DEF SaveTimeout, Witness, TypeInv, TypeOK
      <4>3. ring'[c] = ring[c] /\ index'[c] = index[c]
        BY <2>1, <3>3 DEF Note, TypeInv, TypeOK
      <4> QED BY <3>1, <4>2, <4>3
    <3> QED BY <3>2, <3>3
  <2> QED BY <1>0, <2>2, <2>3 DEF RingInv, RingHoldsLates
<1>2. CASE ~(on /\ late /\ read \in Commands)
  <2>1. UNCHANGED rings
    BY <1>2 DEF SaveTimeout
  <2>2. ASSUME NEW c \in Commands \ blurred' PROVE lates'[c] = lates[c]
    <3>1. CASE on /\ late /\ running \in Commands
      <4>1. c # running
        BY <1>2, <2>2, <3>1 DEF SaveTimeout, Blur
      <4> QED BY <4>1 DEF SaveTimeout, Witness, TypeInv, TypeOK
    <3>2. CASE ~(on /\ late /\ running \in Commands)
      BY <3>2 DEF SaveTimeout, Witness
    <3> QED BY <3>1, <3>2
  <2>3. RingHoldsLates'
    BY <1>0, <2>1, <2>2 DEF RingInv, RingHoldsLates, rings
  <2> QED BY <1>0, <2>1, <2>3 DEF RingInv, rings
<1> QED BY <1>1, <1>2

LEMMA RingNext == TypeInv /\ RingInv /\ [Next]_vars => RingInv'
<1> SUFFICES ASSUME TypeInv, RingInv, [Next]_vars PROVE RingInv'
  OBVIOUS
<1>1. ASSUME NEW c \in Commands, Run(c) PROVE RingInv'
  BY <1>1, RingStays DEF Run
<1>2. ASSUME NEW c \in Commands, Refuse(c) PROVE RingInv'
  BY <1>2, RingStays DEF Refuse, vars, rings
<1>3. CASE RunLinkEvent
  BY <1>3, RingStays DEF RunLinkEvent
<1>4. ASSUME NEW read \in Commands \cup {NoCommand}, NEW late \in BOOLEAN, SaveTimeout(read, late)
      PROVE  RingInv'
  BY <1>4, RingSave
<1>5. CASE ReSet
  BY <1>5, RingStays DEF ReSet
<1>6. CASE Tick
  BY <1>6, RingStays DEF Tick
<1>7. CASE UNCHANGED vars
  BY <1>7, RingStays DEF vars, rings
<1> QED BY <1>1, <1>2, <1>3, <1>4, <1>5, <1>6, <1>7 DEF Next, Finish

\* The ring of a command holds the times of its last TimeoutCount late runs,
\* in the order GetLinkData gives them, for every size of the ring.
THEOREM RingIsHistory == Spec => []RingHoldsLates
<1>1. Init => TypeInv /\ RingInv
  BY TypeInit, RingInit
<1>2. TypeInv /\ RingInv /\ [Next]_vars => (TypeInv /\ RingInv)'
  BY TypeNext, RingNext
<1>3. RingInv => RingHoldsLates
  BY DEF RingInv
<1> QED BY <1>1, <1>2, <1>3, PTL DEF Spec

-----------------------------------------------------------------------------
(* The bans                                                                *)

\* OneBanEach alone is not inductive: SaveTimeout appends without a look.  A
\* command inside the modules has no entry, because its check erased it.
BanInv ==
  /\ OneBanEach
  /\ inside /\ on /\ running \in Commands \ blurred =>
       \A k \in DOMAIN bans : bans[k].cmd # running

LEMMA BanInit == Init => BanInv
BY DEF Init, BanInv, OneBanEach

\* Steps that leave the list alone.
LEMMA BansStay ==
  ASSUME BanInv, UNCHANGED bans, blurred \subseteq blurred',
         inside' /\ on' /\ running' \in Commands \ blurred' =>
           inside /\ on /\ running' = running
  PROVE  BanInv'
BY DEF BanInv, OneBanEach

LEMMA EraseKeepsBans ==
  ASSUME TypeInv, BanInv, NEW k \in DOMAIN bans, Erase(k), blurred' = blurred,
         NEW c \in Commands \ blurred, NEW i \in DOMAIN bans', NEW n \in DOMAIN bans',
         bans'[i].cmd = c, bans'[n].cmd = c
  PROVE  i = n /\ bans[k].cmd # c
<1> DEFINE o(m) == IF m < k THEN m ELSE m + 1
<1>1. bans \in Seq(Bans)
  BY DEF TypeInv, TypeOK
<1>2. bans' \in Seq(Bans)
  BY <1>1, EraseType
<1>3. k \in Nat /\ i \in Nat /\ n \in Nat
  BY <1>1, <1>2
<1>4. ASSUME NEW m \in {i, n}
      PROVE  o(m) \in DOMAIN bans /\ o(m) # k /\ bans[o(m)].cmd = c
  <2>1. m \in DOMAIN bans' /\ bans'[m].cmd = c /\ m \in Nat
    BY <1>3
  <2>2. CASE m < k
    BY <1>1, <1>3, <2>1, <2>2, EraseKeeps
  <2>3. CASE ~(m < k)
    <3>1. m >= k /\ m + 1 # k
      BY <1>3, <2>1, <2>3
    <3> QED BY <1>1, <2>1, <2>3, <3>1, EraseKeeps
  <2> QED BY <2>2, <2>3
<1>5. o(i) = o(n)
  BY <1>4 DEF BanInv, OneBanEach
<1>6. i = n
  BY <1>3, <1>5
<1>7. bans[k].cmd # c
  <2>1. o(i) # k /\ o(i) \in DOMAIN bans /\ bans[o(i)].cmd = c
    BY <1>4
  <2> HIDE DEF o
  <2> QED BY <2>1 DEF BanInv, OneBanEach
<1> QED BY <1>6, <1>7

LEMMA BanRun ==
  ASSUME TypeInv, BanInv, NEW c \in Commands, Run(c)
  PROVE  BanInv'
<1>1. running' = c /\ blurred' = blurred /\ on' = on
  BY DEF Run, settings
<1>2. CASE ~on \/ \A k \in DOMAIN bans : bans[k].cmd # c
  <2>1. UNCHANGED bans
    BY <1>2 DEF Run, Pass, IsFirstBan
  <2> QED BY <1>1, <1>2, <2>1 DEF BanInv, OneBanEach
<1>3. ASSUME NEW k \in DOMAIN bans, bans[k].cmd = c, Erase(k) PROVE BanInv'
  <2>1. OneBanEach'
    <3> SUFFICES ASSUME NEW d \in Commands \ blurred', NEW i \in DOMAIN bans', NEW n \in DOMAIN bans',
                        bans'[i].cmd = d, bans'[n].cmd = d
                 PROVE  i = n
      BY DEF OneBanEach
    <3> QED BY <1>1, <1>3, EraseKeepsBans
  <2>2. ASSUME c \notin blurred, NEW i \in DOMAIN bans' PROVE bans'[i].cmd # c
    <3> SUFFICES ASSUME bans'[i].cmd = c PROVE FALSE
      OBVIOUS
    <3> QED BY <1>1, <1>3, <2>2, EraseKeepsBans
  <2> QED BY <1>1, <2>1, <2>2 DEF BanInv
<1> QED BY <1>2, <1>3 DEF Run, Pass, IsFirstBan

LEMMA BanSave ==
  ASSUME TypeInv, BanInv, NEW read \in Commands \cup {NoCommand}, NEW late \in BOOLEAN,
         SaveTimeout(read, late)
  PROVE  BanInv'
<1>1. ~inside' /\ blurred \subseteq blurred' /\ inside
  BY BlurType DEF SaveTimeout, TypeInv
<1>2. CASE UNCHANGED bans
  BY <1>1, <1>2, BansStay
<1>3. CASE on /\ read \in Commands /\ bans' = Append(bans, [cmd |-> read, until |-> now + stopTime])
  <2>1. bans \in Seq(Bans)
    BY DEF TypeInv, TypeOK
  <2>2. /\ DOMAIN bans = 1 .. Len(bans) /\ DOMAIN bans' = 1 .. Len(bans) + 1
        /\ Len(bans) \in Nat
        /\ \A i \in 1 .. Len(bans) : bans'[i] = bans[i]
        /\ bans'[Len(bans) + 1].cmd = read
    BY <1>3, <2>1
  <2>3. ASSUME NEW c \in Commands \ blurred', c = read, NEW i \in DOMAIN bans
        PROVE  bans[i].cmd # c
    <3>1. read = running
      BY <2>3 DEF SaveTimeout, Blur
    <3> QED BY <1>1, <1>3, <2>3, <3>1 DEF BanInv
  <2>4. OneBanEach'
    <3> SUFFICES ASSUME NEW c \in Commands \ blurred', NEW i \in DOMAIN bans', NEW n \in DOMAIN bans',
                        bans'[i].cmd = c, bans'[n].cmd = c
                 PROVE  i = n
      BY DEF OneBanEach
    <3>1. CASE i # Len(bans) + 1 /\ n # Len(bans) + 1
      <4>1. i \in DOMAIN bans /\ n \in DOMAIN bans /\ bans[i].cmd = c /\ bans[n].cmd = c
        BY <2>2, <3>1
      <4> QED BY <1>1, <4>1 DEF BanInv, OneBanEach
    <3>2. CASE c = read
      <4>1. i = Len(bans) + 1
        BY <2>2, <2>3, <3>2
      <4>2. n = Len(bans) + 1
        BY <2>2, <2>3, <3>2
      <4> QED BY <4>1, <4>2
    <3> QED BY <2>2, <3>1, <3>2
  <2> QED BY <1>1, <2>4 DEF BanInv
<1> QED BY <1>2, <1>3 DEF SaveTimeout, Save

LEMMA BanNext == TypeInv /\ BanInv /\ [Next]_vars => BanInv'
<1> SUFFICES ASSUME TypeInv, BanInv, [Next]_vars PROVE BanInv'
  OBVIOUS
<1>1. ASSUME NEW c \in Commands, Run(c) PROVE BanInv'
  BY <1>1, BanRun
<1>2. ASSUME NEW c \in Commands, Refuse(c) PROVE BanInv'
  BY <1>2, BansStay DEF Refuse, vars
<1>3. CASE RunLinkEvent
  BY <1>3, BansStay, CommandsAssumption DEF RunLinkEvent
<1>4. ASSUME NEW read \in Commands \cup {NoCommand}, NEW late \in BOOLEAN, SaveTimeout(read, late)
      PROVE  BanInv'
  BY <1>4, BanSave
<1>5. CASE ReSet
  <2>1. inside' /\ on' /\ running' \in Commands \ blurred' => inside /\ on /\ running' = running
    BY <1>5 DEF ReSet, TypeInv, TypeOK
  <2>2. UNCHANGED bans /\ blurred \subseteq blurred'
    BY <1>5 DEF ReSet
  <2> QED BY <2>1, <2>2, BansStay
<1>6. CASE Tick
  BY <1>6, BansStay DEF Tick, settings
<1>7. CASE UNCHANGED vars
  BY <1>7, BansStay DEF vars
<1> QED BY <1>1, <1>2, <1>3, <1>4, <1>5, <1>6, <1>7 DEF Next, Finish

LEMMA InvInit == Init => TypeInv /\ RingInv /\ BanInv
BY TypeInit, RingInit, BanInit

LEMMA InvNext == TypeInv /\ RingInv /\ BanInv /\ [Next]_vars => (TypeInv /\ RingInv /\ BanInv)'
BY TypeNext, RingNext, BanNext

\* No command ever has two entries in the list of bans.
THEOREM OneBanPerCommand == Spec => []OneBanEach
<1>1. BanInv => OneBanEach
  BY DEF BanInv
<1> QED BY InvInit, InvNext, <1>1, PTL DEF Spec

LEMMA StaysOutStep ==
  ASSUME TypeInv, BanInv, [Next]_vars, inside', ~inside, on, running' \in Commands \ blurred,
         NEW k \in DOMAIN bans, bans[k].cmd = running'
  PROVE  bans[k].until < now
<1>1. PICK c \in Commands : Run(c)
  BY CommandsAssumption DEF Next, Finish, Refuse, RunLinkEvent, SaveTimeout, ReSet, Tick, vars
<1>2. running' = c
  BY <1>1 DEF Run
<1>3. PICK n \in DOMAIN bans : IsFirstBan(n, c) /\ bans[n].until < now
  BY <1>1, <1>2 DEF Run, Pass
<1>4. n = k
  BY <1>2, <1>3 DEF IsFirstBan, BanInv, OneBanEach
<1> QED BY <1>3, <1>4

\* A command does not run before its ban is over.
THEOREM BannedCommandsStayOut == Spec => BannedStaysOut
<1>1. TypeInv /\ BanInv /\ [Next]_vars =>
        [inside' /\ ~inside /\ on /\ running' \in Commands \ blurred =>
           \A k \in DOMAIN bans : bans[k].cmd = running' => bans[k].until < now]_vars
  BY StaysOutStep
<1> QED BY InvInit, InvNext, <1>1, PTL DEF Spec, BannedStaysOut

-----------------------------------------------------------------------------
(* When a command is banned                                                *)

\* The oldest entry SaveTimeout looks at is the oldest of the history.
LEMMA EarnedIsOwed ==
  ASSUME TypeInv, RingInv, NEW c \in Commands \ blurred', Note(c),
         lates' = [lates EXCEPT ![c] = Shift(@)], now' = now, blurred \subseteq blurred'
  PROVE  Earned(c) <=> now - lates'[c][TimeoutCount - 1] <= checkTime
<1> DEFINE last == TimeoutCount - 1
<1>1. last \in Slots /\ TimeoutCount \in Nat \ {0}
  BY CountAssumption DEF Slots
<1>2. c \notin blurred /\ \A j \in Slots : ring[c][LinkSlot(index[c], j)] = lates[c][j]
  BY DEF RingInv, RingHoldsLates
<1>3. ring'[c][LinkSlot(index'[c], last)] = lates'[c][last]
  BY <1>1, <1>2, NoteKeepsRing
<1>4. CASE c \in known
  BY <1>3, <1>4 DEF Earned
<1>5. CASE c \notin known
  <2>1. lates'[c][last] = IF last = 0 THEN now ELSE lates[c][last - 1]
    BY <1>1 DEF Shift, TypeInv, TypeOK
  <2>2. CASE last = 0
    <3>1. now \in Nat /\ checkTime \in Nat
      BY NumbersHold DEF TypeInv, TypeOK, Numbers
    <3>2. now - lates'[c][last] <= checkTime
      BY <2>1, <2>2, <3>1
    <3>3. TimeoutCount <= 1
      BY <1>1, <2>2
    <3> QED BY <1>5, <3>2, <3>3 DEF Earned
  <2>3. CASE last # 0
    <3>1. last - 1 \in Slots
      BY <1>1, <2>3 DEF Slots
    <3>2. index[c] \in Slots
      BY DEF TypeInv, TypeOK
    <3>3. lates[c][last - 1] = 0
      BY <1>2, <1>5, <3>1, <3>2, LinkSlotType DEF RingInv
    <3>4. now \in Nat /\ checkTime \in Nat /\ now >= Start /\ checkTime < Start /\ Start \in Nat
      BY NumbersHold DEF RingInv, TypeInv, TypeOK, Numbers
    <3>5. ~(now - lates'[c][last] <= checkTime)
      BY <2>1, <2>3, <3>3, <3>4
    <3>6. ~(TimeoutCount <= 1)
      BY <1>1, <2>3
    <3> QED BY <1>5, <3>5, <3>6 DEF Earned
  <2> QED BY <2>2, <2>3
<1> QED BY <1>4, <1>5

LEMMA EarnedStep ==
  ASSUME TypeInv, RingInv, NEW read \in Commands \cup {NoCommand}, NEW late \in BOOLEAN,
         SaveTimeout(read, late)
  PROVE  /\ Len(bans') > Len(bans) =>
              LET c == bans'[Len(bans')].cmd
              IN  c \notin blurred' => now - lates'[c][TimeoutCount - 1] <= checkTime
         /\ \A c \in Commands \ blurred' :
              lates'[c] # lates[c] =>
                (Len(bans') > Len(bans) <=> now - lates'[c][TimeoutCount - 1] <= checkTime)
<1>1. now' = now /\ blurred \subseteq blurred' /\ bans \in Seq(Bans) /\ Len(bans) \in Nat
  BY BlurType DEF SaveTimeout, TypeInv, TypeOK
<1>2. ASSUME NEW c \in Commands \ blurred', lates'[c] # lates[c]
      PROVE  on /\ late /\ c = running /\ read = c
  <2>1. on /\ late /\ running \in Commands /\ lates' = [lates EXCEPT ![running] = Shift(@)]
    BY <1>2 DEF SaveTimeout, Witness
  <2>2. c = running
    BY <1>2, <2>1 DEF TypeInv, TypeOK
  <2> QED BY <1>2, <2>1, <2>2 DEF SaveTimeout, Blur
<1>3. ASSUME on, late, read \in Commands, read \notin blurred'
      PROVE  (Len(bans') > Len(bans) <=> now - lates'[read][TimeoutCount - 1] <= checkTime)
  <2>1. read = running
    BY <1>3 DEF SaveTimeout, Blur
  <2>2. lates' = [lates EXCEPT ![read] = Shift(@)] /\ Note(read)
    BY <1>3, <2>1 DEF SaveTimeout, Witness, Save
  <2>3. Earned(read) <=> now - lates'[read][TimeoutCount - 1] <= checkTime
    BY <1>1, <1>3, <2>2, EarnedIsOwed
  <2>4. IF Earned(read) THEN bans' = Append(bans, [cmd |-> read, until |-> now + stopTime])
        ELSE bans' = bans
    BY <1>3 DEF SaveTimeout, Save
  <2>5. Earned(read) => Len(bans') = Len(bans) + 1
    BY <1>1, <2>4
  <2> HIDE DEF Earned
  <2> QED BY <1>1, <2>3, <2>4, <2>5
<1>4. ASSUME Len(bans') > Len(bans)
      PROVE  on /\ late /\ read \in Commands /\ bans'[Len(bans')].cmd = read
  <2>1. bans' # bans
    BY <1>1, <1>4
  <2>2. on /\ late /\ read \in Commands /\ Save(read)
    BY <2>1 DEF SaveTimeout
  <2>3. bans' = Append(bans, [cmd |-> read, until |-> now + stopTime])
    BY <2>1, <2>2 DEF Save
  <2>4. bans'[Len(bans) + 1].cmd = read /\ Len(bans') = Len(bans) + 1
    BY <1>1, <2>3
  <2> QED BY <2>2, <2>4
<1>5. ASSUME Len(bans') > Len(bans), bans'[Len(bans')].cmd \notin blurred'
      PROVE  now - lates'[bans'[Len(bans')].cmd][TimeoutCount - 1] <= checkTime
  BY <1>3, <1>4, <1>5
<1> QED BY <1>2, <1>3, <1>5

\* A command is banned exactly when its own late runs earned it.
THEOREM BansAreEarned == Spec => BannedWhenEarned
<1> DEFINE Step ==
      /\ Len(bans') > Len(bans) =>
            LET c == bans'[Len(bans')].cmd
            IN  c \notin blurred' => now - lates'[c][TimeoutCount - 1] <= checkTime
      /\ \A c \in Commands \ blurred' :
            lates'[c] # lates[c] =>
              (Len(bans') > Len(bans) <=> now - lates'[c][TimeoutCount - 1] <= checkTime)
<1>1. TypeInv /\ RingInv /\ [Next]_vars => [Step]_vars
  <2> SUFFICES ASSUME TypeInv, RingInv, Next PROVE Step
    OBVIOUS
  <2>1. CASE Finish
    BY <2>1, EarnedStep DEF Finish
  <2>2. ASSUME NEW c \in Commands, Run(c) PROVE Step
    <3>1. lates' = lates
      BY <2>2 DEF Run
    <3>2. bans \in Seq(Bans) /\ Len(bans) \in Nat
      BY DEF TypeInv, TypeOK
    <3>3. ASSUME NEW k \in DOMAIN bans, Erase(k) PROVE Len(bans') <= Len(bans)
      BY <3>2, <3>3 DEF Erase
    <3>4. ~(Len(bans') > Len(bans))
      BY <2>2, <3>2, <3>3, EraseType DEF Run, Pass
    <3> QED BY <3>1, <3>4
  <2>3. CASE UNCHANGED <<bans, lates>>
    <3>1. ~(Len(bans') > Len(bans))
      BY <2>3 DEF TypeInv, TypeOK
    <3> QED BY <2>3, <3>1
  <2> QED BY <2>1, <2>2, <2>3 DEF Next, Refuse, RunLinkEvent, ReSet, Tick, vars
<1> QED BY InvInit, InvNext, <1>1, PTL DEF Spec, BannedWhenEarned
=============================================================================
