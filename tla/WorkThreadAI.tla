---------------------------- MODULE WorkThreadAI ----------------------------
(***************************************************************************)
(* The self protection of one work thread (Message/WorkThreadAI.cpp with   *)
(* the ring of Common/Ring.h), driven by CMessageService::ProcessMessage:  *)
(* before a command runs, CheckCurrTimeout looks whether it is forbidden;  *)
(* after it ran, SaveTimeout notes it if it took too long, and forbids it  *)
(* for StopTime seconds once TimeoutCount late runs fall in CheckTime      *)
(* seconds.  The console may change the settings meanwhile (ReSet).        *)
(*                                                                         *)
(* The command SaveTimeout is given is read from the message again, after  *)
(* the message was deleted: a network thread may have refilled it.         *)
(***************************************************************************)
EXTENDS Naturals, Sequences

CONSTANTS
  Commands,      \* command ids of logic packets
  NoCommand,     \* a link event, which the guard ignores
  TimeoutCount,  \* m_u4WTTimeoutCount: late runs that earn a ban, size of a ring
  CheckTimes,    \* m_u4WTCheckTime the configuration and the console may give
  StopTimes,     \* m_u4WTStopTime likewise
  Start,         \* the time when the thread starts, seconds since the epoch
  MaxTime,       \* bound: when the clock stops
  MaxResets,     \* bound: settings changed by the console
  MaxMisreads    \* bound: messages refilled before SaveTimeout reads them

Slots == 0 .. TimeoutCount - 1

\* A TimeoutCount of 0 makes a ring of no element, which SaveTimeout writes to.
ASSUME CountAssumption == TimeoutCount \in Nat \ {0}
ASSUME TimesAssumption ==
  /\ CheckTimes \subseteq Nat /\ StopTimes \subseteq Nat
  /\ CheckTimes # {} /\ StopTimes # {}
  /\ Start \in Nat /\ MaxTime \in Nat /\ MaxResets \in Nat /\ MaxMisreads \in Nat
  /\ \A t \in CheckTimes : t < Start
ASSUME CommandsAssumption == NoCommand \notin Commands

VARIABLES
  now,                      \* gettimeofday
  on, checkTime, stopTime,  \* m_u1WTAI, m_u4WTCheckTime, m_u4WTStopTime
  known, ring, index,       \* m_vecCommandTime: the commands with a ring, and
                            \* m_pRingLink and m_nIndex of each
  bans,                     \* m_vecCommandTimeout, in order
  running,                  \* the command the thread is in, or NoCommand
  inside,                   \* the thread is between check and SaveTimeout
  resets, misreads,         \* settings changed, messages refilled so far
  lates,                    \* history: per command, its last TimeoutCount
                            \* late runs, latest first
  blurred                   \* history: commands whose runs and records may
                            \* differ, see Blur and ReSet

settings == <<on, checkTime, stopTime>>
rings    == <<known, ring, index>>
vars == <<now, on, checkTime, stopTime, known, ring, index, bans, running,
          inside, resets, misreads, lates, blurred>>

-----------------------------------------------------------------------------
(* CRingLink                                                               *)

\* (mutant) the index wraps one slot late.
AddLate(i) == IF i = TimeoutCount THEN 0 ELSE i + 1

\* Add moves the index to the slot GetFreeData will give next.
Add(i) == IF i = TimeoutCount - 1 THEN 0 ELSE i + 1

\* (mutant) the newest entry is taken to be the one at the index.
LinkSlotFromIndex(i, j) == IF i >= j THEN i - j ELSE TimeoutCount + i - j

\* GetLinkData(j) gives the entry written j + 1 calls of Add ago.
LinkSlot(i, j) == IF i > j THEN i - 1 - j ELSE (TimeoutCount + i) - (j + 1)

-----------------------------------------------------------------------------
(* CheckCurrTimeout                                                        *)

IsFirstBan(k, c) ==
  /\ k \in DOMAIN bans
  /\ bans[k].cmd = c
  /\ \A i \in 1 .. k - 1 : bans[i].cmd # c

Erase(k) == bans' = SubSeq(bans, 1, k - 1) \o SubSeq(bans, k + 1, Len(bans))

\* (mutant) a ban that is over keeps its entry.
PassKeepsEntry(c) ==
  \/ ~on /\ UNCHANGED bans
  \/ on /\ (\A k \in DOMAIN bans : bans[k].cmd # c) /\ UNCHANGED bans
  \/ on /\ (\E k \in DOMAIN bans : IsFirstBan(k, c) /\ bans[k].until < now) /\ UNCHANGED bans

\* CheckCurrTimeout returns false: the guard is off, or the command has no
\* entry, or its first entry is over and erased.
Pass(c) ==
  \/ ~on /\ UNCHANGED bans
  \/ on /\ (\A k \in DOMAIN bans : bans[k].cmd # c) /\ UNCHANGED bans
  \/ on /\ \E k \in DOMAIN bans : IsFirstBan(k, c) /\ bans[k].until < now /\ Erase(k)

\* A packet of command c begins and goes to the modules.
Run(c) ==
  /\ ~inside
  /\ Pass(c)
  /\ inside'  = TRUE
  /\ running' = c
  /\ UNCHANGED <<now, settings, rings, resets, misreads, lates, blurred>>

\* (mutant) being refused starts the ban anew.
RefuseRenews(c) ==
  /\ ~inside
  /\ on
  /\ \E k \in DOMAIN bans :
       /\ IsFirstBan(k, c) /\ bans[k].until >= now
       /\ bans' = [bans EXCEPT ![k].until = now + stopTime]
  /\ UNCHANGED <<now, settings, rings, running, inside, resets, misreads, lates, blurred>>

\* CheckCurrTimeout returns true: the client is told that the server is busy.
Refuse(c) ==
  /\ ~inside
  /\ on
  /\ \E k \in DOMAIN bans : IsFirstBan(k, c) /\ bans[k].until >= now
  /\ UNCHANGED vars

-----------------------------------------------------------------------------
(* SaveTimeout                                                             *)

\* (mutant) the ban is decided by the newest late run, not by the oldest.
EarnedByNewest(c) ==
  IF c \in known
  THEN now - ring'[c][LinkSlot(index'[c], 0)] <= checkTime
  ELSE TimeoutCount <= 1

\* The oldest of the last TimeoutCount late runs is recent; for a command
\* that is late for the first time, only if one late run is enough.
Earned(c) ==
  IF c \in known
  THEN now - ring'[c][LinkSlot(index'[c], TimeoutCount - 1)] <= checkTime
  ELSE TimeoutCount <= 1

\* GetFreeData, the entry written, Add.
Note(c) ==
  /\ ring'  = [ring EXCEPT ![c][index[c]] = now]
  /\ index' = [index EXCEPT ![c] = Add(@)]
  /\ known' = known \cup {c}

Save(c) ==
  /\ Note(c)
  /\ IF Earned(c)
     THEN bans' = Append(bans, [cmd |-> c, until |-> now + stopTime])
     ELSE UNCHANGED bans

Shift(f) == [j \in Slots |-> IF j = 0 THEN now ELSE f[j - 1]]

\* History: what really ran late while the guard was on.
Witness(late) ==
  lates' = IF on /\ late /\ running \in Commands
           THEN [lates EXCEPT ![running] = Shift(@)] ELSE lates

\* History: SaveTimeout blames read for the time running took.
Blur(read) ==
  IF read = running
  THEN UNCHANGED <<blurred, misreads>>
  ELSE /\ misreads < MaxMisreads
       /\ misreads' = misreads + 1
       /\ blurred'  = blurred \cup ({read, running} \cap Commands)

\* DoMessage returned and the message was deleted; read is what its m_u2Cmd
\* says now.  A run that is not late (m_u4DisposeTime), or a guard that is
\* off, leaves no trace.
SaveTimeout(read, late) ==
  /\ inside
  /\ IF on /\ late /\ read \in Commands THEN Save(read) ELSE UNCHANGED <<rings, bans>>
  /\ Witness(late)
  /\ Blur(read)
  /\ inside'  = FALSE
  /\ running' = NoCommand
  /\ UNCHANGED <<now, settings, resets>>

\* A link event runs without a check.
RunLinkEvent ==
  /\ ~inside
  /\ inside' = TRUE
  /\ running' = NoCommand
  /\ UNCHANGED <<now, settings, rings, bans, resets, misreads, lates, blurred>>

-----------------------------------------------------------------------------
(* The console, and time                                                   *)

\* SetAI of the console.  The guard switched between the check of a command
\* and its SaveTimeout blurs that command.
ReSet ==
  /\ resets < MaxResets
  /\ resets' = resets + 1
  /\ on' \in BOOLEAN /\ checkTime' \in CheckTimes /\ stopTime' \in StopTimes
  /\ blurred' = IF on' # on THEN blurred \cup ({running} \cap Commands) ELSE blurred
  /\ UNCHANGED <<now, rings, bans, running, inside, misreads, lates>>

Tick ==
  /\ now < MaxTime
  /\ now' = now + 1
  /\ UNCHANGED <<settings, rings, bans, running, inside, resets, misreads, lates, blurred>>

-----------------------------------------------------------------------------

\* The constructor and Init; the entries of a ring start with m_u4Second = 0.
Init ==
  /\ now = Start
  /\ on \in BOOLEAN /\ checkTime \in CheckTimes /\ stopTime \in StopTimes
  /\ known = {}
  /\ ring  = [c \in Commands |-> [i \in Slots |-> 0]]
  /\ index = [c \in Commands |-> 0]
  /\ bans  = <<>>
  /\ running = NoCommand /\ inside = FALSE
  /\ resets = 0 /\ misreads = 0
  /\ lates = [c \in Commands |-> [j \in Slots |-> 0]]
  /\ blurred = {}

Finish == \E read \in Commands \cup {NoCommand}, late \in BOOLEAN : SaveTimeout(read, late)

Next ==
  \/ \E c \in Commands : Run(c) \/ Refuse(c)
  \/ RunLinkEvent
  \/ Finish
  \/ ReSet
  \/ Tick

Spec == Init /\ [][Next]_vars

\* Time passes, modules return, and clients go on sending every command; the
\* queue is first in first out, so a command is not passed over for ever.
FairSpec ==
  /\ Spec
  /\ WF_vars(Tick)
  /\ WF_vars(Finish)
  /\ \A c \in Commands : SF_vars(Run(c))

-----------------------------------------------------------------------------
(* Properties                                                              *)

Bans == [cmd : Commands, until : Nat]

\* Types of the variables.
TypeOK ==
  /\ now \in Nat /\ resets \in Nat /\ misreads \in Nat
  /\ on \in BOOLEAN /\ checkTime \in CheckTimes /\ stopTime \in StopTimes
  /\ known \subseteq Commands
  /\ ring  \in [Commands -> [Slots -> Nat]]
  /\ index \in [Commands -> Slots]
  /\ bans  \in Seq(Bans)
  /\ running \in Commands \cup {NoCommand} /\ inside \in BOOLEAN
  /\ lates \in [Commands -> [Slots -> Nat]]
  /\ blurred \subseteq Commands

\* GetLinkData(j) of the ring of a command (Ring.h) is the time of its late
\* run j runs ago, wherever the index stands and however often it wrapped.
\* A command some run of which was blamed on another, or on which another
\* was blamed, is left out.
RingHoldsLates ==
  \A c \in Commands \ blurred : \A j \in Slots :
    ring[c][LinkSlot(index[c], j)] = lates[c][j]

\* A command has at most one entry in the list of bans: SaveTimeout does not
\* look whether it has one, but relies on the check made before the command ran.
OneBanEach ==
  \A c \in Commands \ blurred : \A i, k \in DOMAIN bans :
    bans[i].cmd = c /\ bans[k].cmd = c => i = k

\* The guard forbids a command exactly when TimeoutCount late runs of that
\* command itself fell in CheckTime seconds (WorkThreadAI.h lines 7-10).
BannedWhenEarned ==
  [][/\ Len(bans') > Len(bans) =>
          LET c == bans'[Len(bans')].cmd
          IN  c \notin blurred' => now - lates'[c][TimeoutCount - 1] <= checkTime
     /\ \A c \in Commands \ blurred' :
          lates'[c] # lates[c] =>
            (Len(bans') > Len(bans) <=> now - lates'[c][TimeoutCount - 1] <= checkTime)]_vars

\* While a ban lasts its command does not run (WorkThreadAI.cpp line 176), and
\* it is not let in early because of an older ban that is over.
BannedStaysOut ==
  [][inside' /\ ~inside /\ on /\ running' \in Commands \ blurred =>
       \A k \in DOMAIN bans : bans[k].cmd = running' => bans[k].until < now]_vars

\* A ban ends: a command that is asked for again and again runs again, although
\* its entry is only erased by a packet of that command.  (The clock of the
\* model stops at MaxTime.)
BanEnds ==
  \A c \in Commands :
    ((\E k \in DOMAIN bans : bans[k].cmd = c)
     /\ (\A k \in DOMAIN bans : bans[k].cmd = c => bans[k].until < MaxTime))
      ~> (running = c)
=============================================================================
