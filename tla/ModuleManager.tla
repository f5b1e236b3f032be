--------------------------- MODULE ModuleManager ---------------------------
(***************************************************************************)
(* The command table (Message/MessageManager.cpp, MessageManager.h) and    *)
(* the module loader (Message/LoadModule.cpp, Common/MapTemplate.h).       *)
(*                                                                         *)
(* A plugin is a file; loaded, it goes by the name its GetName returns and *)
(* registers itself for commands, one AddClientCommand after the other.    *)
(* The table has, per command, the list of registrations DoMessage walks,  *)
(* and, per module, the registrations UnloadModuleCommand takes back.      *)
(*                                                                         *)
(* The console loads while the work threads run.  To unload, UnloadModule  *)
(* of CMessageServiceGroup marks the threads, so that none takes another   *)
(* message, and scans them until none is at work.  It does not see one     *)
(* that has passed the gate and has not set THREAD_RUNBEGIN: that one may  *)
(* walk a list while the registrations of the module are erased from it.   *)
(***************************************************************************)
EXTENDS Naturals, Sequences, FiniteSets, SequencesExt

CONSTANTS
  Threads,      \* work threads
  Commands,     \* command ids
  Files,        \* plugin files
  NameOf,       \* what GetName of a file returns
  CommandsOf,   \* commands the plugin of a file registers and takes back
  NoName,
  MaxLoads      \* bound: calls of LoadModule

Names == {NameOf[f] : f \in Files}

\* A file is not called as the module in it (in every plugin of example-Module
\* it is not).  Otherwise LoadModule would find, and unload while the threads
\* run, the module of that name, and leave its entry in modules behind.
ASSUME FilesAssumption ==
  /\ Files \cap Names = {}
  /\ CommandsOf \in [Files -> SUBSET Commands]
  /\ NoName \notin Names \cup Commands
  /\ MaxLoads \in Nat

\* A _ClientCommandInfo; the number of the load tells an object from a later
\* one for the same command and module.
Infos  == [cmd : Commands, name : Names, load : 1 .. MaxLoads]
NoInfo == [cmd |-> NoName, name |-> NoName, load |-> 0]

VARIABLES
  loaded,        \* m_mapModuleInfo: the index vector, and the file of a name
  fileOf,
  lists,         \* m_mapClientCommand: per command, its m_vecClientCommandList
  listed,        \* commands that have a list, which may be empty
  modules,       \* m_mapModuleClient: per name, m_vecClientCommandInfo; an
                 \* entry is made with its first element
  loading,       \* the module whose LoadModuleData runs, or NoName
  todo,          \* commands it has yet to register
  loads,         \* calls of LoadModule so far
  upc,           \* where UnloadModule is
  unloading,     \* its module, or NoName
  marked,        \* threads with m_emThreadState = THREAD_MODULE_UNLOAD
  scanned,       \* threads the scan has passed since it last started over
  passed,        \* threads past the gate of svc, not yet in DoMessage
  strays,        \* history: threads whose message a scan overlooked
  busy, count,   \* per thread: the command it is in, nCount
  at, call,      \* per thread: the loop index, the registration it runs
  owed,          \* history: the registrations found when DoMessage began
  called         \* history: the ones it ran

tables == <<loaded, fileOf, lists, listed, modules>>
loader == <<loading, todo, loads>>
unload == <<upc, unloading, marked, scanned>>
walks  == <<busy, count, at, call, owed, called>>
vars   == <<loaded, fileOf, lists, listed, modules, loading, todo, loads,
            upc, unloading, marked, scanned, passed, strays,
            busy, count, at, call, owed, called>>

-----------------------------------------------------------------------------
(* CMessageManager                                                         *)

\* (mutant) the newest registration of a command is put first.
AddFirst(c, info) == [lists EXCEPT ![c] = <<info>> \o @]

\* CClientCommandList::AddClientCommand.
AddTo(c, info) == [lists EXCEPT ![c] = Append(@, info)]

\* AddClientCommand: the list of the command, made if there is none, and the
\* entry of the module.
AddClientCommand(c) ==
  LET info == [cmd |-> c, name |-> loading, load |-> loads]
  IN  /\ lists'   = AddTo(c, info)
      /\ listed'  = listed \cup {c}
      /\ modules' = [modules EXCEPT ![loading] = Append(@, info)]

\* CClientCommandList::DelClientCommand: the first registration of a module's
\* command object is erased.
DelFirst(s, n) == RemoveFirstMatch(s, LAMBDA i : i.name = n)

\* UnloadModuleCommand, its loop: each registration of the module is looked
\* for in the list of its command and, found, its command object deleted from
\* that list, which is kept even if it gets empty.
TakeBack(n) ==
  [c \in Commands |->
     IF \E i \in ToSet(modules[n]) : i.cmd = c /\ i \in ToSet(lists[c])
     THEN DelFirst(lists[c], n) ELSE lists[c]]

\* UnLoadModuleData of the plugin calls DelClientCommand for its commands,
\* which also deletes a list that is, or becomes, empty.
PluginDeletes(n) ==
  [c \in Commands |-> IF c \in CommandsOf[fileOf[n]] /\ c \in listed
                      THEN DelFirst(lists[c], n) ELSE lists[c]]
StillListed(ls, n) == {c \in listed : c \in CommandsOf[fileOf[n]] => ls[c] # <<>>}

-----------------------------------------------------------------------------
(* CLoadModule                                                             *)

\* UnLoadModule: the plugin is told, the library closed, the module taken out
\* of the map.  Nothing for an unknown name.
UnLoadModule(n) ==
  IF n \in ToSet(loaded)
  THEN /\ lists'  = PluginDeletes(n)
       /\ listed' = StillListed(lists', n)
       /\ loaded' = RemoveFirst(loaded, n)
  ELSE UNCHANGED <<lists, listed, loaded>>

\* (mutant) a plugin whose name is taken is loaded nevertheless.
AddModuleTwice(f) ==
  /\ loaded'  = IF NameOf[f] \in ToSet(loaded) THEN loaded ELSE Append(loaded, NameOf[f])
  /\ fileOf'  = [fileOf EXCEPT ![NameOf[f]] = f]
  /\ loading' = NameOf[f] /\ todo' = CommandsOf[f]

\* AddMapData refuses a name that is taken; else LoadModuleData starts.
AddModule(f) ==
  IF NameOf[f] \in ToSet(loaded)
  THEN UNCHANGED <<loaded, fileOf, loading, todo>>
  ELSE /\ loaded'  = Append(loaded, NameOf[f])
       /\ fileOf'  = [fileOf EXCEPT ![NameOf[f]] = f]
       /\ loading' = NameOf[f] /\ todo' = CommandsOf[f]

\* LoadModule of a file that opens and has all the functions of a plugin.  It
\* first looks for a module known under the name of the FILE, to unload it;
\* modules are kept by the name they give themselves, so there is none.
LoadModule(f) ==
  /\ loading = NoName /\ upc = "idle"
  /\ loads < MaxLoads
  /\ loads' = loads + 1
  /\ AddModule(f)
  /\ UNCHANGED <<lists, listed, modules, unload, passed, strays, walks>>

\* LoadModuleData of the plugin, one command.
Register ==
  /\ loading # NoName
  /\ \E c \in todo :
       /\ AddClientCommand(c)
       /\ todo' = todo \ {c}
  /\ UNCHANGED <<loaded, fileOf, loading, loads, unload, passed, strays, walks>>

\* It returns; an error, which leaves the module loaded, may come any time.
EndLoad ==
  /\ loading # NoName
  /\ loading' = NoName /\ todo' = {}
  /\ UNCHANGED <<tables, loads, unload, passed, strays, walks>>

-----------------------------------------------------------------------------
(* CMessageServiceGroup::UnloadModule                                      *)

\* The console calls it when it does not load.
StartUnload(n) ==
  /\ loading = NoName /\ upc = "idle"
  /\ upc' = "mark" /\ unloading' = n
  /\ UNCHANGED <<marked, scanned, tables, loader, passed, strays, walks>>

\* SetThreadState(THREAD_MODULE_UNLOAD), a thread at a time.  Here and in the
\* other loops over the threads, their order is left open.
MarkThread(t) ==
  /\ upc = "mark"
  /\ t \notin marked
  /\ marked' = marked \cup {t}
  /\ upc' = IF marked' = Threads THEN "scan" ELSE "mark"
  /\ UNCHANGED <<unloading, scanned, tables, loader, passed, strays, walks>>

\* (mutant) a thread at work is not waited for.
ScanThreadAtWork(t) ==
  /\ upc = "scan"
  /\ t \notin scanned
  /\ scanned' = scanned \cup {t}
  /\ strays'  = strays \cup ({t} \cap passed)
  /\ upc' = IF scanned' = Threads THEN "take" ELSE "scan"
  /\ UNCHANGED <<unloading, marked, tables, loader, passed, walks>>

\* GetStepState of a thread: at work, the scan sleeps and starts over.
ScanThread(t) ==
  /\ upc = "scan"
  /\ t \notin scanned
  /\ IF busy[t] # NoName
     THEN /\ scanned' = {}
          /\ strays'  = strays \ scanned
     ELSE /\ scanned' = scanned \cup {t}
          /\ strays'  = strays \cup ({t} \cap passed)
  /\ upc' = IF scanned' = Threads THEN "take" ELSE "scan"
  /\ UNCHANGED <<unloading, marked, tables, loader, passed, walks>>

\* (mutant) the entry of the module stays.
UnloadKeepsEntry ==
  /\ upc = "take"
  /\ scanned' = {}
  /\ IF modules[unloading] = <<>>
     THEN upc' = "resume" /\ UNCHANGED lists
     ELSE upc' = "close" /\ lists' = TakeBack(unloading)
  /\ UNCHANGED <<modules, loaded, fileOf, listed, loader, unloading, marked,
                 passed, strays, walks>>

\* UnloadModuleCommand takes the registrations back and drops the entry of the
\* module.  A module that registered nothing is not found, and stays.
UnloadModuleCommand ==
  /\ upc = "take"
  /\ scanned' = {}
  /\ IF modules[unloading] = <<>>
     THEN upc' = "resume" /\ UNCHANGED <<lists, modules>>
     ELSE /\ upc' = "close"
          /\ lists'   = TakeBack(unloading)
          /\ modules' = [modules EXCEPT ![unloading] = <<>>]
  /\ UNCHANGED <<loaded, fileOf, listed, loader, unloading, marked, passed, strays,
                 walks>>

\* It has the module closed.  Asked to reload, it looks for the module it has
\* just unloaded and does not find it: u1State = 2 does what u1State = 1 does.
CloseModule ==
  /\ upc = "close"
  /\ UnLoadModule(unloading)
  /\ upc' = "resume"
  /\ UNCHANGED <<modules, fileOf, loader, unloading, marked, scanned, passed, strays,
                 walks>>

\* SetThreadState(THREAD_RUN).
ResumeThread(t) ==
  /\ upc = "resume"
  /\ t \in marked
  /\ marked' = marked \ {t}
  /\ IF marked' = {} THEN upc' = "idle" /\ unloading' = NoName
                     ELSE UNCHANGED <<upc, unloading>>
  /\ UNCHANGED <<scanned, tables, loader, passed, strays, walks>>

-----------------------------------------------------------------------------
(* A work thread                                                           *)

\* With a message in hand, svc waits until its state is THREAD_RUN.
PassGate(t) ==
  /\ busy[t] = NoName /\ t \notin passed
  /\ t \notin marked
  /\ passed' = passed \cup {t}
  /\ UNCHANGED <<strays, tables, loader, unload, walks>>

\* ProcessMessage of a command that is banned or has no list.
Ignore(t) ==
  /\ t \in passed
  /\ passed' = passed \ {t}
  /\ strays' = strays \ {t}
  /\ UNCHANGED <<tables, loader, unload, walks>>

\* (mutant) the index starts one early.
StartMessageEarly(t, c) ==
  /\ t \in passed
  /\ c \in listed
  /\ passed' = passed \ {t}
  /\ busy'   = [busy EXCEPT ![t] = c]
  /\ count'  = [count EXCEPT ![t] = Len(lists[c])]
  /\ at'     = [at EXCEPT ![t] = 0]
  /\ owed'   = [owed EXCEPT ![t] = ToSet(lists[c])]
  /\ called' = [called EXCEPT ![t] = <<>>]
  /\ UNCHANGED <<call, strays, tables, loader, unload>>

\* THREAD_RUNBEGIN, then GetClientCommandList and GetCount.  They are one step:
\* a scan that finds THREAD_RUNBEGIN waits, and a registration made in between
\* may as well come before it.  Only the unload that overlooked the message can
\* free the list in between; the thread is a stray then, of which no property
\* speaks.
StartMessage(t, c) ==
  /\ t \in passed
  /\ c \in listed
  /\ passed' = passed \ {t}
  /\ busy'   = [busy EXCEPT ![t] = c]
  /\ count'  = [count EXCEPT ![t] = Len(lists[c])]
  /\ at'     = [at EXCEPT ![t] = 1]
  /\ owed'   = [owed EXCEPT ![t] = ToSet(lists[c])]
  /\ called' = [called EXCEPT ![t] = <<>>]
  /\ UNCHANGED <<call, strays, tables, loader, unload>>

\* What GetClientCommandIndex(i) may return, NoInfo for NULL.  Once a
\* registration is erased from a list under its reader, the behaviour is
\* undefined: any registration that was found or is listed now, or none.
Indexed(t) ==
  LET list == lists[busy[t]]
  IN  IF ~(owed[t] \subseteq ToSet(list)) THEN owed[t] \cup ToSet(list) \cup {NoInfo}
      ELSE IF at[t] <= Len(list) THEN {list[at[t]]} ELSE {NoInfo}

\* One turn of the loop: a registration and, unless it is NULL, the DoMessage
\* of its module.
CallModule(t) ==
  /\ busy[t] # NoName
  /\ at[t] <= count[t]
  /\ at' = [at EXCEPT ![t] = @ + 1]
  /\ \E info \in Indexed(t) :
       IF info = NoInfo
       THEN UNCHANGED <<call, called>>
       ELSE /\ call'   = [call EXCEPT ![t] = info]
            /\ called' = [called EXCEPT ![t] = Append(@, info)]
  /\ UNCHANGED <<busy, count, owed, passed, strays, tables, loader, unload>>

\* The loop is over: THREAD_RUNEND.
EndMessage(t) ==
  /\ busy[t] # NoName
  /\ at[t] > count[t]
  /\ busy'   = [busy EXCEPT ![t] = NoName]
  /\ count'  = [count EXCEPT ![t] = 0]
  /\ at'     = [at EXCEPT ![t] = 1]
  /\ call'   = [call EXCEPT ![t] = NoInfo]
  /\ owed'   = [owed EXCEPT ![t] = {}]
  /\ called' = [called EXCEPT ![t] = <<>>]
  /\ strays' = strays \ {t}
  /\ UNCHANGED <<passed, tables, loader, unload>>

-----------------------------------------------------------------------------

Init ==
  /\ loaded = <<>> /\ fileOf = [n \in Names |-> CHOOSE f \in Files : NameOf[f] = n]
  /\ lists = [c \in Commands |-> <<>>] /\ listed = {}
  /\ modules = [n \in Names |-> <<>>]
  /\ loading = NoName /\ todo = {} /\ loads = 0
  /\ upc = "idle" /\ unloading = NoName /\ marked = {} /\ scanned = {}
  /\ passed = {} /\ strays = {}
  /\ busy = [t \in Threads |-> NoName] /\ count = [t \in Threads |-> 0]
  /\ at = [t \in Threads |-> 1] /\ call = [t \in Threads |-> NoInfo]
  /\ owed = [t \in Threads |-> {}] /\ called = [t \in Threads |-> <<>>]

Next ==
  \/ \E f \in Files : LoadModule(f)
  \/ Register
  \/ EndLoad
  \/ \E n \in Names : StartUnload(n)
  \/ \E t \in Threads : MarkThread(t) \/ ScanThread(t) \/ ResumeThread(t)
  \/ UnloadModuleCommand
  \/ CloseModule
  \/ \E t \in Threads :
       \/ PassGate(t)
       \/ Ignore(t)
       \/ \E c \in Commands : StartMessage(t, c)
       \/ CallModule(t)
       \/ EndMessage(t)

Spec == Init /\ [][Next]_vars

-----------------------------------------------------------------------------
(* Properties                                                              *)

\* Types of the variables.
TypeOK ==
  /\ loaded \in Seq(Names) /\ fileOf \in [Names -> Files]
  /\ lists \in [Commands -> Seq(Infos)] /\ listed \subseteq Commands
  /\ modules \in [Names -> Seq(Infos)]
  /\ loading \in Names \cup {NoName} /\ todo \subseteq Commands
  /\ loads \in 0 .. MaxLoads
  /\ upc \in {"idle", "mark", "scan", "take", "close", "resume"}
  /\ unloading \in IF upc = "idle" THEN {NoName} ELSE Names
  /\ marked \subseteq Threads /\ scanned \subseteq Threads
  /\ passed \subseteq Threads /\ strays \subseteq Threads
  /\ busy \in [Threads -> Commands \cup {NoName}]
  /\ count \in [Threads -> Nat] /\ at \in [Threads -> Nat \ {0}]
  /\ call \in [Threads -> Infos \cup {NoInfo}]
  /\ owed \in [Threads -> SUBSET Infos] /\ called \in [Threads -> Seq(Infos)]

Registered == UNION {ToSet(lists[c]) : c \in Commands}

\* The two tables agree: what a module is said to have registered is what the
\* lists of the commands hold of it, each under its own command, so that
\* UnloadModuleCommand never follows a pointer to an object that was freed
\* and leaves nothing of a module behind (MessageManager.cpp line 221); and but
\* for the moment between the two no command keeps an empty list.
TablesAgree ==
  /\ \A n \in Names : ToSet(modules[n]) = {i \in Registered : i.name = n}
  /\ \A c \in Commands : \A i \in ToSet(lists[c]) : i.cmd = c
  /\ \A c \in Commands : lists[c] # <<>> => c \in listed
  /\ upc # "close" => \A c \in listed : lists[c] # <<>>

\* A module hears a packet once: no command lists a module twice, however
\* often it is loaded, unloaded and loaded again.
RegisteredOnce ==
  \A c \in Commands : \A i, k \in DOMAIN lists[c] :
    lists[c][i].name = lists[c][k].name => i = k

\* With a message that no scan of UnloadModule overlooked, a thread only enters
\* modules whose library is loaded and whose registration is in the table, and
\* both stay so while it is inside.  For a message that was overlooked the code
\* does not promise it: its module may be closed under it.
CallsLoaded ==
  \A t \in Threads : call[t] # NoInfo /\ t \notin strays =>
    call[t].name \in ToSet(loaded) /\ call[t] \in Registered

\* With a message that no scan overlooked, DoMessage, which takes the length of
\* the list before its loop, runs each registration it found exactly once,
\* though modules are loaded and unloaded around it.  The list of a message
\* that was overlooked may get shorter than its nCount.
HeardByAll ==
  [][\A t \in Threads : busy[t] # NoName /\ busy'[t] = NoName /\ t \notin strays =>
       /\ ToSet(called[t]) = owed[t]
       /\ Len(called[t]) = Cardinality(owed[t])]_vars
=============================================================================
