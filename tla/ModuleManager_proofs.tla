------------------------ MODULE ModuleManager_proofs ------------------------
(***************************************************************************)
(* Proofs about the command table and the module loader, for any number of *)
(* threads, commands and plugin files.                                     *)
(*                                                                         *)
(* The heart is Tables: a module is listed at most once per command, only  *)
(* while it is loaded, and only for commands its plugin knows.  So one     *)
(* erasure per list takes back all there is of a module (TakeBackErases).  *)
(* Handshake says what the scan of UnloadModule knows of the threads it    *)
(* has passed: they are out of DoMessage and cannot get in, or strays.     *)
(* Walks ties what a thread has run to the prefix of the list it counted:  *)
(* the lists of threads that are not strays only grow.                     *)
(***************************************************************************)
EXTENDS ModuleManager, SequenceTheorems, FiniteSetTheorems, TLAPS

-----------------------------------------------------------------------------
(* Sequences: erasing an element                                           *)

\* Where the element at place k after the erasure of place i was before.
Was(i, k) == IF k < i THEN k ELSE k + 1

LEMMA RemoveAtPlaces ==
  ASSUME NEW S, NEW s \in Seq(S), NEW i \in 1 .. Len(s)
  PROVE  /\ RemoveAt(s, i) \in Seq(S)
         /\ Len(RemoveAt(s, i)) = Len(s) - 1
         /\ \A k \in 1 .. Len(s) - 1 : RemoveAt(s, i)[k] = s[Was(i, k)]
<1> DEFINE f == SubSeq(s, 1, i - 1)
           g == SubSeq(s, i + 1, Len(s))
<1>0. i \in Nat /\ Len(s) \in Nat /\ 1 <= i /\ i <= Len(s)
  OBVIOUS
<1>1. f \in Seq(S) /\ Len(f) = i - 1 /\ \A k \in 1 .. i - 1 : f[k] = s[k]
  BY <1>0, SubSeqProperties
<1>2. g \in Seq(S) /\ Len(g) = Len(s) - i /\ \A k \in 1 .. Len(s) - i : g[k] = s[k + i]
  BY <1>0, SubSeqProperties
<1>3. RemoveAt(s, i) = f \o g
  BY DEF RemoveAt
<1> HIDE DEF f, g
<1>4. f \o g \in Seq(S) /\ Len(f \o g) = Len(s) - 1
  <2>1. f \o g \in Seq(S) /\ Len(f \o g) = Len(f) + Len(g)
    BY <1>1, <1>2, ConcatProperties
  <2> QED BY <1>0, <1>1, <1>2, <2>1
<1>5. ASSUME NEW k \in 1 .. Len(s) - 1 PROVE (f \o g)[k] = s[Was(i, k)]
  <2>1. CASE k < i
    BY <1>0, <1>1, <1>2, <2>1 DEF Was
  <2>2. CASE ~(k < i)
    <3>1. (f \o g)[k] = g[k - (i - 1)] /\ k - (i - 1) \in 1 .. Len(s) - i
      BY <1>0, <1>1, <1>2, <2>2
    <3>2. g[k - (i - 1)] = s[k + 1]
      BY <1>0, <1>2, <2>2, <3>1
    <3> QED BY <2>2, <3>1, <3>2 DEF Was
  <2> QED BY <2>1, <2>2
<1> QED BY <1>3, <1>4, <1>5

LEMMA WasPlaces ==
  ASSUME NEW n \in Nat, NEW i \in 1 .. n
  PROVE  /\ \A k \in 1 .. n - 1 : Was(i, k) \in 1 .. n /\ Was(i, k) # i
         /\ \A k, m \in 1 .. n - 1 : Was(i, k) = Was(i, m) => k = m
         /\ \A m \in 1 .. n : m # i => \E k \in 1 .. n - 1 : Was(i, k) = m
<1>1. \A k \in 1 .. n - 1 : Was(i, k) \in 1 .. n /\ Was(i, k) # i
  BY DEF Was
<1>2. \A k, m \in 1 .. n - 1 : Was(i, k) = Was(i, m) => k = m
  BY DEF Was
<1>3. ASSUME NEW m \in 1 .. n, m # i PROVE \E k \in 1 .. n - 1 : Was(i, k) = m
  <2>1. CASE m < i
    <3>1. m \in 1 .. n - 1 /\ Was(i, m) = m
      BY <2>1 DEF Was
    <3> QED BY <3>1
  <2>2. CASE m > i
    <3>1. m - 1 \in 1 .. n - 1 /\ Was(i, m - 1) = m
      BY <2>2 DEF Was
    <3> QED BY <3>1
  <2> QED BY <1>3, <2>1, <2>2
<1> QED BY <1>1, <1>2, <1>3

\* What is left of a sequence, as a set.
LEMMA RemoveAtElements ==
  ASSUME NEW S, NEW s \in Seq(S), NEW i \in 1 .. Len(s)
  PROVE  ToSet(RemoveAt(s, i)) = {s[m] : m \in {m \in DOMAIN s : m # i}}
<1>1. Len(s) \in Nat /\ DOMAIN s = 1 .. Len(s)
  OBVIOUS
<1>2. /\ DOMAIN RemoveAt(s, i) = 1 .. Len(s) - 1
      /\ \A k \in 1 .. Len(s) - 1 : RemoveAt(s, i)[k] = s[Was(i, k)]
  BY <1>1, RemoveAtPlaces
<1>3. \A k \in 1 .. Len(s) - 1 : Was(i, k) \in 1 .. Len(s) /\ Was(i, k) # i
  BY <1>1, WasPlaces
<1>4. \A m \in 1 .. Len(s) : m # i => \E k \in 1 .. Len(s) - 1 : Was(i, k) = m
  BY <1>1, WasPlaces
<1>5. ASSUME NEW x \in ToSet(RemoveAt(s, i)) PROVE \E m \in DOMAIN s : m # i /\ x = s[m]
  BY <1>1, <1>2, <1>3 DEF ToSet
<1>6. ASSUME NEW m \in DOMAIN s, m # i PROVE s[m] \in ToSet(RemoveAt(s, i))
  <2>1. PICK k \in 1 .. Len(s) - 1 : Was(i, k) = m
    BY <1>1, <1>4, <1>6
  <2> QED BY <1>2, <2>1 DEF ToSet
<1> QED BY <1>5, <1>6

LEMMA SeqElements ==
  ASSUME NEW S, NEW s \in Seq(S)
  PROVE  /\ ToSet(s) \subseteq S
         /\ DOMAIN s = 1 .. Len(s) /\ Len(s) \in Nat
         /\ s = <<>> <=> ToSet(s) = {}
         /\ \A i \in DOMAIN s : s[i] \in S /\ s[i] \in ToSet(s)
<1>1. DOMAIN s = 1 .. Len(s) /\ Len(s) \in Nat /\ \A i \in DOMAIN s : s[i] \in S
  OBVIOUS
<1>2. s = <<>> <=> DOMAIN s = {}
  BY <1>1
<1> QED BY <1>1, <1>2 DEF ToSet

LEMMA AppendElements ==
  ASSUME NEW S, NEW s \in Seq(S), NEW x \in S
  PROVE  /\ Append(s, x) \in Seq(S)
         /\ Len(Append(s, x)) = Len(s) + 1
         /\ \A i \in 1 .. Len(s) : Append(s, x)[i] = s[i]
         /\ Append(s, x)[Len(s) + 1] = x
         /\ ToSet(Append(s, x)) = ToSet(s) \cup {x}
<1>1. /\ Append(s, x) \in Seq(S)
      /\ Len(Append(s, x)) = Len(s) + 1 /\ Len(s) \in Nat
      /\ \A i \in 1 .. Len(s) : Append(s, x)[i] = s[i]
      /\ Append(s, x)[Len(s) + 1] = x
      /\ DOMAIN Append(s, x) = 1 .. Len(s) + 1 /\ DOMAIN s = 1 .. Len(s)
  OBVIOUS
<1>2. ASSUME NEW y \in ToSet(Append(s, x)) PROVE y \in ToSet(s) \cup {x}
  <2>1. PICK i \in 1 .. Len(s) + 1 : y = Append(s, x)[i]
    BY <1>1, <1>2 DEF ToSet
  <2>2. CASE i = Len(s) + 1
    BY <1>1, <2>1, <2>2
  <2>3. CASE i # Len(s) + 1
    <3>1. i \in 1 .. Len(s)
      BY <1>1, <2>3
    <3> QED BY <1>1, <2>1, <3>1 DEF ToSet
  <2> QED BY <2>2, <2>3
<1>3. ASSUME NEW y \in ToSet(s) PROVE y \in ToSet(Append(s, x))
  <2>1. PICK i \in 1 .. Len(s) : y = s[i]
    BY <1>1, <1>3 DEF ToSet
  <2>2. i \in DOMAIN Append(s, x) /\ Append(s, x)[i] = y
    BY <1>1, <2>1
  <2> QED BY <2>2 DEF ToSet
<1>4. x \in ToSet(Append(s, x))
  <2>1. Len(s) + 1 \in DOMAIN Append(s, x)
    BY <1>1
  <2> QED BY <1>1, <2>1 DEF ToSet
<1> QED BY <1>1, <1>2, <1>3, <1>4

-----------------------------------------------------------------------------
(* Lists of registrations                                                  *)

\* No two registrations of a list are of one module.
Distinct(s) == \A i, k \in DOMAIN s : s[i].name = s[k].name => i = k

\* Erasing the registrations of n from the list s gives the list r.
Erased(r, s, n) ==
  /\ r \in Seq(Infos) /\ Distinct(r)
  /\ ToSet(r) = {i \in ToSet(s) : i.name # n}

\* In a list where no module is twice, the first registration is the only one.
LEMMA DelFirstErases ==
  ASSUME NEW s \in Seq(Infos), Distinct(s), NEW n
  PROVE  Erased(DelFirst(s, n), s, n)
<1> DEFINE I == {i \in 1 .. Len(s) : s[i].name = n}
<1>1. DOMAIN s = 1 .. Len(s) /\ Len(s) \in Nat
  OBVIOUS
<1>2. CASE I = {}
  <2>1. DelFirst(s, n) = s
    BY <1>1, <1>2 DEF DelFirst, RemoveFirstMatch
  <2>2. \A i \in ToSet(s) : i.name # n
    BY <1>1, <1>2 DEF ToSet
  <2> QED BY <2>1, <2>2 DEF Erased
<1>3. CASE I # {}
  <2>1. PICK i \in 1 .. Len(s) : s[i].name = n
    BY <1>3
  <2>2. I = {i}
    BY <1>1, <2>1 DEF Distinct
  <2>3. Min(I) = i
    <3>1. \E x \in I : \A y \in I : x =< y
      BY <1>1, <2>1, <2>2
    <3>2. Min(I) \in I
      BY <3>1 DEF Min
    <3> QED BY <2>2, <3>2
  <2>4. DelFirst(s, n) = RemoveAt(s, Min(I))
    BY <1>3 DEF DelFirst, RemoveFirstMatch, SelectInSeq
  <2> DEFINE r == RemoveAt(s, i)
  <2>5. DelFirst(s, n) = r
    BY <2>3, <2>4
  <2>6. /\ r \in Seq(Infos) /\ Len(r) = Len(s) - 1
        /\ \A k \in 1 .. Len(s) - 1 : r[k] = s[Was(i, k)]
    BY <2>1, RemoveAtPlaces
  <2>7. ToSet(r) = {s[m] : m \in {m \in DOMAIN s : m # i}}
    BY <2>1, RemoveAtElements
  <2> HIDE DEF r
  <2>8. Distinct(r)
    <3>1. \A k \in 1 .. Len(s) - 1 : Was(i, k) \in 1 .. Len(s)
      BY <1>1, <2>1, WasPlaces
    <3>2. \A k, m \in 1 .. Len(s) - 1 : Was(i, k) = Was(i, m) => k = m
      BY <1>1, <2>1, WasPlaces
    <3>3. DOMAIN r = 1 .. Len(s) - 1
      BY <1>1, <2>6
    <3>4. ASSUME NEW k \in DOMAIN r, NEW m \in DOMAIN r, r[k].name = r[m].name
          PROVE  k = m
      <4>1. r[k] = s[Was(i, k)] /\ r[m] = s[Was(i, m)]
        BY <2>6, <3>3
      <4>2. Was(i, k) = Was(i, m)
        BY <1>1, <3>1, <3>3, <3>4, <4>1 DEF Distinct
      <4> QED BY <3>2, <3>3, <4>2
    <3> QED BY <3>4 DEF Distinct
  <2>9. ToSet(r) = {x \in ToSet(s) : x.name # n}
    BY <1>1, <2>1, <2>7 DEF Distinct, ToSet
  <2> QED BY <2>5, <2>6, <2>8, <2>9 DEF Erased
<1> QED BY <1>2, <1>3

Once(s) == \A i, k \in DOMAIN s : s[i] = s[k] => i = k

\* DelMapData erases the key from the index vector.
LEMMA RemoveFirstErases ==
  ASSUME NEW S, NEW s \in Seq(S), Once(s), NEW n \in ToSet(s)
  PROVE  /\ RemoveFirst(s, n) \in Seq(S) /\ Once(RemoveFirst(s, n))
         /\ ToSet(RemoveFirst(s, n)) = ToSet(s) \ {n}
<1> DEFINE I == {i \in 1 .. Len(s) : s[i] = n}
<1>1. DOMAIN s = 1 .. Len(s) /\ Len(s) \in Nat
  OBVIOUS
<1>2. PICK i \in 1 .. Len(s) : s[i] = n
  BY <1>1 DEF ToSet
<1>3. I = {i}
  BY <1>1, <1>2 DEF Once
<1>4. Min(I) = i
  <2>1. \E x \in I : \A y \in I : x =< y
    BY <1>1, <1>2, <1>3
  <2>2. Min(I) \in I
    BY <2>1 DEF Min
  <2> QED BY <1>3, <2>2
<1>5. RemoveFirst(s, n) = RemoveAt(s, Min(I))
  BY <1>2 DEF RemoveFirst, SelectInSeq
<1> DEFINE r == RemoveAt(s, i)
<1>6. RemoveFirst(s, n) = r
  BY <1>4, <1>5
<1>7. /\ r \in Seq(S) /\ Len(r) = Len(s) - 1
      /\ \A k \in 1 .. Len(s) - 1 : r[k] = s[Was(i, k)]
  BY <1>2, RemoveAtPlaces
<1>8. ToSet(r) = {s[m] : m \in {m \in DOMAIN s : m # i}}
  BY <1>2, RemoveAtElements
<1> HIDE DEF r
<1>9. Once(r)
  <2>1. \A k \in 1 .. Len(s) - 1 : Was(i, k) \in 1 .. Len(s)
    BY <1>1, <1>2, WasPlaces
  <2>2. \A k, m \in 1 .. Len(s) - 1 : Was(i, k) = Was(i, m) => k = m
    BY <1>1, <1>2, WasPlaces
  <2>3. DOMAIN r = 1 .. Len(s) - 1
    BY <1>1, <1>7
  <2>4. ASSUME NEW k \in DOMAIN r, NEW m \in DOMAIN r, r[k] = r[m]
        PROVE  k = m
    <3>1. r[k] = s[Was(i, k)] /\ r[m] = s[Was(i, m)]
      BY <1>7, <2>3
    <3>2. Was(i, k) = Was(i, m)
      BY <1>1, <2>1, <2>3, <2>4, <3>1 DEF Once
    <3> QED BY <2>2, <2>3, <3>2
  <2> QED BY <2>4 DEF Once
<1>10. ToSet(r) = ToSet(s) \ {n}
  BY <1>1, <1>2, <1>8 DEF Once, ToSet
<1> QED BY <1>6, <1>7, <1>9, <1>10

-----------------------------------------------------------------------------
(* The inductive invariant                                                 *)

RowsDistinct == \A c \in Commands : Distinct(lists[c])

\* A registration is of a loaded module, for a command its plugin knows.
OfLoaded ==
  \A c \in Commands : \A i \in ToSet(lists[c]) :
    i.name \in ToSet(loaded) /\ c \in CommandsOf[fileOf[i.name]]

\* A module that registers itself is loaded, and not yet in the lists of the
\* commands it has to do.
Loading ==
  loading # NoName =>
    /\ loads > 0 /\ loading \in ToSet(loaded)
    /\ \A c \in todo : /\ c \in CommandsOf[fileOf[loading]]
                       /\ \A i \in ToSet(lists[c]) : i.name # loading

\* Between the two halves of an unload the module is in no list, and a list
\* it left empty is one its plugin is about to delete.
Closing ==
  upc = "close" =>
    /\ unloading \in ToSet(loaded)
    /\ \A c \in Commands : \A i \in ToSet(lists[c]) : i.name # unloading
    /\ \A c \in listed : lists[c] = <<>> => c \in CommandsOf[fileOf[unloading]]

Tables ==
  TypeOK /\ Once(loaded) /\ TablesAgree /\ RowsDistinct /\ OfLoaded /\ Loading /\ Closing

\* A thread the scan has passed, or any once it is over, has no message, and
\* gets none, or it is a stray.
Handshake ==
  /\ \A t \in Threads : busy[t] # NoName => t \notin passed
  /\ upc # "idle" => loading = NoName
  /\ upc \in {"scan", "take", "close"} => marked = Threads
  /\ upc \notin {"scan", "take"} => scanned = {}
  /\ upc = "take" => scanned = Threads
  /\ \A t \in Threads : t \in scanned \/ upc = "close" =>
       t \in strays \/ (t \notin passed /\ busy[t] = NoName)

\* No unload has come into the message of the thread.  This is still so for one
\* the present scan has passed.
Sound(t) == t \notin strays \/ t \in scanned

\* What a busy thread counted, found and ran is a prefix of its list.
Walk(t) ==
  /\ count[t] <= Len(lists[busy[t]]) /\ at[t] <= count[t] + 1
  /\ owed[t] = {lists[busy[t]][i] : i \in 1 .. count[t]}
  /\ Len(called[t]) = at[t] - 1
  /\ \A i \in 1 .. Len(called[t]) : called[t][i] = lists[busy[t]][i]

Walks ==
  \A t \in Threads : IF busy[t] = NoName THEN call[t] = NoInfo ELSE Sound(t) => Walk(t)

Calls ==
  \A t \in Threads : call[t] # NoInfo /\ Sound(t) =>
    call[t].name \in ToSet(loaded) /\ call[t] \in Registered

MInv == Tables /\ Handshake /\ Walks /\ Calls

LEMMA NameFacts ==
  /\ NoName \notin Names /\ NoName \notin Commands /\ NoInfo \notin Infos
  /\ \A f \in Files : NameOf[f] \in Names /\ CommandsOf[f] \subseteq Commands
  /\ \A i \in Infos : i.name \in Names /\ i.cmd \in Commands
  /\ MaxLoads \in Nat
BY FilesAssumption DEF Names, Infos, NoInfo

LEMMA ListFacts ==
  ASSUME Tables
  PROVE  \A c \in Commands : /\ lists[c] \in Seq(Infos) /\ ToSet(lists[c]) \subseteq Infos
                             /\ Distinct(lists[c])
                             /\ \A i \in ToSet(lists[c]) : i \in Registered /\ i.cmd = c
BY SeqElements DEF Tables, TypeOK, RowsDistinct, TablesAgree, Registered

LEMMA RegisteredFacts ==
  ASSUME Tables
  PROVE  \A i \in Registered : /\ i.cmd \in Commands /\ i \in ToSet(lists[i.cmd])
                               /\ i.name \in ToSet(loaded) /\ i \in Infos
BY ListFacts DEF Tables, OfLoaded, Registered

LEMMA MInit == Init => MInv
<1> SUFFICES ASSUME Init PROVE MInv
  OBVIOUS
<1>1. TypeOK
  <2>1. fileOf \in [Names -> Files]
    <3>1. \A n \in Names : \E f \in Files : NameOf[f] = n
      BY DEF Names
    <3> QED BY <3>1 DEF Init
  <2>2. <<>> \in Seq(Names) /\ <<>> \in Seq(Infos)
    OBVIOUS
  <2> QED BY <2>1, <2>2, NameFacts DEF Init, TypeOK
<1>2. \A s : s = <<>> => ToSet(s) = {} /\ DOMAIN s = {}
  BY DEF ToSet
<1>3. Registered = {}
  BY <1>2 DEF Init, Registered
<1>4. TablesAgree
  BY <1>2, <1>3 DEF Init, TablesAgree
<1>5. Once(loaded) /\ RowsDistinct /\ OfLoaded /\ Loading /\ Closing
  BY <1>2 DEF Init, Once, RowsDistinct, Distinct, OfLoaded, Loading, Closing
<1>6. Handshake /\ Walks /\ Calls
  BY DEF Init, Handshake, Walks, Calls
<1> QED BY <1>1, <1>4, <1>5, <1>6 DEF MInv, Tables

-----------------------------------------------------------------------------
(* Steps that leave the tables alone                                       *)

LEMMA TablesKept ==
  ASSUME Tables, UNCHANGED <<tables, loader>>, TypeOK',
         upc = "close" <=> upc' = "close", upc = "close" => unloading' = unloading
  PROVE  Tables'
<1>1. /\ loaded' = loaded /\ fileOf' = fileOf /\ lists' = lists /\ listed' = listed
      /\ modules' = modules /\ loading' = loading /\ todo' = todo /\ loads' = loads
  BY DEF tables, loader
<1>2. Once(loaded)' /\ RowsDistinct' /\ OfLoaded' /\ Loading'
  BY <1>1 DEF Tables, Once, RowsDistinct, OfLoaded, Loading
<1>3. TablesAgree' /\ Closing'
  BY <1>1 DEF Tables, TablesAgree, Registered, Closing
<1> QED BY <1>2, <1>3 DEF Tables

\* A step of UnloadModule, or of a thread outside DoMessage.
LEMMA OutsideKept ==
  ASSUME MInv, UNCHANGED <<tables, loader, walks>>, TypeOK', Handshake',
         upc = "close" <=> upc' = "close", upc = "close" => unloading' = unloading,
         \A t \in Threads : busy[t] # NoName /\ Sound(t)' => Sound(t)
  PROVE  MInv'
<1>1. Tables'
  BY TablesKept DEF MInv
<1>2. lists' = lists /\ Registered' = Registered /\ loaded' = loaded /\ walks' = walks
  BY DEF tables, Registered
<1>3. \A t \in Threads : busy'[t] = busy[t] /\ call'[t] = call[t] /\ (Walk(t) => Walk(t)')
  BY <1>2 DEF walks, Walk
<1>4. Walks'
  BY <1>3 DEF MInv, Walks
<1>5. Calls'
  <2> SUFFICES ASSUME NEW t \in Threads, call'[t] # NoInfo, Sound(t)'
               PROVE  call'[t].name \in ToSet(loaded') /\ call'[t] \in Registered'
    BY DEF Calls
  <2>1. call[t] # NoInfo /\ busy[t] # NoName
    BY <1>3 DEF MInv, Walks
  <2>2. Sound(t)
    BY <2>1
  <2> QED BY <1>2, <1>3, <2>1, <2>2 DEF MInv, Calls
<1> QED BY <1>1, <1>4, <1>5 DEF MInv

LEMMA StartUnloadKeeps == ASSUME MInv, NEW n \in Names, StartUnload(n) PROVE MInv'
<1>1. /\ loading = NoName /\ upc = "idle" /\ upc' = "mark" /\ unloading' = n
      /\ UNCHANGED <<marked, scanned, passed, strays>>
      /\ UNCHANGED <<tables, loader, walks>>
  BY DEF StartUnload
<1>2. TypeOK'
  BY <1>1 DEF MInv, Tables, TypeOK, tables, loader, walks
<1>3. Handshake'
  BY <1>1 DEF MInv, Handshake, loader, walks
<1> QED BY <1>1, <1>2, <1>3, OutsideKept DEF Sound

LEMMA MarkThreadKeeps == ASSUME MInv, NEW t \in Threads, MarkThread(t) PROVE MInv'
<1>1. /\ upc = "mark" /\ marked' = marked \cup {t}
      /\ upc' = IF marked' = Threads THEN "scan" ELSE "mark"
      /\ UNCHANGED <<unloading, scanned, passed, strays>>
      /\ UNCHANGED <<tables, loader, walks>>
  BY DEF MarkThread
<1>2. TypeOK'
  BY <1>1 DEF MInv, Tables, TypeOK, tables, loader, walks
<1>3. Handshake'
  BY <1>1 DEF MInv, Handshake, loader, walks
<1> QED BY <1>1, <1>2, <1>3, OutsideKept DEF Sound

LEMMA ScanThreadKeeps == ASSUME MInv, NEW t \in Threads, ScanThread(t) PROVE MInv'
<1>0. TypeOK /\ Handshake
  BY DEF MInv, Tables
<1>1. /\ upc = "scan" /\ t \notin scanned
      /\ upc' = IF scanned' = Threads THEN "take" ELSE "scan"
      /\ UNCHANGED <<unloading, marked, passed>>
      /\ UNCHANGED <<tables, loader, walks>>
  BY DEF ScanThread
<1>2. CASE busy[t] # NoName
  <2>1. scanned' = {} /\ strays' = strays \ scanned
    BY <1>2 DEF ScanThread
  <2>2. TypeOK'
    BY <1>0, <1>1, <2>1 DEF TypeOK, tables, loader, walks
  <2>3. Handshake'
    BY <1>0, <1>1, <2>1 DEF Handshake, loader, walks
  <2>4. \A u \in Threads : Sound(u)' => Sound(u)
    BY <2>1 DEF Sound
  <2> QED BY <1>1, <2>2, <2>3, <2>4, OutsideKept
<1>3. CASE busy[t] = NoName
  <2>1. scanned' = scanned \cup {t} /\ strays' = strays \cup ({t} \cap passed)
    BY <1>3 DEF ScanThread
  <2>2. TypeOK'
    BY <1>0, <1>1, <2>1 DEF TypeOK, tables, loader, walks
  <2>3. Handshake'
    BY <1>0, <1>1, <1>3, <2>1 DEF Handshake, TypeOK, loader, walks
  <2>4. \A u \in Threads : busy[u] # NoName /\ Sound(u)' => Sound(u)
    BY <1>3, <2>1 DEF Sound
  <2> QED BY <1>1, <2>2, <2>3, <2>4, OutsideKept
<1> QED BY <1>2, <1>3

LEMMA ResumeThreadKeeps == ASSUME MInv, NEW t \in Threads, ResumeThread(t) PROVE MInv'
<1>1. /\ upc = "resume" /\ marked' = marked \ {t}
      /\ \/ upc' = "idle" /\ unloading' = NoName
         \/ upc' = "resume" /\ unloading' = unloading
      /\ UNCHANGED <<scanned, passed, strays>>
      /\ UNCHANGED <<tables, loader, walks>>
  BY DEF ResumeThread
<1>2. TypeOK'
  BY <1>1 DEF MInv, Tables, TypeOK, tables, loader, walks
<1>3. Handshake'
  BY <1>1 DEF MInv, Handshake, loader, walks
<1> QED BY <1>1, <1>2, <1>3, OutsideKept DEF Sound

LEMMA PassGateKeeps == ASSUME MInv, NEW t \in Threads, PassGate(t) PROVE MInv'
<1>1. /\ busy[t] = NoName /\ t \notin marked /\ passed' = passed \cup {t}
      /\ UNCHANGED <<strays, unload>> /\ UNCHANGED <<tables, loader, walks>>
  BY DEF PassGate
<1>2. TypeOK'
  BY <1>1 DEF MInv, Tables, TypeOK, tables, loader, walks, unload
<1>3. Handshake'
  BY <1>1 DEF MInv, Handshake, loader, walks, unload
<1> QED BY <1>1, <1>2, <1>3, OutsideKept DEF Sound, unload

LEMMA IgnoreKeeps == ASSUME MInv, NEW t \in Threads, Ignore(t) PROVE MInv'
<1>1. /\ t \in passed /\ passed' = passed \ {t} /\ strays' = strays \ {t}
      /\ UNCHANGED unload /\ UNCHANGED <<tables, loader, walks>>
  BY DEF Ignore
<1>2. TypeOK'
  BY <1>1 DEF MInv, Tables, TypeOK, tables, loader, walks, unload
<1>3. busy[t] = NoName
  BY <1>1 DEF MInv, Handshake
<1>4. Handshake'
  BY <1>1, <1>3 DEF MInv, Handshake, loader, walks, unload
<1>5. \A u \in Threads : busy[u] # NoName /\ Sound(u)' => Sound(u)
  BY <1>1, <1>3 DEF Sound, unload
<1> QED BY <1>1, <1>2, <1>4, <1>5, OutsideKept DEF unload

-----------------------------------------------------------------------------
(* Steps of a load                                                         *)

LEMMA LoadKeeps ==
  ASSUME MInv, NEW f \in Files, LoadModule(f)
  PROVE  MInv'
<1>0. Tables /\ TypeOK /\ NameOf[f] \in Names /\ CommandsOf[f] \subseteq Commands
  BY NameFacts DEF MInv, Tables
<1>1. /\ UNCHANGED <<lists, listed, modules, unload, passed, strays, walks>> /\ loading = NoName /\ upc = "idle"
      /\ loads' = loads + 1 /\ loads' \in 0 .. MaxLoads /\ loads' > 0
  BY <1>0, NameFacts DEF LoadModule, TypeOK
<1>2. CASE NameOf[f] \in ToSet(loaded)
  <2>1. UNCHANGED <<loaded, fileOf, loading, todo>>
    BY <1>2 DEF LoadModule, AddModule
  <2>2. TypeOK'
    BY <1>0, <1>1, <2>1 DEF TypeOK, walks, unload
  <2>3. Loading' /\ Closing' /\ Once(loaded)' /\ RowsDistinct' /\ OfLoaded'
    BY <1>0, <1>1, <2>1 DEF Tables, Loading, Closing, Once, RowsDistinct, OfLoaded, unload
  <2>4. TablesAgree' /\ Handshake'
    BY <1>0, <1>1, <2>1 DEF MInv, TablesAgree, Tables, Registered, Handshake, walks, unload
  <2>5. Walks' /\ Calls'
    BY <1>1, <2>1 DEF MInv, Walks, Walk, Calls, Sound, Registered, walks, unload
  <2> QED BY <2>2, <2>3, <2>4, <2>5 DEF MInv, Tables
<1>3. CASE NameOf[f] \notin ToSet(loaded)
  <2> DEFINE n == NameOf[f]
  <2>1. /\ loaded' = Append(loaded, n) /\ fileOf' = [fileOf EXCEPT ![n] = f]
        /\ loading' = n /\ todo' = CommandsOf[f]
    BY <1>3 DEF LoadModule, AddModule
  <2>2. /\ loaded' \in Seq(Names) /\ ToSet(loaded') = ToSet(loaded) \cup {n}
        /\ Once(loaded')
    <3>1. loaded \in Seq(Names) /\ DOMAIN loaded = 1 .. Len(loaded) /\ Len(loaded) \in Nat
      BY <1>0 DEF TypeOK
    <3>2. /\ Append(loaded, n) \in Seq(Names)
          /\ Len(Append(loaded, n)) = Len(loaded) + 1
          /\ \A i \in 1 .. Len(loaded) : Append(loaded, n)[i] = loaded[i]
          /\ Append(loaded, n)[Len(loaded) + 1] = n
          /\ ToSet(Append(loaded, n)) = ToSet(loaded) \cup {n}
      BY <1>0, <3>1, AppendElements
    <3>3. \A i \in 1 .. Len(loaded) : loaded[i] # n
      BY <1>3, <3>1 DEF ToSet
    <3>4. DOMAIN loaded' = 1 .. Len(loaded) + 1
      BY <2>1, <3>2
    <3>5. ASSUME NEW i \in DOMAIN loaded', NEW k \in DOMAIN loaded', loaded'[i] = loaded'[k]
          PROVE  i = k
      <4>1. CASE i = Len(loaded) + 1 \/ k = Len(loaded) + 1
        BY <2>1, <3>1, <3>2, <3>3, <3>4, <3>5, <4>1
      <4>2. CASE i # Len(loaded) + 1 /\ k # Len(loaded) + 1
        <5>1. i \in DOMAIN loaded /\ k \in DOMAIN loaded
          BY <3>1, <3>4, <4>2
        <5>2. loaded[i] = loaded[k]
          BY <2>1, <3>1, <3>2, <3>5, <5>1
        <5> QED BY <1>0, <5>1, <5>2 DEF Tables, Once
      <4> QED BY <4>1, <4>2
    <3> QED BY <2>1, <3>2, <3>5 DEF Once
  <2>3. TypeOK'
    BY <1>0, <1>1, <2>1, <2>2 DEF TypeOK, walks, unload
  <2>4. \A c \in Commands : \A i \in ToSet(lists[c]) : i.name # n
    BY <1>0, <1>3 DEF Tables, OfLoaded
  <2>5. OfLoaded'
    BY <1>0, <1>1, <2>1, <2>2, <2>4, ListFacts, NameFacts DEF Tables, OfLoaded, TypeOK
  <2>6. Loading'
    BY <1>0, <1>1, <2>1, <2>2, <2>4 DEF Loading, TypeOK
  <2>7. TablesAgree' /\ RowsDistinct' /\ Closing'
    BY <1>0, <1>1 DEF Tables, TablesAgree, Registered, RowsDistinct, Closing, unload
  <2>8. Walks' /\ Calls'
    BY <1>1, <2>2 DEF MInv, Walks, Walk, Calls, Sound, Registered, walks, unload
  <2>9. Handshake'
    BY <1>1 DEF MInv, Handshake, walks, unload
  <2> QED BY <2>2, <2>3, <2>5, <2>6, <2>7, <2>8, <2>9 DEF MInv, Tables
<1> QED BY <1>2, <1>3

\* While nothing of what a busy thread counted moves, its walk is as it was.
LEMMA WalkKept ==
  ASSUME MInv, UNCHANGED <<unload, strays, walks>>,
         \A c \in Commands : /\ Len(lists'[c]) \in Nat /\ Len(lists[c]) <= Len(lists'[c])
                            /\ \A i \in 1 .. Len(lists[c]) : lists'[c][i] = lists[c][i]
  PROVE  Walks'
<1> SUFFICES ASSUME NEW t \in Threads, busy[t] # NoName, Sound(t)
             PROVE  Walk(t)'
  BY DEF MInv, Walks, Sound, walks, unload
<1>1. Walk(t) /\ busy[t] \in Commands /\ TypeOK
  BY DEF MInv, Walks, Tables, TypeOK
<1>2. /\ Len(lists[busy[t]]) \in Nat /\ count[t] \in Nat /\ at[t] \in Nat
      /\ Len(called[t]) \in Nat
  <2>1. lists[busy[t]] \in Seq(Infos) /\ called[t] \in Seq(Infos)
    BY <1>1 DEF TypeOK
  <2> QED BY <1>1, <2>1 DEF TypeOK
<1>3. /\ count[t] <= Len(lists'[busy[t]])
      /\ \A i \in 1 .. count[t] : lists'[busy[t]][i] = lists[busy[t]][i]
  <2>1. /\ Len(lists'[busy[t]]) \in Nat /\ Len(lists[busy[t]]) <= Len(lists'[busy[t]])
        /\ \A i \in 1 .. Len(lists[busy[t]]) : lists'[busy[t]][i] = lists[busy[t]][i]
    BY <1>1
  <2>2. count[t] <= Len(lists[busy[t]])
    BY <1>1 DEF Walk
  <2> QED BY <1>2, <2>1, <2>2
<1>4. owed[t] = {lists'[busy[t]][i] : i \in 1 .. count[t]}
  BY <1>1, <1>3 DEF Walk
<1>5. \A i \in 1 .. Len(called[t]) : i \in 1 .. count[t]
  BY <1>1, <1>2 DEF Walk
<1>6. \A i \in 1 .. Len(called[t]) : called[t][i] = lists'[busy[t]][i]
  BY <1>1, <1>3, <1>5 DEF Walk
<1>7. at[t] <= count[t] + 1 /\ Len(called[t]) = at[t] - 1
  BY <1>1 DEF Walk
<1>8. busy' = busy /\ count' = count /\ at' = at /\ owed' = owed /\ called' = called
  BY DEF walks
<1> QED BY <1>3, <1>4, <1>6, <1>7, <1>8 DEF Walk

LEMMA RegisterKeeps == ASSUME MInv, Register PROVE MInv'
<1>0. Tables /\ TypeOK
  BY DEF MInv, Tables
<1>1. /\ loading # NoName /\ loading \in Names /\ loads \in 1 .. MaxLoads
      /\ loading \in ToSet(loaded)
  BY <1>0, NameFacts DEF Register, TypeOK, Tables, Loading
<1>2. PICK c \in todo : AddClientCommand(c) /\ todo' = todo \ {c}
  BY DEF Register
<1> DEFINE info == [cmd |-> c, name |-> loading, load |-> loads]
<1>3. c \in Commands /\ info \in Infos /\ info.name = loading /\ info.cmd = c
  BY <1>0, <1>1 DEF TypeOK, Infos
<1>4. /\ lists' = [lists EXCEPT ![c] = Append(@, info)]
      /\ listed' = listed \cup {c}
      /\ modules' = [modules EXCEPT ![loading] = Append(@, info)]
      /\ UNCHANGED <<loaded, fileOf, loading, loads, unload, passed, strays, walks>>
  BY <1>2 DEF AddClientCommand, AddTo, Register
<1> HIDE DEF info
<1>5. /\ lists[c] \in Seq(Infos) /\ Distinct(lists[c])
      /\ DOMAIN lists[c] = 1 .. Len(lists[c]) /\ Len(lists[c]) \in Nat
      /\ \A i \in DOMAIN lists[c] : lists[c][i] \in ToSet(lists[c])
  BY <1>0, <1>3, ListFacts, SeqElements
<1>6. /\ lists'[c] \in Seq(Infos) /\ Len(lists'[c]) = Len(lists[c]) + 1
      /\ \A i \in 1 .. Len(lists[c]) : lists'[c][i] = lists[c][i]
      /\ lists'[c][Len(lists[c]) + 1] = info
      /\ ToSet(lists'[c]) = ToSet(lists[c]) \cup {info}
      /\ \A d \in Commands : d # c => lists'[d] = lists[d]
  <2>1. lists'[c] = Append(lists[c], info) /\ \A d \in Commands : d # c => lists'[d] = lists[d]
    BY <1>0, <1>3, <1>4 DEF TypeOK
  <2> QED BY <1>3, <1>5, <2>1, AppendElements
<1>7. /\ modules'[loading] \in Seq(Infos)
      /\ ToSet(modules'[loading]) = ToSet(modules[loading]) \cup {info}
      /\ \A n \in Names : n # loading => modules'[n] = modules[n]
  <2>1. /\ modules'[loading] = Append(modules[loading], info)
        /\ modules[loading] \in Seq(Infos)
        /\ \A n \in Names : n # loading => modules'[n] = modules[n]
    BY <1>0, <1>1, <1>4 DEF TypeOK
  <2> QED BY <1>3, <2>1, AppendElements
<1>8. TypeOK'
  BY <1>0, <1>2, <1>3, <1>4, <1>6, <1>7 DEF TypeOK, walks, unload
<1>9. Once(loaded)'
  BY <1>0, <1>4 DEF Tables, Once
<1>10. \A i \in ToSet(lists[c]) : i.name # loading
  BY <1>0, <1>1, <1>2 DEF Tables, Loading
<1>11. Registered' = Registered \cup {info}
  <2>1. \A d \in Commands : ToSet(lists'[d]) = IF d = c THEN ToSet(lists[d]) \cup {info}
                                              ELSE ToSet(lists[d])
    BY <1>6
  <2> QED BY <1>3, <2>1 DEF Registered
<1>12. TablesAgree'
  <2>1. \A n \in Names : ToSet(modules'[n]) = {i \in Registered' : i.name = n}
    BY <1>0, <1>3, <1>7, <1>11 DEF Tables, TablesAgree
  <2>2. \A d \in Commands : \A i \in ToSet(lists'[d]) : i.cmd = d
    BY <1>0, <1>3, <1>6 DEF Tables, TablesAgree
  <2>3. /\ \A d \in Commands : lists'[d] # <<>> => d \in listed'
        /\ upc' # "close" => \A d \in listed' : lists'[d] # <<>>
    <3>1. lists'[c] # <<>>
      BY <1>5, <1>6
    <3> QED BY <1>0, <1>4, <1>6, <3>1 DEF Tables, TablesAgree, TypeOK, unload
  <2> QED BY <2>1, <2>2, <2>3 DEF TablesAgree
<1>13. RowsDistinct'
  <2>1. Distinct(lists'[c])
    <3>1. DOMAIN lists'[c] = 1 .. Len(lists[c]) + 1
      BY <1>6
    <3>2. \A i \in 1 .. Len(lists[c]) : lists[c][i].name # loading
      BY <1>5, <1>10
    <3>3. ASSUME NEW i \in DOMAIN lists'[c], NEW k \in DOMAIN lists'[c],
                 lists'[c][i].name = lists'[c][k].name
          PROVE  i = k
      <4>1. CASE i = Len(lists[c]) + 1 \/ k = Len(lists[c]) + 1
        <5>1. \A n \in 1 .. Len(lists[c]) : lists'[c][n].name # loading
          BY <1>6, <3>2
        <5>2. lists'[c][Len(lists[c]) + 1].name = loading
          BY <1>3, <1>6
        <5>3. lists'[c][i].name = loading /\ lists'[c][k].name = loading
          BY <3>3, <4>1, <5>2
        <5>4. i \notin 1 .. Len(lists[c]) /\ k \notin 1 .. Len(lists[c])
          BY <5>1, <5>3
        <5> QED BY <1>5, <3>1, <5>4
      <4>2. CASE i # Len(lists[c]) + 1 /\ k # Len(lists[c]) + 1
        <5>1. i \in DOMAIN lists[c] /\ k \in DOMAIN lists[c]
          BY <1>5, <3>1, <4>2
        <5>2. lists[c][i].name = lists[c][k].name
          BY <1>5, <1>6, <3>3, <5>1
        <5> QED BY <1>5, <5>1, <5>2 DEF Distinct
      <4> QED BY <4>1, <4>2
    <3> QED BY <3>3 DEF Distinct
  <2> QED BY <1>0, <1>6, <2>1 DEF Tables, RowsDistinct
<1>14. OfLoaded'
  <2>1. c \in CommandsOf[fileOf[loading]]
    BY <1>0, <1>1, <1>2 DEF Tables, Loading
  <2> QED BY <1>0, <1>1, <1>3, <1>4, <1>6, <2>1 DEF Tables, OfLoaded
<1>15. Loading'
  BY <1>0, <1>2, <1>4, <1>6 DEF Tables, Loading, TypeOK
<1>16. Walks'
  <2>1. \A d \in Commands : Len(lists[d]) \in Nat
    BY <1>0, ListFacts
  <2>2. \A d \in Commands : /\ Len(lists'[d]) \in Nat /\ Len(lists[d]) <= Len(lists'[d])
                            /\ \A i \in 1 .. Len(lists[d]) : lists'[d][i] = lists[d][i]
    BY <1>5, <1>6, <2>1
  <2> QED BY <1>4, <2>2, WalkKept
<1>17. Calls'
  BY <1>4, <1>11 DEF MInv, Calls, Sound, walks, unload
<1>18. Handshake' /\ Closing'
  BY <1>1, <1>4 DEF MInv, Handshake, Closing, walks, unload
<1> QED BY <1>8, <1>9, <1>12, <1>13, <1>14, <1>15, <1>16, <1>17, <1>18 DEF MInv, Tables

LEMMA EndLoadKeeps == ASSUME MInv, EndLoad PROVE MInv'
<1>1. /\ UNCHANGED <<loaded, fileOf, lists, listed, modules, loads, passed, strays>>
      /\ UNCHANGED <<unload, walks>> /\ loading' = NoName /\ todo' = {}
  BY DEF EndLoad, tables
<1>2. TypeOK' /\ Loading'
  BY <1>1 DEF MInv, Tables, TypeOK, Loading, walks, unload
<1>3. Handshake' /\ Closing'
  BY <1>1 DEF MInv, Tables, Handshake, Closing, walks, unload
<1>4. TablesAgree' /\ RowsDistinct' /\ OfLoaded' /\ Once(loaded)'
  BY <1>1 DEF MInv, Tables, TablesAgree, Registered, RowsDistinct, OfLoaded, Once, unload
<1>5. Walks' /\ Calls'
  BY <1>1 DEF MInv, Walks, Walk, Calls, Sound, Registered, walks, unload
<1> QED BY <1>2, <1>3, <1>4, <1>5 DEF MInv, Tables
-----------------------------------------------------------------------------
(* The two halves of an unload                                             *)

\* Every registration of the module is taken back, and only those.
LEMMA TakeBackErases ==
  ASSUME Tables, NEW n \in Names
  PROVE  /\ \A c \in Commands : Erased(TakeBack(n)[c], lists[c], n)
         /\ TakeBack(n) \in [Commands -> Seq(Infos)]
<1> DEFINE T == TakeBack(n)
<1>1. ASSUME NEW c \in Commands PROVE Erased(T[c], lists[c], n)
  <2>1. lists[c] \in Seq(Infos) /\ Distinct(lists[c])
    BY ListFacts
  <2>2. CASE \E i \in ToSet(modules[n]) : i.cmd = c /\ i \in ToSet(lists[c])
    <3>1. T[c] = DelFirst(lists[c], n)
      BY <2>2 DEF TakeBack
    <3> QED BY <2>1, <3>1, DelFirstErases
  <2>3. CASE ~\E i \in ToSet(modules[n]) : i.cmd = c /\ i \in ToSet(lists[c])
    <3>1. T[c] = lists[c]
      BY <2>3 DEF TakeBack
    <3>2. \A i \in ToSet(lists[c]) : i.name # n
      BY <2>3, ListFacts DEF Tables, TablesAgree
    <3> QED BY <2>1, <3>1, <3>2 DEF Erased
  <2> QED BY <2>2, <2>3
<1>2. T \in [Commands -> Seq(Infos)]
  <2>1. T = [c \in Commands |-> T[c]]
    BY DEF TakeBack
  <2>2. \A c \in Commands : T[c] \in Seq(Infos)
    BY <1>1 DEF Erased
  <2> QED BY <2>1, <2>2
<1> QED BY <1>1, <1>2

LEMMA UnloadModuleCommandKeeps == ASSUME MInv, UnloadModuleCommand PROVE MInv'
<1> DEFINE n == unloading
<1>0. Tables /\ TypeOK /\ TablesAgree /\ Handshake /\ upc = "take" /\ n \in Names
  BY DEF MInv, Tables, TypeOK, UnloadModuleCommand
<1>1. /\ scanned' = {} /\ scanned = Threads
      /\ UNCHANGED <<loaded, fileOf, listed, unloading, marked, passed, strays>>
      /\ UNCHANGED <<loader, walks>>
  BY <1>0 DEF UnloadModuleCommand, Handshake
<1>2. CASE modules[n] = <<>>
  <2>1. upc' = "resume" /\ lists' = lists /\ modules' = modules
    BY <1>2 DEF UnloadModuleCommand
  <2>2. UNCHANGED tables
    BY <1>1, <2>1 DEF tables
  <2>3. TypeOK'
    BY <1>0, <1>1, <2>1 DEF TypeOK, loader, walks
  <2>4. Handshake'
    BY <1>0, <1>1, <2>1 DEF Handshake, loader, walks
  <2>5. \A t \in Threads : Sound(t)
    BY <1>1 DEF Sound
  <2> QED BY <1>0, <1>1, <2>1, <2>2, <2>3, <2>4, <2>5, OutsideKept
<1>3. CASE modules[n] # <<>>
  <2>1. /\ upc' = "close"
        /\ lists' = TakeBack(n) /\ modules' = [modules EXCEPT ![n] = <<>>]
    BY <1>3 DEF UnloadModuleCommand
  <2>2. n \in ToSet(loaded)
    <3>1. modules[n] \in Seq(Infos)
      BY <1>0 DEF TypeOK
    <3>2. PICK i \in ToSet(modules[n]) : TRUE
      BY <1>3, <3>1, SeqElements
    <3> QED BY <1>0, <3>2, RegisteredFacts DEF TablesAgree
  <2>3. /\ \A c \in Commands : Erased(lists'[c], lists[c], n)
        /\ lists' \in [Commands -> Seq(Infos)]
    BY <1>0, <2>1, TakeBackErases
  <2>4. /\ \A c \in Commands : ToSet(lists'[c]) = {i \in ToSet(lists[c]) : i.name # n}
        /\ RowsDistinct'
    BY <2>3 DEF Erased, RowsDistinct
  <2>5. TypeOK'
    <3>1. modules' \in [Names -> Seq(Infos)]
      BY <1>0, <2>1 DEF TypeOK
    <3> QED BY <1>0, <1>1, <2>1, <2>3, <3>1 DEF TypeOK, loader, walks
  <2>6. Registered' = {i \in Registered : i.name # n}
    BY <2>4 DEF Registered
  <2>7. \A c \in Commands : lists[c] \in Seq(Infos) /\ lists'[c] \in Seq(Infos)
    BY <1>0, <2>3, ListFacts
  <2>8. TablesAgree'
    <3>1. \A m \in Names : ToSet(modules'[m]) = {i \in Registered' : i.name = m}
      <4>1. ToSet(<<>>) = {}
        BY DEF ToSet
      <4>2. modules'[n] = <<>> /\ \A m \in Names : m # n => modules'[m] = modules[m]
        BY <1>0, <2>1 DEF TypeOK
      <4> QED BY <1>0, <2>6, <4>1, <4>2 DEF TablesAgree
    <3>2. \A c \in Commands : \A i \in ToSet(lists'[c]) : i.cmd = c
      BY <1>0, <2>4 DEF TablesAgree
    <3>3. \A c \in Commands : lists'[c] # <<>> => c \in listed'
      <4> SUFFICES ASSUME NEW c \in Commands, lists'[c] # <<>> PROVE c \in listed'
        OBVIOUS
      <4>1. ToSet(lists'[c]) # {}
        BY <2>7, SeqElements
      <4>2. ToSet(lists[c]) # {}
        BY <2>4, <4>1
      <4>3. lists[c] # <<>>
        BY <2>7, <4>2, SeqElements
      <4> QED BY <1>0, <1>1, <4>3 DEF TablesAgree
    <3> QED BY <2>1, <3>1, <3>2, <3>3 DEF TablesAgree
  <2>9. OfLoaded'
    BY <1>0, <1>1, <2>4 DEF Tables, OfLoaded
  <2>10. Loading' /\ Once(loaded)'
    BY <1>0, <1>1 DEF Tables, Handshake, Loading, Once, loader
  <2>11. Closing'
    <3>1. ASSUME NEW c \in listed', lists'[c] = <<>>
          PROVE  c \in CommandsOf[fileOf[n]]
      <4>1. c \in Commands /\ lists[c] # <<>>
        BY <1>0, <1>1, <3>1 DEF TypeOK, TablesAgree
      <4>2. PICK i : i \in ToSet(lists[c])
        <5>1. lists[c] = <<>> <=> ToSet(lists[c]) = {}
          BY <2>7, <4>1, SeqElements
        <5> QED BY <4>1, <5>1
      <4>3. i.name = n
        <5>1. lists'[c] = <<>> <=> ToSet(lists'[c]) = {}
          BY <2>7, <4>1, SeqElements
        <5>2. ToSet(lists'[c]) = {}
          BY <3>1, <5>1
        <5> QED BY <2>4, <4>1, <4>2, <5>2
      <4> QED BY <1>0, <4>1, <4>2, <4>3 DEF Tables, OfLoaded
    <3> QED BY <1>1, <2>2, <2>4, <3>1 DEF Closing
  <2>12. Handshake'
    BY <1>0, <1>1, <2>1 DEF Handshake, loader, walks
  <2>13. \A t \in Threads : Sound(t)' => busy[t] = NoName /\ call[t] = NoInfo
    BY <1>0, <1>1, <2>1 DEF MInv, Handshake, Walks, Sound
  <2>14. Walks' /\ Calls'
    BY <1>1, <2>13 DEF MInv, Walks, Calls, walks
  <2> QED BY <2>4, <2>5, <2>8, <2>9, <2>10, <2>11, <2>12, <2>14 DEF MInv, Tables
<1> QED BY <1>2, <1>3

\* What the plugin deletes is no registration of another module: there is none
\* of its own left, and only lists go that it left empty.
LEMMA CloseModuleEffect ==
  ASSUME MInv, CloseModule
  PROVE  /\ lists' = lists
         /\ listed' = {c \in Commands : lists[c] # <<>>}
         /\ loaded' \in Seq(Names) /\ Once(loaded')
         /\ ToSet(loaded') = ToSet(loaded) \ {unloading}
<1> DEFINE n == unloading
<1>0. Tables /\ TypeOK /\ TablesAgree /\ upc = "close" /\ n \in ToSet(loaded)
  BY DEF MInv, Tables, Closing, CloseModule
<1>1. lists' = PluginDeletes(n) /\ listed' = StillListed(lists', n) /\ loaded' = RemoveFirst(loaded, n)
  BY <1>0 DEF CloseModule, UnLoadModule
<1>2. \A c \in Commands : DelFirst(lists[c], n) = lists[c]
  <2> SUFFICES ASSUME NEW c \in Commands PROVE DelFirst(lists[c], n) = lists[c]
    OBVIOUS
  <2>1. lists[c] \in Seq(Infos) /\ DOMAIN lists[c] = 1 .. Len(lists[c])
    BY <1>0, ListFacts, SeqElements
  <2>2. \A i \in 1 .. Len(lists[c]) : lists[c][i].name # n
    BY <1>0, <2>1 DEF Tables, Closing, ToSet
  <2> QED BY <2>1, <2>2 DEF DelFirst, RemoveFirstMatch
<1>3. lists' = lists
  <2>1. lists' = [c \in Commands |-> lists[c]]
    BY <1>1, <1>2 DEF PluginDeletes
  <2> QED BY <1>0, <2>1 DEF TypeOK
<1>4. listed' = {c \in Commands : lists[c] # <<>>}
  <2>1. listed' = {c \in listed : c \in CommandsOf[fileOf[n]] => lists[c] # <<>>}
    BY <1>1, <1>3 DEF StillListed
  <2>2. \A c \in listed : lists[c] = <<>> => c \in CommandsOf[fileOf[n]]
    BY <1>0 DEF Tables, Closing
  <2>3. listed \subseteq Commands /\ \A c \in Commands : lists[c] # <<>> => c \in listed
    BY <1>0 DEF TypeOK, TablesAgree
  <2> QED BY <2>1, <2>2, <2>3
<1>5. loaded' \in Seq(Names) /\ Once(loaded') /\ ToSet(loaded') = ToSet(loaded) \ {n}
  BY <1>0, <1>1, RemoveFirstErases DEF Tables, TypeOK
<1> QED BY <1>3, <1>4, <1>5

LEMMA CloseModuleKeeps == ASSUME MInv, CloseModule PROVE MInv'
<1> DEFINE n == unloading
<1>0. /\ Tables /\ TypeOK /\ Handshake /\ upc = "close"
      /\ \A c \in Commands : \A i \in ToSet(lists[c]) : i.name # n
  BY DEF MInv, Tables, Closing, CloseModule
<1>1. /\ lists' = lists /\ listed' = {c \in Commands : lists[c] # <<>>}
      /\ loaded' \in Seq(Names) /\ Once(loaded') /\ ToSet(loaded') = ToSet(loaded) \ {n}
      /\ upc' = "resume"
      /\ UNCHANGED <<modules, fileOf, unloading, marked, scanned, passed, strays>>
      /\ UNCHANGED <<loader, walks>>
  BY CloseModuleEffect DEF CloseModule
<1>2. TypeOK'
  BY <1>0, <1>1 DEF TypeOK, loader, walks
<1>3. TablesAgree' /\ RowsDistinct' /\ OfLoaded'
  BY <1>0, <1>1 DEF Tables, TablesAgree, Registered, RowsDistinct, OfLoaded
<1>4. Loading' /\ Closing'
  BY <1>0, <1>1 DEF Handshake, Loading, Closing, loader
<1>5. Handshake'
  BY <1>0, <1>1 DEF Handshake, loader, walks
<1>6. \A t \in Threads : Sound(t)' => busy[t] = NoName /\ call[t] = NoInfo
  BY <1>0, <1>1 DEF MInv, Handshake, Walks, Sound
<1>7. Walks' /\ Calls'
  BY <1>1, <1>6 DEF MInv, Walks, Calls, walks
<1> QED BY <1>1, <1>2, <1>3, <1>4, <1>5, <1>7 DEF MInv, Tables

-----------------------------------------------------------------------------
(* The steps of DoMessage                                                  *)

LEMMA StartKeeps ==
  ASSUME MInv, NEW t \in Threads, NEW c \in Commands, StartMessage(t, c)
  PROVE  MInv'
<1>0. Tables /\ TypeOK /\ busy[t] = NoName /\ t \in passed /\ c # NoName
  BY NameFacts DEF MInv, Tables, Handshake, StartMessage
<1>1. /\ busy'   = [busy EXCEPT ![t] = c]
      /\ count'  = [count EXCEPT ![t] = Len(lists[c])]
      /\ at'     = [at EXCEPT ![t] = 1]
      /\ owed'   = [owed EXCEPT ![t] = ToSet(lists[c])]
      /\ called' = [called EXCEPT ![t] = <<>>]
      /\ passed' = passed \ {t} /\ UNCHANGED <<call, strays>>
      /\ UNCHANGED <<tables, loader, unload>>
  BY DEF StartMessage
<1>2. /\ lists[c] \in Seq(Infos) /\ ToSet(lists[c]) \subseteq Infos
      /\ DOMAIN lists[c] = 1 .. Len(lists[c]) /\ Len(lists[c]) \in Nat
  BY <1>0, SeqElements DEF TypeOK
<1>3. TypeOK'
  BY <1>0, <1>1, <1>2 DEF TypeOK, tables, loader, unload
<1>4. Walk(t)'
  <2>1. /\ busy'[t] = c /\ count'[t] = Len(lists[c]) /\ at'[t] = 1
        /\ owed'[t] = ToSet(lists[c]) /\ called'[t] = <<>> /\ lists' = lists
    BY <1>0, <1>1 DEF TypeOK, tables
  <2>2. ToSet(lists[c]) = {lists[c][i] : i \in 1 .. Len(lists[c])}
    BY <1>2 DEF ToSet
  <2> QED BY <1>2, <2>1, <2>2 DEF Walk
<1>5. \A u \in Threads : u # t => /\ busy'[u] = busy[u] /\ call'[u] = call[u]
                                 /\ (Walk(u) => Walk(u)')
  BY <1>0, <1>1 DEF TypeOK, Walk, tables
<1>6. Walks'
  BY <1>0, <1>1, <1>4, <1>5 DEF MInv, Walks, Sound, TypeOK, unload
<1>7. Calls'
  BY <1>1 DEF MInv, Calls, Sound, Registered, tables, unload
<1>8. Handshake'
  BY <1>0, <1>1 DEF MInv, Handshake, TypeOK, loader, unload
<1>9. Tables'
  BY <1>0, <1>1, <1>3, TablesKept DEF unload
<1> QED BY <1>6, <1>7, <1>8, <1>9 DEF MInv

\* What GetClientCommandIndex returns while the list only grows.
LEMMA SoundIndexed ==
  ASSUME MInv, NEW t \in Threads, busy[t] # NoName, at[t] <= count[t], Walk(t)
  PROVE  /\ at[t] \in DOMAIN lists[busy[t]]
         /\ Indexed(t) = {lists[busy[t]][at[t]]}
<1> DEFINE l == lists[busy[t]]
<1>1. /\ l \in Seq(Infos) /\ DOMAIN l = 1 .. Len(l) /\ Len(l) \in Nat
      /\ count[t] \in Nat /\ at[t] \in Nat \ {0}
  BY SeqElements DEF MInv, Tables, TypeOK
<1>2. count[t] <= Len(l) /\ owed[t] = {l[i] : i \in 1 .. count[t]}
  BY DEF Walk
<1> HIDE DEF l
<1>3. at[t] <= Len(l) /\ at[t] \in DOMAIN l
  BY <1>1, <1>2
<1>4. owed[t] \subseteq ToSet(l)
  BY <1>1, <1>2 DEF ToSet
<1> QED BY <1>3, <1>4 DEF Indexed, l

LEMMA CallKeeps ==
  ASSUME MInv, NEW t \in Threads, CallModule(t)
  PROVE  MInv'
<1> DEFINE c == busy[t]
<1>0. Tables /\ TypeOK /\ c \in Commands /\ c # NoName /\ at[t] <= count[t]
  BY DEF MInv, Tables, CallModule, TypeOK
<1>1. /\ lists[c] \in Seq(Infos) /\ ToSet(lists[c]) \subseteq Infos
      /\ count[t] \in Nat /\ at[t] \in Nat \ {0}
      /\ called[t] \in Seq(Infos) /\ Len(called[t]) \in Nat
  BY <1>0, SeqElements DEF TypeOK
<1>2. PICK info \in Indexed(t) :
        IF info = NoInfo THEN UNCHANGED <<call, called>>
        ELSE /\ call'   = [call EXCEPT ![t] = info]
             /\ called' = [called EXCEPT ![t] = Append(@, info)]
  BY DEF CallModule
<1>3. /\ at' = [at EXCEPT ![t] = @ + 1]
      /\ UNCHANGED <<busy, count, owed, passed, strays>>
      /\ UNCHANGED <<tables, loader, unload>>
  BY DEF CallModule
<1>4. info = NoInfo \/ info \in Infos
  <2>1. ASSUME at[t] <= Len(lists[c]) PROVE lists[c][at[t]] \in Infos
    BY <1>1, <2>1
  <2>2. owed[t] \subseteq Infos
    BY <1>0 DEF TypeOK
  <2> QED BY <1>1, <1>2, <2>1, <2>2 DEF Indexed
<1>5. TypeOK'
  <2>1. at' \in [Threads -> Nat \ {0}]
    BY <1>0, <1>1, <1>3 DEF TypeOK
  <2>2. called' \in [Threads -> Seq(Infos)] /\ call' \in [Threads -> Infos \cup {NoInfo}]
    <3>1. CASE info = NoInfo
      BY <1>0, <1>2, <3>1 DEF TypeOK
    <3>2. CASE info # NoInfo
      <4>1. info \in Infos /\ Append(called[t], info) \in Seq(Infos)
        BY <1>1, <1>4, <3>2
      <4>2. /\ call' = [call EXCEPT ![t] = info]
            /\ called' = [called EXCEPT ![t] = Append(called[t], info)]
        BY <1>2, <3>2
      <4>3. call \in [Threads -> Infos \cup {NoInfo}] /\ called \in [Threads -> Seq(Infos)]
        BY <1>0 DEF TypeOK
      <4>4. call' \in [Threads -> Infos \cup {NoInfo}]
        BY <4>1, <4>2, <4>3
      <4>5. called' \in [Threads -> Seq(Infos)]
        BY <4>1, <4>2, <4>3
      <4> QED BY <4>4, <4>5
    <3> QED BY <3>1, <3>2
  <2> QED BY <1>0, <1>3, <2>1, <2>2 DEF TypeOK, tables, loader, unload
<1>6. \A u \in Threads : u # t =>
        /\ busy'[u] = busy[u] /\ call'[u] = call[u] /\ count'[u] = count[u]
        /\ at'[u] = at[u] /\ owed'[u] = owed[u] /\ called'[u] = called[u]
  BY <1>0, <1>2, <1>3 DEF TypeOK
<1>7. lists' = lists /\ Registered' = Registered /\ loaded' = loaded
  BY <1>3 DEF tables, Registered
<1>8. \A u \in Threads : Sound(u)' <=> Sound(u)
  BY <1>3 DEF Sound, unload
<1>9. \A u \in Threads : u # t => (Walk(u) => Walk(u)')
  BY <1>6, <1>7 DEF Walk
<1>10. ASSUME Sound(t)
       PROVE  /\ Walk(t)' /\ info.name \in ToSet(loaded) /\ info \in Registered
              /\ call'[t] = info
  <2>1. Walk(t)
    BY <1>0, <1>10 DEF MInv, Walks
  <2>2. at[t] \in DOMAIN lists[c] /\ info = lists[c][at[t]]
    BY <1>0, <1>2, <2>1, SoundIndexed
  <2>3. info \in ToSet(lists[c]) /\ info \in Infos /\ info # NoInfo
    BY <1>1, <2>2, SeqElements, NameFacts
  <2>4. info \in Registered /\ info.name \in ToSet(loaded)
    BY <1>0, <2>3, ListFacts, RegisteredFacts
  <2>5. /\ busy'[t] = c /\ count'[t] = count[t] /\ at'[t] = at[t] + 1
        /\ owed'[t] = owed[t] /\ called'[t] = Append(called[t], info)
        /\ call'[t] = info
    BY <1>0, <1>2, <1>3, <2>3 DEF TypeOK
  <2>6. /\ Len(Append(called[t], info)) = Len(called[t]) + 1
        /\ \A i \in 1 .. Len(called[t]) : Append(called[t], info)[i] = called[t][i]
        /\ Append(called[t], info)[Len(called[t]) + 1] = info
    BY <1>1, <2>3, AppendElements
  <2>7. /\ count[t] <= Len(lists[c]) /\ Len(called[t]) = at[t] - 1
        /\ owed[t] = {lists[c][i] : i \in 1 .. count[t]}
        /\ \A i \in 1 .. Len(called[t]) : called[t][i] = lists[c][i]
    BY <2>1 DEF Walk
  <2>8. \A i \in 1 .. Len(Append(called[t], info)) : Append(called[t], info)[i] = lists[c][i]
    <3> SUFFICES ASSUME NEW i \in 1 .. Len(called[t]) + 1
                 PROVE  Append(called[t], info)[i] = lists[c][i]
      BY <2>6
    <3>1. CASE i = Len(called[t]) + 1
      BY <1>1, <2>2, <2>6, <2>7, <3>1
    <3>2. CASE i # Len(called[t]) + 1
      <4>1. i \in 1 .. Len(called[t])
        BY <1>1, <3>2
      <4> QED BY <2>6, <2>7, <4>1
    <3> QED BY <3>1, <3>2
  <2>9. at[t] + 1 <= count[t] + 1 /\ Len(Append(called[t], info)) = (at[t] + 1) - 1
    BY <1>0, <1>1, <2>6, <2>7
  <2>10. Walk(t)'
    BY <1>7, <2>5, <2>7, <2>8, <2>9 DEF Walk
  <2> QED BY <2>4, <2>5, <2>10
<1>11. Walks'
  <2>1. ASSUME NEW u \in Threads
        PROVE  IF busy'[u] = NoName THEN call'[u] = NoInfo ELSE Sound(u)' => Walk(u)'
    <3>1. CASE u = t
      BY <1>0, <1>3, <1>8, <1>10, <3>1
    <3>2. CASE u # t
      BY <1>6, <1>8, <1>9, <3>2 DEF MInv, Walks
    <3> QED BY <3>1, <3>2
  <2> QED BY <2>1 DEF Walks
<1>12. Calls'
  BY <1>6, <1>7, <1>8, <1>10 DEF MInv, Calls
<1>13. Handshake'
  BY <1>3 DEF MInv, Handshake, loader, unload
<1>14. Tables'
  BY <1>0, <1>3, <1>5, TablesKept DEF unload
<1> QED BY <1>11, <1>12, <1>13, <1>14 DEF MInv

LEMMA EndMessageKeeps ==
  ASSUME MInv, NEW t \in Threads, EndMessage(t)
  PROVE  MInv'
<1>0. Tables /\ TypeOK /\ busy[t] # NoName
  BY DEF MInv, Tables, EndMessage
<1>1. /\ busy'   = [busy EXCEPT ![t] = NoName]
      /\ count'  = [count EXCEPT ![t] = 0]
      /\ at'     = [at EXCEPT ![t] = 1]
      /\ call'   = [call EXCEPT ![t] = NoInfo]
      /\ owed'   = [owed EXCEPT ![t] = {}]
      /\ called' = [called EXCEPT ![t] = <<>>]
      /\ strays' = strays \ {t} /\ passed' = passed
      /\ UNCHANGED <<tables, loader, unload>>
  BY DEF EndMessage
<1>2. TypeOK'
  <2>1. <<>> \in Seq(Infos) /\ {} \in SUBSET Infos /\ 0 \in Nat /\ 1 \in Nat \ {0}
    OBVIOUS
  <2> QED BY <1>0, <1>1, <2>1 DEF TypeOK, tables, loader, unload
<1>3. \A u \in Threads : u # t => /\ busy'[u] = busy[u] /\ call'[u] = call[u]
                                 /\ (Sound(u)' => Sound(u)) /\ (Walk(u) => Walk(u)')
  <2>1. \A u \in Threads : u # t =>
          /\ busy'[u] = busy[u] /\ call'[u] = call[u] /\ count'[u] = count[u]
          /\ at'[u] = at[u] /\ owed'[u] = owed[u] /\ called'[u] = called[u]
    BY <1>0, <1>1 DEF TypeOK
  <2>2. lists' = lists /\ \A u \in Threads : u # t => (Sound(u)' => Sound(u))
    BY <1>1 DEF Sound, tables, unload
  <2> QED BY <2>1, <2>2 DEF Walk
<1>4. busy'[t] = NoName /\ call'[t] = NoInfo
  BY <1>0, <1>1 DEF TypeOK
<1>5. Walks'
  BY <1>3, <1>4 DEF MInv, Walks
<1>6. Calls'
  BY <1>1, <1>3, <1>4 DEF MInv, Calls, Registered, tables
<1>7. Handshake'
  BY <1>0, <1>1 DEF MInv, Handshake, TypeOK, loader, unload
<1>8. Tables'
  BY <1>0, <1>1, <1>2, TablesKept DEF unload
<1> QED BY <1>5, <1>6, <1>7, <1>8 DEF MInv
LEMMA MStep == MInv /\ [Next]_vars => MInv'
<1> SUFFICES ASSUME MInv, [Next]_vars PROVE MInv'
  OBVIOUS
<1>1. ASSUME NEW f \in Files, LoadModule(f) PROVE MInv'
  BY <1>1, LoadKeeps
<1>2. CASE Register \/ EndLoad
  BY <1>2, RegisterKeeps, EndLoadKeeps
<1>3. ASSUME NEW n \in Names, StartUnload(n) PROVE MInv'
  BY <1>3, StartUnloadKeeps
<1>4. ASSUME NEW t \in Threads, MarkThread(t) \/ ScanThread(t) \/ ResumeThread(t) PROVE MInv'
  BY <1>4, MarkThreadKeeps, ScanThreadKeeps, ResumeThreadKeeps
<1>5. CASE UnloadModuleCommand \/ CloseModule
  BY <1>5, UnloadModuleCommandKeeps, CloseModuleKeeps
<1>6. ASSUME NEW t \in Threads, PassGate(t) \/ Ignore(t) PROVE MInv'
  BY <1>6, PassGateKeeps, IgnoreKeeps
<1>7. ASSUME NEW t \in Threads, NEW c \in Commands, StartMessage(t, c) PROVE MInv'
  BY <1>7, StartKeeps
<1>8. ASSUME NEW t \in Threads, CallModule(t) \/ EndMessage(t) PROVE MInv'
  BY <1>8, CallKeeps, EndMessageKeeps
<1>9. CASE UNCHANGED vars
  <2>1. UNCHANGED <<tables, loader, walks>> /\ UNCHANGED <<unload, passed, strays>>
    BY <1>9 DEF vars, tables, loader, walks, unload
  <2>2. TypeOK'
    BY <1>9 DEF vars, MInv, Tables, TypeOK
  <2>3. Handshake'
    BY <1>9 DEF vars, MInv, Handshake
  <2> QED BY <2>1, <2>2, <2>3, OutsideKept DEF Sound, unload
<1> QED BY <1>1, <1>2, <1>3, <1>4, <1>5, <1>6, <1>7, <1>8, <1>9 DEF Next

THEOREM ModuleInvariant == Spec => []MInv
BY MInit, MStep, PTL DEF Spec

-----------------------------------------------------------------------------
(* What follows                                                            *)

\* Types of the table, the loader, UnloadModule and the threads that walk the
\* lists.
THEOREM ModuleTypes == Spec => []TypeOK
<1>1. MInv => TypeOK
  BY DEF MInv, Tables
<1> QED BY <1>1, ModuleInvariant, PTL

\* AddClientCommand, UnloadModuleCommand and DelClientCommand of the plugin
\* keep the list of every command and the record of every module in step, so
\* that unloading follows no pointer to a registration that was freed.
THEOREM TablesAlwaysAgree == Spec => []TablesAgree
<1>1. MInv => TablesAgree
  BY DEF MInv, Tables
<1> QED BY <1>1, ModuleInvariant, PTL

\* No list names a module twice, whatever is loaded, unloaded and reloaded.
THEOREM ModulesRegisterOnce == Spec => []RegisteredOnce
<1>1. MInv => RegisteredOnce
  BY DEF MInv, Tables, RowsDistinct, Distinct, RegisteredOnce
<1> QED BY <1>1, ModuleInvariant, PTL

\* Marking every thread, and scanning until none is at work, keeps an unload
\* out of every message but those the scan overlooked: the module a thread is
\* in with any other message is loaded, and its registration listed.
THEOREM CalledModulesAreLoaded == Spec => []CallsLoaded
<1>1. MInv => CallsLoaded
  BY DEF MInv, Calls, Sound, CallsLoaded
<1> QED BY <1>1, ModuleInvariant, PTL

\* The end of a walk: everything counted was run, once.
LEMMA EndHears ==
  ASSUME MInv, NEW t \in Threads, busy[t] # NoName, at[t] > count[t], t \notin strays
  PROVE  ToSet(called[t]) = owed[t] /\ Len(called[t]) = Cardinality(owed[t])
<1> DEFINE l == lists[busy[t]]
           f == [i \in 1 .. count[t] |-> l[i]]
<1>1. Tables /\ TypeOK /\ Walk(t) /\ busy[t] \in Commands
  BY DEF MInv, Tables, TypeOK, Walks, Sound
<1>2. /\ l \in Seq(Infos) /\ Distinct(l) /\ DOMAIN l = 1 .. Len(l) /\ Len(l) \in Nat
      /\ count[t] \in Nat /\ at[t] \in Nat
      /\ called[t] \in Seq(Infos) /\ Len(called[t]) \in Nat
      /\ DOMAIN called[t] = 1 .. Len(called[t])
  BY <1>1, ListFacts, SeqElements DEF TypeOK
<1>3. /\ Len(called[t]) = count[t] /\ count[t] <= Len(l)
      /\ \A i \in 1 .. count[t] : called[t][i] = l[i]
      /\ owed[t] = {l[i] : i \in 1 .. count[t]}
  <2>1. /\ count[t] <= Len(l) /\ at[t] <= count[t] + 1 /\ Len(called[t]) = at[t] - 1
        /\ owed[t] = {l[i] : i \in 1 .. count[t]}
        /\ \A i \in 1 .. Len(called[t]) : called[t][i] = l[i]
    BY <1>1 DEF Walk
  <2>2. Len(called[t]) = count[t]
    BY <1>2, <2>1
  <2> QED BY <2>1, <2>2
<1> HIDE DEF l
<1>4. ToSet(called[t]) = owed[t]
  BY <1>2, <1>3 DEF ToSet
<1>5. f \in Bijection(1 .. count[t], owed[t])
  <2>1. \A i, k \in 1 .. count[t] : l[i] = l[k] => i = k
    BY <1>2, <1>3 DEF Distinct
  <2>2. f \in Injection(1 .. count[t], owed[t])
    BY <1>3, <2>1 DEF Injection, IsInjective
  <2>3. f \in Surjection(1 .. count[t], owed[t])
    BY <1>3 DEF Surjection
  <2> QED BY <2>2, <2>3 DEF Bijection
<1>6. Cardinality(owed[t]) = count[t]
  BY <1>2, <1>5, FS_CountingElements DEF ExistsBijection
<1> QED BY <1>3, <1>4, <1>6

\* With every message that no scan overlooked, DoMessage runs each registration
\* it found exactly once, whatever is appended to the list while it walks and
\* whichever modules are unloaded before and after.
THEOREM ModulesHearAll == Spec => HeardByAll
<1>1. MInv /\ [Next]_vars =>
        [\A t \in Threads : busy[t] # NoName /\ busy'[t] = NoName /\ t \notin strays =>
           /\ ToSet(called[t]) = owed[t]
           /\ Len(called[t]) = Cardinality(owed[t])]_vars
  <2> SUFFICES ASSUME MInv, Next, NEW t \in Threads,
                      busy[t] # NoName, busy'[t] = NoName, t \notin strays
               PROVE  ToSet(called[t]) = owed[t] /\ Len(called[t]) = Cardinality(owed[t])
    OBVIOUS
  <2>1. TypeOK
    BY DEF MInv, Tables
  <2>2. at[t] > count[t]
    <3>1. busy' # busy
      OBVIOUS
    <3>2. (\E u \in Threads, c \in Commands : StartMessage(u, c)) \/ \E u \in Threads : EndMessage(u)
      BY <3>1 DEF Next, LoadModule, Register, EndLoad, StartUnload, MarkThread, ScanThread,
            UnloadModuleCommand, CloseModule, ResumeThread, PassGate, Ignore, CallModule, walks
    <3>3. ~\E u \in Threads, c \in Commands : StartMessage(u, c)
      BY <2>1, NameFacts DEF StartMessage, TypeOK
    <3>4. PICK u \in Threads : EndMessage(u)
      BY <3>2, <3>3
    <3>5. u = t
      BY <2>1, <3>4 DEF EndMessage, TypeOK
    <3> QED BY <2>1, <3>4, <3>5 DEF EndMessage, TypeOK
  <2> QED BY <2>2, EndHears
<1> QED BY <1>1, ModuleInvariant, PTL DEF Spec, HeardByAll
=============================================================================
