--------------------------- MODULE NetworkProofs ---------------------------
(***************************************************************************)
(* Five parts of the link and network layer, for instances of any size.    *)
(*                                                                         *)
(* The readers' lock of network/routing.c excludes the writers of the      *)
(* routing table for every finite set of readers, although the thread that *)
(* unlocks the table is often not the one that locked it.  The argument is *)
(* the counting of the code: routing_reader_cnt is the number of readers   *)
(* that have counted themselves in, and between counting oneself and       *)
(* acting on the count the reader mutex keeps the others out.              *)
(*                                                                         *)
(* The ARP table of network/arp.c can be searched and copied from without  *)
(* a lock: a record is found while it is recent, a recent record is whole, *)
(* and no recent record is evicted because the neighbours are not more     *)
(* than the records.                                                       *)
(*                                                                         *)
(* The capture threads of link/device.c find all they use set up, since    *)
(* handlers are registered in an order that main keeps.                    *)
(*                                                                         *)
(* Routing tables promise no shortcut, whatever hosts start and stop and   *)
(* whatever answers arrive late: an entry, a record or an answer on its    *)
(* way stands for a way through the network that is as long as it says.    *)
(* Split horizon keeps this way from turning straight back, so where the   *)
(* links make no cycle no route is as long as there are hosts.             *)
(*                                                                         *)
(* The record array of routing.c needs room for two answers per device,    *)
(* and for one more per restart: answers come in the order of their        *)
(* requests, and a request id comes again only after more rounds than      *)
(* answers are late, so each answer recorded has a rank above those before.*)
(*                                                                         *)
(* The packets that ip.c puts together have no gaps, and hold data of      *)
(* other packets only when those shared their buffer: a buffer is filled   *)
(* by pieces in the order they were cut in, each host sending its pieces   *)
(* along one way.                                                          *)
(***************************************************************************)
EXTENDS RoutingLock, ArpCache, LinkLayer, Routing, IpPath,
        FiniteSetTheorems, WellFoundedInduction, TLAPS

-----------------------------------------------------------------------------
(***************************************************************************)
(* The readers' lock                                                       *)
(***************************************************************************)

\* The readers that have counted themselves in and not yet out.
Counted == {r \in Readers : at[r] \in {"entering", "reading"}}

Places ==
    {"outside", "entering", "reading", "leaving", "records locked", "user routes locked",
     "learning", "swapping", "swapped", "answering", "recording", "adding"}

LockTypeOK ==
    /\ at \in [Threads -> Places]
    /\ readerCnt \in Nat
    /\ tableMutex \in Readers \cup {Updater, Handler, Nobody}

\* What readerCnt says.
CountIsReaders == readerCnt = Cardinality(Counted)

\* A reader is between its count and its table mutex only with the reader mutex.
ReaderMutexHeld ==
    \A r \in Readers : at[r] \in {"entering", "leaving"} <=> readerMutex = r

\* The readers have the table when one of them reads, or is about to unlock it.
TableMutexHeld ==
    /\ tableMutex \in Readers <=> \E r \in Readers : at[r] \in {"reading", "leaving"}
    /\ tableMutex = Updater <=> at[Updater] = "swapping"
    /\ tableMutex = Handler <=> at[Handler] = "answering"

LockInv == LockTypeOK /\ CountIsReaders /\ ReaderMutexHeld /\ TableMutexHeld

\* The threads that are not readers are three, and none of them is Nobody.
LEMMA ThreadsDistinct ==
  /\ Updater # Handler /\ Updater # Nobody /\ Handler # Nobody /\ User # Updater /\ User # Handler
  /\ \A r \in Readers : r # Updater /\ r # Handler /\ r # Nobody /\ r # User
<1>1. \A a, b, c : Cardinality({a, b, c}) # 4
  <2> SUFFICES ASSUME NEW a, NEW b, NEW c PROVE Cardinality({a, b, c}) # 4
    OBVIOUS
  <2>1. IsFiniteSet({c}) /\ Cardinality({c}) = 1
    BY FS_Singleton
  <2>2. IsFiniteSet({c} \cup {b}) /\ Cardinality({c} \cup {b}) <= 2
    BY <2>1, FS_AddElement
  <2>3. Cardinality(({c} \cup {b}) \cup {a}) <= 3
    BY <2>2, FS_AddElement, FS_CardinalityType
  <2>4. ({c} \cup {b}) \cup {a} = {a, b, c}
    OBVIOUS
  <2> QED
    <3>1. Cardinality({a, b, c}) <= 3
      BY <2>3, <2>4
    <3> QED
      BY <3>1
<1>2. Cardinality({Updater, Handler, User, Nobody}) = 4
  BY RoutingLockAssumption
<1>3. Updater # Handler
  <2> SUFFICES ASSUME Updater = Handler PROVE FALSE
    OBVIOUS
  <2>1. {Updater, Handler, User, Nobody} = {Handler, User, Nobody}
    OBVIOUS
  <2>2. Cardinality({Handler, User, Nobody}) = 4
    BY <1>2, <2>1
  <2> QED
    BY <1>1, <2>2
<1>4. Updater # Nobody
  <2> SUFFICES ASSUME Updater = Nobody PROVE FALSE
    OBVIOUS
  <2>1. {Updater, Handler, User, Nobody} = {Handler, User, Nobody}
    OBVIOUS
  <2>2. Cardinality({Handler, User, Nobody}) = 4
    BY <1>2, <2>1
  <2> QED
    BY <1>1, <2>2
<1>5. Handler # Nobody
  <2> SUFFICES ASSUME Handler = Nobody PROVE FALSE
    OBVIOUS
  <2>1. {Updater, Handler, User, Nobody} = {Updater, User, Nobody}
    OBVIOUS
  <2>2. Cardinality({Updater, User, Nobody}) = 4
    BY <1>2, <2>1
  <2> QED
    BY <1>1, <2>2
<1>6. User # Updater
  <2> SUFFICES ASSUME User = Updater PROVE FALSE
    OBVIOUS
  <2>1. {Updater, Handler, User, Nobody} = {Updater, Handler, Nobody}
    OBVIOUS
  <2>2. Cardinality({Updater, Handler, Nobody}) = 4
    BY <1>2, <2>1
  <2> QED
    BY <1>1, <2>2
<1>7. User # Handler
  <2> SUFFICES ASSUME User = Handler PROVE FALSE
    OBVIOUS
  <2>1. {Updater, Handler, User, Nobody} = {Updater, Handler, Nobody}
    OBVIOUS
  <2>2. Cardinality({Updater, Handler, Nobody}) = 4
    BY <1>2, <2>1
  <2> QED
    BY <1>1, <2>2
<1>8. \A r \in Readers : r # Updater /\ r # Handler /\ r # Nobody /\ r # User
  BY RoutingLockAssumption
<1> QED
  BY <1>3, <1>4, <1>5, <1>6, <1>7, <1>8

\* What is counted is a finite number of readers.
LEMMA CountedFinite ==
  IsFiniteSet(Counted) /\ Cardinality(Counted) \in Nat
<1>1. Counted \subseteq Readers
  BY DEF Counted
<1>2. IsFiniteSet(Readers)
  BY RoutingLockAssumption
<1> QED
  BY <1>1, <1>2, FS_Subset, FS_CardinalityType

\* Nobody holds anything at first.
LEMMA LockInit ==
  RoutingLockInit => LockInv
<1> SUFFICES ASSUME RoutingLockInit PROVE LockInv
  OBVIOUS
<1>1. \A t \in Threads : at[t] = "outside"
  BY DEF RoutingLockInit
<1>2. LockTypeOK
  BY DEF RoutingLockInit, LockTypeOK, Places
<1>3. Counted = {}
  BY <1>1 DEF Counted, Threads
<1>4. CountIsReaders
  BY <1>3, FS_EmptySet DEF RoutingLockInit, CountIsReaders
<1>5. ReaderMutexHeld
  BY <1>1, ThreadsDistinct DEF RoutingLockInit, ReaderMutexHeld, Threads
<1>6. TableMutexHeld
  BY <1>1, ThreadsDistinct DEF RoutingLockInit, TableMutexHeld, Threads
<1> QED
  BY <1>2, <1>4, <1>5, <1>6 DEF LockInv

\* Counting oneself in and out keeps the count true.
LEMMA EnterKeeps ==
  ASSUME LockInv, NEW r \in Readers, ReaderEnters(r)
  PROVE  LockInv'
<1>0. /\ at \in [Threads -> Places] /\ r \in Threads /\ readerCnt \in Nat
      /\ at[r] = "outside" /\ at' = [at EXCEPT ![r] = "entering"]
      /\ readerMutex = Nobody /\ readerMutex' = r /\ tableMutex' = tableMutex
      /\ readerCnt' = readerCnt + 1
  BY DEF LockInv, LockTypeOK, ReaderEnters, Goes, Threads
<1>1. Counted' = Counted \cup {r} /\ r \notin Counted
  BY <1>0 DEF Counted, Threads
<1>2. Cardinality(Counted') = Cardinality(Counted) + 1
  BY <1>1, CountedFinite, FS_AddElement
<1>3. CountIsReaders'
  BY <1>0, <1>2 DEF LockInv, CountIsReaders
<1>4. ReaderMutexHeld'
  BY <1>0, ThreadsDistinct DEF LockInv, ReaderMutexHeld, Threads
<1>5. TableMutexHeld'
  <2>1. \A s \in Readers : at'[s] \in {"reading", "leaving"} <=> at[s] \in {"reading", "leaving"}
    BY <1>0 DEF Threads
  <2>2. at'[Updater] = at[Updater] /\ at'[Handler] = at[Handler]
    BY <1>0, ThreadsDistinct DEF Threads
  <2> QED
    BY <1>0, <2>1, <2>2 DEF LockInv, TableMutexHeld
<1>6. LockTypeOK'
  <2>1. at' \in [Threads -> Places]
    BY <1>0 DEF Places
  <2>2. readerCnt' \in Nat
    BY <1>0
  <2> QED
    BY <1>0, <2>1, <2>2 DEF LockInv, LockTypeOK
<1> QED
  BY <1>3, <1>4, <1>5, <1>6 DEF LockInv

\* A reader counts itself out.
LEMMA LeaveKeeps ==
  ASSUME LockInv, NEW r \in Readers, ReaderLeaves(r)
  PROVE  LockInv'
<1>0. /\ at \in [Threads -> Places] /\ r \in Threads /\ readerCnt \in Nat
      /\ at[r] = "reading" /\ at' = [at EXCEPT ![r] = "leaving"]
      /\ readerMutex = Nobody /\ readerMutex' = r /\ tableMutex' = tableMutex
      /\ readerCnt' = readerCnt - 1
  BY DEF LockInv, LockTypeOK, ReaderLeaves, Goes, Threads
<1>1. Counted' = Counted \ {r} /\ r \in Counted
  BY <1>0 DEF Counted, Threads
<1>2. Cardinality(Counted') = Cardinality(Counted) - 1
  BY <1>1, CountedFinite, FS_RemoveElement
<1>3. CountIsReaders'
  BY <1>0, <1>2 DEF LockInv, CountIsReaders
<1>4. ReaderMutexHeld'
  BY <1>0, ThreadsDistinct DEF LockInv, ReaderMutexHeld, Threads
<1>5. TableMutexHeld'
  <2>1. \A s \in Readers : at'[s] \in {"reading", "leaving"} <=> at[s] \in {"reading", "leaving"}
    BY <1>0 DEF Threads
  <2>2. at'[Updater] = at[Updater] /\ at'[Handler] = at[Handler]
    BY <1>0, ThreadsDistinct DEF Threads
  <2> QED
    BY <1>0, <2>1, <2>2 DEF LockInv, TableMutexHeld
<1>6. LockTypeOK'
  <2>1. readerCnt' = Cardinality(Counted') /\ IsFiniteSet(Counted')
    BY <1>1, <1>3, CountedFinite, FS_RemoveElement DEF CountIsReaders
  <2>2. readerCnt' \in Nat
    BY <2>1, FS_CardinalityType
  <2> QED
    BY <1>0, <2>2 DEF LockInv, LockTypeOK, Places
<1> QED
  BY <1>3, <1>4, <1>5, <1>6 DEF LockInv

\* While one reader holds the reader mutex, whoever else is counted reads.
LEMMA OthersRead ==
  ASSUME LockInv, NEW r \in Readers, readerMutex = r,
         NEW s \in Counted, s # r
  PROVE  s \in Readers /\ at[s] = "reading"
BY DEF LockInv, ReaderMutexHeld, Counted

\* The reader that is the first locks the table.
LEMMA ReadKeeps ==
  ASSUME LockInv, NEW r \in Readers, ReaderReads(r)
  PROVE  LockInv'
<1>0. /\ at \in [Threads -> Places] /\ r \in Threads
      /\ at[r] = "entering" /\ at' = [at EXCEPT ![r] = "reading"]
      /\ readerMutex' = Nobody /\ readerCnt' = readerCnt
  BY DEF LockInv, LockTypeOK, ReaderReads, Goes, Threads
<1>1. readerMutex = r
  BY <1>0 DEF LockInv, ReaderMutexHeld
<1>2. Counted' = Counted
  BY <1>0 DEF Counted, Threads
<1>3. CountIsReaders'
  BY <1>0, <1>2 DEF LockInv, CountIsReaders
<1>4. ReaderMutexHeld'
  BY <1>0, <1>1, ThreadsDistinct DEF LockInv, ReaderMutexHeld, Threads
<1>5. at'[Updater] = at[Updater] /\ at'[Handler] = at[Handler] /\ at'[r] = "reading"
  BY <1>0, ThreadsDistinct DEF Threads
<1>6. LockTypeOK' /\ TableMutexHeld'
  <2>1. CASE readerCnt = 1
    <3>1. tableMutex = Nobody /\ tableMutex' = r
      BY <2>1 DEF ReaderReads, TakeTableIfFirst
    <3> QED
      BY <1>0, <1>5, <3>1, ThreadsDistinct DEF LockInv, LockTypeOK, TableMutexHeld, Places
  <2>2. CASE readerCnt # 1
    <3>1. tableMutex' = tableMutex
      BY <2>2 DEF ReaderReads, TakeTableIfFirst
    <3>2. PICK s \in Counted : s # r
      <4>1. SUFFICES ASSUME Counted \subseteq {r} PROVE FALSE
        OBVIOUS
      <4>2. Counted = {r}
        BY <1>0, <4>1 DEF Counted
      <4>3. readerCnt = 1
        BY <4>2, FS_Singleton DEF LockInv, CountIsReaders
      <4> QED
        BY <2>2, <4>3
    <3>3. s \in Readers /\ at[s] = "reading"
      BY <1>1, <3>2, OthersRead
    <3>4. tableMutex \in Readers
      BY <3>3 DEF LockInv, TableMutexHeld
    <3> QED
      BY <1>0, <1>5, <3>1, <3>4, ThreadsDistinct DEF LockInv, LockTypeOK, TableMutexHeld, Places
  <2> QED
    BY <2>1, <2>2
<1> QED
  BY <1>3, <1>4, <1>6 DEF LockInv

\* The reader that is the last unlocks the table.
LEMMA OutKeeps ==
  ASSUME LockInv, NEW r \in Readers, ReaderIsOut(r)
  PROVE  LockInv'
<1>0. /\ at \in [Threads -> Places] /\ r \in Threads
      /\ at[r] = "leaving" /\ at' = [at EXCEPT ![r] = "outside"]
      /\ readerMutex' = Nobody /\ readerCnt' = readerCnt
      /\ tableMutex' = IF readerCnt = 0 THEN Nobody ELSE tableMutex
  BY DEF LockInv, LockTypeOK, ReaderIsOut, GiveTableIfLast, Goes, Threads
<1>1. readerMutex = r
  BY <1>0 DEF LockInv, ReaderMutexHeld
<1>2. Counted' = Counted
  BY <1>0 DEF Counted, Threads
<1>3. CountIsReaders'
  BY <1>0, <1>2 DEF LockInv, CountIsReaders
<1>4. ReaderMutexHeld'
  BY <1>0, <1>1, ThreadsDistinct DEF LockInv, ReaderMutexHeld, Threads
<1>5. /\ at'[Updater] = at[Updater] /\ at'[Handler] = at[Handler] /\ at'[r] = "outside"
      /\ \A s \in Readers : s # r => at'[s] = at[s]
  BY <1>0, ThreadsDistinct DEF Threads
<1>6. tableMutex \in Readers
  BY <1>0 DEF LockInv, TableMutexHeld
<1>7. LockTypeOK' /\ TableMutexHeld'
  <2>1. CASE readerCnt = 0
    <3>1. Counted = {}
      BY <2>1, CountedFinite, FS_EmptySet DEF LockInv, CountIsReaders
    <3>2. \A s \in Readers : at'[s] \notin {"reading", "leaving"}
      BY <1>1, <1>5, <3>1 DEF LockInv, ReaderMutexHeld, Counted
    <3> QED
      BY <1>0, <1>5, <1>6, <2>1, <3>2, ThreadsDistinct DEF LockInv, LockTypeOK, TableMutexHeld, Places
  <2>2. CASE readerCnt # 0
    <3>1. PICK s \in Counted : TRUE
      BY <2>2, FS_EmptySet DEF LockInv, CountIsReaders
    <3>2. s \in Readers /\ s # r /\ at[s] = "reading"
      BY <1>0, <1>1, <3>1, OthersRead DEF Counted
    <3>3. at'[s] = "reading"
      BY <1>5, <3>2
    <3> QED
      BY <1>0, <1>5, <1>6, <2>2, <3>2, <3>3, ThreadsDistinct DEF LockInv, LockTypeOK, TableMutexHeld, Places
  <2> QED
    BY <2>1, <2>2
<1> QED
  BY <1>3, <1>4, <1>7 DEF LockInv

\* The threads that are not readers leave the count and the reader mutex alone
\* and lock and unlock the table themselves.
LEMMA OthersKeep ==
  ASSUME LockInv,
         \/ UpdaterLocksRecords \/ UpdateWaits \/ UpdateGoesOn
         \/ HandlerLocksTable \/ HandlerLocksRecords \/ HandlerGoesOn
         \/ UserLocksRoutes \/ UserUnlocksRoutes
  PROVE  LockInv'
<1>0. at \in [Threads -> Places]
  BY DEF LockInv, LockTypeOK
<1>1. readerCnt' = readerCnt /\ readerMutex' = readerMutex
  BY DEF UpdaterLocksRecords, UpdateWaits, UpdateGoesOn, HandlerLocksTable, HandlerLocksRecords,
         HandlerGoesOn, UserLocksRoutes, UserUnlocksRoutes, UpdaterLocksUserRoutes,
         UpdaterLocksTable, UpdaterUnlocksUserRoutes, UpdaterUnlocksTable,
         UpdaterUnlocksRecords, HandlerUnlocksTable, HandlerUnlocksRecords
<1>2. PICK t \in {Updater, Handler, User}, to \in Places : at' = [at EXCEPT ![t] = to]
  BY DEF UpdaterLocksRecords, UpdateWaits, UpdateGoesOn, HandlerLocksTable, HandlerLocksRecords,
         HandlerGoesOn, UserLocksRoutes, UserUnlocksRoutes, UpdaterLocksUserRoutes,
         UpdaterLocksTable, UpdaterUnlocksUserRoutes, UpdaterUnlocksTable,
         UpdaterUnlocksRecords, HandlerUnlocksTable, HandlerUnlocksRecords, Goes, Places
<1>3. at' \in [Threads -> Places] /\ \A r \in Readers : at'[r] = at[r]
  BY <1>0, <1>2, ThreadsDistinct DEF Threads
<1>4. Counted' = Counted
  BY <1>3 DEF Counted
<1>5. CountIsReaders' /\ ReaderMutexHeld'
  BY <1>1, <1>3, <1>4 DEF LockInv, CountIsReaders, ReaderMutexHeld
<1>6. tableMutex' \in Readers \cup {Updater, Handler, Nobody} /\ TableMutexHeld'
  <2>1. CASE UpdaterLocksTable
    BY <1>0, <1>3, <2>1, ThreadsDistinct
       DEF UpdaterLocksTable, Goes, LockInv, LockTypeOK, TableMutexHeld, Threads
  <2>2. CASE UpdaterUnlocksTable
    BY <1>0, <1>3, <2>2, ThreadsDistinct
       DEF UpdaterUnlocksTable, Goes, LockInv, LockTypeOK, TableMutexHeld, Threads
  <2>3. CASE HandlerLocksTable
    BY <1>0, <1>3, <2>3, ThreadsDistinct
       DEF HandlerLocksTable, Goes, LockInv, LockTypeOK, TableMutexHeld, Threads
  <2>4. CASE HandlerUnlocksTable
    BY <1>0, <1>3, <2>4, ThreadsDistinct
       DEF HandlerUnlocksTable, Goes, LockInv, LockTypeOK, TableMutexHeld, Threads
  <2>5. CASE UpdaterLocksRecords \/ UpdaterUnlocksRecords \/ UpdaterLocksUserRoutes
             \/ UpdaterUnlocksUserRoutes
    BY <1>0, <1>3, <2>5, ThreadsDistinct
       DEF UpdaterLocksRecords, UpdaterUnlocksRecords, UpdaterLocksUserRoutes,
           UpdaterUnlocksUserRoutes, Goes, LockInv, LockTypeOK, TableMutexHeld, Threads
  <2>6. CASE HandlerLocksRecords \/ HandlerUnlocksRecords
    BY <1>0, <1>3, <2>6, ThreadsDistinct
       DEF HandlerLocksRecords, HandlerUnlocksRecords, Goes, LockInv, LockTypeOK,
           TableMutexHeld, Threads
  <2>7. CASE UserLocksRoutes \/ UserUnlocksRoutes
    BY <1>0, <1>3, <2>7, ThreadsDistinct
       DEF UserLocksRoutes, UserUnlocksRoutes, Goes, LockInv, LockTypeOK, TableMutexHeld, Threads
  <2> QED
    BY <2>1, <2>2, <2>3, <2>4, <2>5, <2>6, <2>7 DEF UpdateWaits, UpdateGoesOn, HandlerGoesOn
<1> QED
  BY <1>1, <1>3, <1>5, <1>6 DEF LockInv, LockTypeOK

\* Every step keeps the invariant of the lock.
LEMMA LockStep ==
  LockInv /\ [RoutingLockNext]_RoutingLockVars => LockInv'
<1> SUFFICES ASSUME LockInv, [RoutingLockNext]_RoutingLockVars PROVE LockInv'
  OBVIOUS
<1>1. CASE UNCHANGED RoutingLockVars
  BY <1>1 DEF RoutingLockVars, LockInv, LockTypeOK, CountIsReaders, Counted, ReaderMutexHeld,
              TableMutexHeld
<1>2. ASSUME NEW r \in Readers,
             ReaderEnters(r) \/ ReaderReads(r) \/ ReaderLeaves(r) \/ ReaderIsOut(r)
      PROVE  LockInv'
  BY <1>2, EnterKeeps, ReadKeeps, LeaveKeeps, OutKeeps
<1> QED
  BY <1>1, <1>2, OthersKeep DEF RoutingLockNext

\* The invariant says that who is at the table holds its mutex.
LEMMA InvExcludes ==
  LockInv => ReadersExcludeWriters
BY ThreadsDistinct DEF LockInv, TableMutexHeld, ReadersExcludeWriters, Reading

\* For every finite set of readers: while one of them looks through
\* routing_entries, neither update_routing_table replaces the table nor
\* route_frame_handler answers from it, and these two exclude each other.
THEOREM LockExcludes ==
  RoutingLockSpec => []ReadersExcludeWriters
<1>1. RoutingLockInit => LockInv
  BY LockInit
<1>2. LockInv /\ [RoutingLockNext]_RoutingLockVars => LockInv'
  BY LockStep
<1>3. LockInv => ReadersExcludeWriters
  BY InvExcludes
<1> QED
  BY <1>1, <1>2, <1>3, PTL DEF RoutingLockSpec

-----------------------------------------------------------------------------
(***************************************************************************)
(* The ARP table                                                           *)
(***************************************************************************)

\* What the sizes and times of the program are: the table has room for all
\* neighbours, and they announce themselves before a record expires.
ArpFits ==
    /\ IsFiniteSet(Neighbours) /\ Cardinality(Neighbours) <= MaxRecords
    /\ Period < Timeout

\* What is still to be written of a record, from the first field on or later
NewRecord == FieldsToWrite(FALSE)
WholeMac == FieldsToWrite(TRUE)
RightHalf == <<"right", "timestamp">>
JustTime == <<"timestamp">>
ToWrite == {NewRecord, WholeMac, RightHalf, JustTime}

\* What a record, and forwardPacket's copy of it, may be
ArpRecords ==
    [ip : Neighbours \cup {NoIp},
     mac : [left : Neighbours \cup {NoIp}, right : Neighbours \cup {NoIp}],
     age : Ages]
ReaderStates ==
    [at : {"idle", "searching", "copying", "copying on", "copied"},
     ip : Neighbours \cup {NoIp}, slot : Slots \cup {NoSlot}, since : Ages,
     left : Neighbours \cup {NoIp}, right : Neighbours \cup {NoIp}]

Recent(s) == arp[s].age < Timeout
Writing == writer # IdleWriter

ArpTypeOK ==
    /\ arp \in [Slots -> ArpRecords]
    /\ writer \in [ip : Neighbours, slot : Slots, todo : ToWrite] \cup {IdleWriter}
    /\ reader \in ReaderStates
    /\ nextSend \in [Neighbours -> 0 .. Period]
    /\ heard \subseteq Neighbours
    /\ lost \in Nat

\* A record that is recent has the whole MAC of its address.
RecentWhole ==
    \A s \in Slots : Recent(s) =>
        arp[s].ip \in Neighbours /\ arp[s].mac = MacOf(arp[s].ip)

\* An address has at most one recent record.
RecentOnce ==
    \A s, o \in Slots : arp[s].ip = arp[o].ip /\ Recent(s) /\ Recent(o) => s = o

\* The record that is written is the only one of its address to be recent; its
\* address changes only while it is not, and what is no longer on the list has
\* been written.
WriterSound ==
    Writing =>
        /\ \A o \in Slots : arp[o].ip = writer.ip /\ Recent(o) => o = writer.slot
        /\ IF writer.todo = NewRecord THEN ~Recent(writer.slot)
           ELSE arp[writer.slot].ip = writer.ip
        /\ writer.todo \in {RightHalf, JustTime} =>
               arp[writer.slot].mac.left = writer.ip
        /\ writer.todo = JustTime => arp[writer.slot].mac.right = writer.ip

\* A record that was found is not older than the time it was found at says,
\* and is still the one of the address.
ReaderSound ==
    /\ reader.at \in {"copying", "copying on"} => reader.slot \in Slots
    /\ reader.since < Timeout =>
        /\ reader.at \in {"copying", "copying on"} =>
               arp[reader.slot].ip = reader.ip /\ arp[reader.slot].age <= reader.since
        /\ reader.at \in {"copying on", "copied"} => reader.left = reader.ip
        /\ reader.at = "copied" => reader.right = reader.ip

\* A neighbour was heard of as long ago as its announcements say, or the record
\* is being written anew.
HeardRecently ==
    lost = 0 => \A n \in heard : \E s \in Slots :
        /\ arp[s].ip = n
        /\ \/ arp[s].age + nextSend[n] <= Period
           \/ Writing /\ writer.ip = n /\ writer.slot = s /\ arp[s].age <= Period

ArpInv ==
    /\ ArpTypeOK /\ RecentWhole /\ RecentOnce /\ WriterSound /\ ReaderSound /\ HeardRecently

\* A set of numbers that is not empty has a least one.
LEMMA LeastExists ==
  ASSUME NEW S, S \subseteq Nat, S # {}
  PROVE  \E m \in S : \A k \in S : m <= k
<1>1. PICK m \in S : \A k \in S : <<k, m>> \notin OpToRel(<, Nat)
  BY WFMin, NatLessThanWellFounded, Zenon
<1>2. \A k \in S : k \in Nat /\ m \in Nat
  OBVIOUS
<1>3. \A k \in S : ~(k < m)
  BY <1>1, <1>2, Zenon DEF OpToRel
<1>4. \A k \in S : m <= k
  BY <1>2, <1>3
<1> QED
  BY <1>4

\* The constants and the table in the forms the provers use.
LEMMA ArpNumbers ==
  /\ MaxRecords \in Nat \ {0} /\ Timeout \in Nat \ {0} /\ Period \in Nat \ {0} /\ SearchTicks \in Nat
  /\ FreeAge \in Nat /\ FreeAge >= Timeout /\ Slots \subseteq Nat /\ Slots # {}
BY ArpAssumption DEF FreeAge, Slots

\* What the writer has left to write tells where it is.
LEMMA ToWriteDistinct ==
  /\ NewRecord # WholeMac /\ NewRecord # RightHalf /\ NewRecord # JustTime
  /\ WholeMac # RightHalf /\ WholeMac # JustTime /\ RightHalf # JustTime
BY DEF NewRecord, WholeMac, RightHalf, JustTime, FieldsToWrite

\* The age and the address of a record.
LEMMA RecordTyped ==
  ASSUME ArpTypeOK, NEW s \in Slots
  PROVE  /\ arp[s].age \in Ages /\ arp[s].age \in Nat
         /\ arp[s].ip \in Neighbours \cup {NoIp}
<1>1. arp[s] \in ArpRecords
  BY DEF ArpTypeOK
<1>2. arp[s].age \in Ages /\ arp[s].ip \in Neighbours \cup {NoIp}
  BY <1>1 DEF ArpRecords
<1> QED
  BY <1>2, ArpNumbers DEF Ages

\* An age is a number, that of the reader too.
LEMMA AgesNat ==
  ASSUME NEW x \in Ages
  PROVE  x \in Nat
BY ArpNumbers DEF Ages

\* What the reader remembers as the time is an age.
LEMMA SinceTyped ==
  ASSUME ArpTypeOK
  PROVE  reader.since \in Ages /\ reader.since \in Nat
<1>1. reader.since \in Ages
  BY DEF ArpTypeOK, ReaderStates
<1> QED
  BY <1>1, AgesNat

\* find_arp_record returns a record of the address that is fresh if there is one.
LEMMA FoundMatches ==
  ASSUME ArpTypeOK, NEW ip, NEW lag, FindArpRecord(ip, lag) # NoSlot
  PROVE  FindArpRecord(ip, lag) \in Matching(ip, lag)
<1>1. Matching(ip, lag) # {}
  BY DEF FindArpRecord
<1>2. Matching(ip, lag) \subseteq Nat
  BY ArpNumbers DEF Matching
<1>3. \E s \in Matching(ip, lag) : \A o \in Matching(ip, lag) : s <= o
  BY <1>1, <1>2, LeastExists
<1> QED
  BY <1>1, <1>3, Zenon DEF FindArpRecord

\* When find_arp_record returns none, none matches.
LEMMA NotFoundNoMatch ==
  ASSUME ArpTypeOK, NEW ip, NEW lag, FindArpRecord(ip, lag) = NoSlot
  PROVE  Matching(ip, lag) = {}
<1> SUFFICES ASSUME Matching(ip, lag) # {} PROVE FALSE
  OBVIOUS
<1>1. Matching(ip, lag) \subseteq Nat
  BY ArpNumbers DEF Matching
<1>2. \E s \in Matching(ip, lag) : \A o \in Matching(ip, lag) : s <= o
  BY <1>1, LeastExists
<1>3. FindArpRecord(ip, lag) \in Matching(ip, lag)
  BY <1>2, Zenon DEF FindArpRecord
<1> QED
  BY <1>3, ArpAssumption DEF Matching, Slots

\* With the time as it is now a record matches when it is recent.
LEMMA MatchingNow ==
  ASSUME ArpTypeOK, NEW ip, NEW s \in Slots
  PROVE  s \in Matching(ip, 0) <=> arp[s].ip = ip /\ Recent(s)
BY RecordTyped, ArpNumbers DEF Matching, Fresh, Recent

\* find_evict_arp_record returns one of the oldest records.
LEMMA EvictedOldest ==
  ASSUME ArpTypeOK
  PROVE  /\ FindEvictArpRecord \in Slots
         /\ \A o \in Slots : arp[o].age <= arp[FindEvictArpRecord].age
<1> DEFINE Youth == {FreeAge - arp[s].age : s \in Slots}
           Oldest == {s \in Slots : \A o \in Slots : arp[o].age <= arp[s].age}
<1>1. \A s \in Slots : arp[s].age \in Nat /\ FreeAge - arp[s].age \in Nat
  BY RecordTyped, ArpNumbers DEF Ages
<1>2. Youth \subseteq Nat /\ Youth # {}
  BY <1>1, ArpNumbers
<1>3. PICK m \in Youth : \A k \in Youth : m <= k
  <2> HIDE DEF Youth
  <2> QED
    BY <1>2, LeastExists
<1>4. PICK s \in Slots : m = FreeAge - arp[s].age
  BY <1>3
<1>5. \A o \in Slots : arp[o].age <= arp[s].age
  <2> SUFFICES ASSUME NEW o \in Slots PROVE arp[o].age <= arp[s].age
    OBVIOUS
  <2>1. FreeAge - arp[s].age <= FreeAge - arp[o].age
    BY <1>3, <1>4
  <2> QED
    BY <1>1, <2>1, ArpNumbers
<1>6. Oldest # {} /\ Oldest \subseteq Nat
  BY <1>5, ArpNumbers
<1>7. PICK f \in Oldest : \A o \in Oldest : f <= o
  <2> HIDE DEF Oldest
  <2> QED
    BY <1>6, LeastExists
<1>8. f \in Slots /\ \A o \in Slots : arp[f].age > arp[o].age \/ (arp[f].age = arp[o].age /\ f <= o)
  <2>1. f \in Slots
    BY <1>7
  <2>2. ASSUME NEW o \in Slots
        PROVE  arp[f].age > arp[o].age \/ (arp[f].age = arp[o].age /\ f <= o)
    <3>1. arp[o].age <= arp[f].age
      BY <1>7, <2>2
    <3>2. CASE arp[o].age = arp[f].age
      <4>1. o \in Oldest
        BY <1>7, <2>2, <3>2
      <4> QED
        BY <1>7, <3>2, <4>1
    <3>3. CASE arp[o].age # arp[f].age
      BY <1>1, <2>1, <2>2, <3>1, <3>3
    <3> QED
      BY <3>2, <3>3
  <2> QED
    BY <2>1, <2>2
<1>9. /\ FindEvictArpRecord \in Slots
      /\ \A o \in Slots : \/ arp[FindEvictArpRecord].age > arp[o].age
                          \/ arp[FindEvictArpRecord].age = arp[o].age /\ FindEvictArpRecord <= o
  <2> HIDE DEF Oldest, Youth
  <2> QED
    BY <1>8, Zenon DEF FindEvictArpRecord
<1>10. ASSUME NEW o \in Slots PROVE arp[o].age <= arp[FindEvictArpRecord].age
  <2> DEFINE e == FindEvictArpRecord
  <2>1. arp[e].age > arp[o].age \/ arp[e].age = arp[o].age
    BY <1>9, <1>10
  <2>2. arp[e].age \in Nat /\ arp[o].age \in Nat
    BY <1>1, <1>9, <1>10
  <2> HIDE DEF e
  <2>3. arp[o].age <= arp[e].age
    BY <2>1, <2>2
  <2> QED
    BY <2>3 DEF e
<1> QED
  BY <1>9, <1>10

\* An address without a recent record gets one that is not recent: the others
\* are fewer than the records.
LEMMA EvictedNotRecent ==
  ASSUME ArpFits, ArpTypeOK, RecentWhole, RecentOnce,
         NEW ip \in Neighbours, Matching(ip, 0) = {}
  PROVE  FindEvictArpRecord \in Slots /\ ~Recent(FindEvictArpRecord)
<1> DEFINE Others == Neighbours \ {ip}
           owner == [s \in Slots |-> arp[s].ip]
<1> SUFFICES ASSUME Recent(FindEvictArpRecord) PROVE FALSE
  BY EvictedOldest
<1>1. \A s \in Slots : Recent(s)
  <2> SUFFICES ASSUME NEW s \in Slots PROVE arp[s].age < Timeout
    BY DEF Recent
  <2> DEFINE e == FindEvictArpRecord
  <2>1. e \in Slots /\ arp[s].age <= arp[e].age /\ arp[e].age < Timeout
    BY EvictedOldest DEF Recent
  <2>2. arp[s].age \in Nat /\ arp[e].age \in Nat
    BY <2>1, RecordTyped
  <2> HIDE DEF e
  <2> QED
    BY <2>1, <2>2, ArpNumbers
<1>2. \A s \in Slots : arp[s].ip \in Others
  BY <1>1, MatchingNow DEF RecentWhole
<1>3. owner \in [Slots -> Others]
  BY <1>2
<1>4. IsFiniteSet(Slots) /\ Cardinality(Slots) = MaxRecords
  <2>1. 1 \in Int /\ MaxRecords \in Int /\ ~(1 > MaxRecords) /\ MaxRecords - 1 + 1 = MaxRecords
    BY ArpNumbers
  <2> QED
    BY <2>1, FS_Interval DEF Slots
<1>5. IsFiniteSet(Others) /\ Cardinality(Others) = Cardinality(Neighbours) - 1
      /\ Cardinality(Neighbours) \in Nat
  BY FS_RemoveElement, FS_CardinalityType DEF ArpFits
<1>6. Cardinality(Others) < Cardinality(Slots)
  BY <1>4, <1>5, ArpNumbers DEF ArpFits
<1>7. \E s \in Slots : \E o \in Slots : s # o /\ owner[s] = owner[o]
  <2> HIDE DEF owner, Others
  <2> QED
    BY <1>3, <1>4, <1>5, <1>6, FS_PigeonHole
<1> QED
  BY <1>1, <1>7 DEF RecentOnce

\* The table is empty at first, nothing was heard.
LEMMA ArpStarts ==
  ArpInit => ArpInv
<1> SUFFICES ASSUME ArpInit PROVE ArpInv
  OBVIOUS
<1>1. \A s \in Slots : arp[s] = [ip |-> NoIp, mac |-> NoMac, age |-> FreeAge] /\ ~Recent(s)
  BY ArpNumbers DEF ArpInit, Recent
<1>2. ArpTypeOK
  <2>1. arp \in [Slots -> ArpRecords]
    BY ArpNumbers DEF ArpInit, NoMac, MacOf, Ages, ArpRecords
  <2>2. nextSend \in [Neighbours -> 0 .. Period] /\ heard \subseteq Neighbours /\ lost \in Nat
    BY ArpNumbers DEF ArpInit
  <2>3. reader \in ReaderStates
    BY ArpNumbers DEF ArpInit, IdleReader, Ages, ReaderStates
  <2> QED
    BY <2>1, <2>2, <2>3 DEF ArpInit, ArpTypeOK
<1>3. RecentWhole /\ RecentOnce
  BY <1>1 DEF RecentWhole, RecentOnce
<1>4. WriterSound /\ ReaderSound /\ HeardRecently
  BY DEF ArpInit, WriterSound, Writing, ReaderSound, IdleReader, HeardRecently
<1> QED
  BY <1>2, <1>3, <1>4 DEF ArpInv

\* What an announcement finds: the one recent record of its address, or none
\* and a record that is not recent.
LEMMA RecordForSound ==
  ASSUME ArpFits, ArpInv, NEW ip \in Neighbours
  PROVE  LET w == RecordFor(ip) IN
         /\ w \in [ip : Neighbours, slot : Slots,
                   todo : {NewRecord, WholeMac}]
         /\ w # IdleWriter /\ w.ip = ip
         /\ \A o \in Slots : arp[o].ip = ip /\ Recent(o) => o = w.slot
         /\ w.todo = NewRecord => ~Recent(w.slot)
         /\ w.todo = WholeMac => arp[w.slot].ip = ip
<1> DEFINE w == RecordFor(ip)
           found == FindArpRecord(ip, 0)
<1>0. ArpTypeOK /\ RecentWhole /\ RecentOnce
  BY DEF ArpInv
<1>1. w = [ip |-> ip,
           slot |-> IF found # NoSlot THEN found ELSE FindEvictArpRecord,
           todo |-> FieldsToWrite(found # NoSlot)]
  BY DEF RecordFor
<1>2. WholeMac # NewRecord
  BY ToWriteDistinct
<1>3. CASE found # NoSlot
  <2>1. found \in Matching(ip, 0)
    BY <1>0, <1>3, FoundMatches
  <2>2. found \in Slots /\ arp[found].ip = ip /\ Recent(found)
    <3>1. found \in Slots
      BY <2>1 DEF Matching
    <3> QED
      BY <1>0, <2>1, <3>1, MatchingNow
  <2>3. w = [ip |-> ip, slot |-> found, todo |-> WholeMac]
    <3> HIDE DEF found, w
    <3>1. (found # NoSlot) = TRUE
      BY <1>3
    <3> QED
      BY <1>1, <3>1 DEF WholeMac
  <2>4. \A o \in Slots : arp[o].ip = ip /\ Recent(o) => o = found
    BY <1>0, <2>2 DEF RecentOnce
  <2> HIDE DEF found, w
  <2>5. w # IdleWriter
    BY <2>3, ArpAssumption DEF IdleWriter
  <2>6. /\ w \in [ip : Neighbours, slot : Slots, todo : {NewRecord, WholeMac}]
        /\ w.ip = ip /\ \A o \in Slots : arp[o].ip = ip /\ Recent(o) => o = w.slot
        /\ w.todo = NewRecord => ~Recent(w.slot)
        /\ w.todo = WholeMac => arp[w.slot].ip = ip
    BY <1>2, <2>2, <2>3, <2>4
  <2> QED
    BY <2>5, <2>6 DEF w
<1>4. CASE found = NoSlot
  <2>1. Matching(ip, 0) = {}
    BY <1>0, <1>4, NotFoundNoMatch
  <2>2. FindEvictArpRecord \in Slots /\ ~Recent(FindEvictArpRecord)
    BY <1>0, <2>1, EvictedNotRecent
  <2>3. w = [ip |-> ip, slot |-> FindEvictArpRecord, todo |-> NewRecord]
    <3> HIDE DEF found, w
    <3>1. (found # NoSlot) = FALSE
      BY <1>4
    <3> QED
      BY <1>1, <3>1 DEF NewRecord
  <2>4. \A o \in Slots : ~(arp[o].ip = ip /\ Recent(o))
    BY <1>0, <2>1, MatchingNow
  <2> HIDE DEF found, w
  <2>5. w # IdleWriter
    BY <2>3, ArpAssumption DEF IdleWriter
  <2>6. /\ w \in [ip : Neighbours, slot : Slots, todo : {NewRecord, WholeMac}]
        /\ w.ip = ip /\ \A o \in Slots : arp[o].ip = ip /\ Recent(o) => o = w.slot
        /\ w.todo = NewRecord => ~Recent(w.slot)
        /\ w.todo = WholeMac => arp[w.slot].ip = ip
    BY <1>2, <2>2, <2>3, <2>4
  <2> QED
    BY <2>5, <2>6 DEF w
<1> QED
  BY <1>3, <1>4

\* arp_frame_handler begins to write, for an announcement of either kind.
LEMMA ArrivalKeeps ==
  ASSUME ArpFits, ArpInv, NEW ip \in Neighbours, AnnouncementArrives(ip), heard' = heard,
         \/ nextSend' = nextSend
         \/ nextSend' = [nextSend EXCEPT ![ip] = Period]
  PROVE  ArpInv'
<1>0. /\ ArpTypeOK /\ RecentWhole /\ RecentOnce /\ WriterSound /\ ReaderSound /\ HeardRecently
      /\ writer = IdleWriter /\ writer' = RecordFor(ip)
      /\ arp' = arp /\ reader' = reader /\ lost' = lost
      /\ nextSend \in [Neighbours -> 0 .. Period] /\ heard \subseteq Neighbours /\ lost \in Nat
  BY DEF ArpInv, AnnouncementArrives, ArpTypeOK
<1> DEFINE w == RecordFor(ip)
<1>1. /\ w \in [ip : Neighbours, slot : Slots, todo : {NewRecord, WholeMac}]
      /\ w # IdleWriter /\ w.ip = ip /\ w.slot \in Slots
      /\ \A o \in Slots : arp[o].ip = ip /\ Recent(o) => o = w.slot
      /\ w.todo = NewRecord => ~Recent(w.slot)
      /\ w.todo = WholeMac => arp[w.slot].ip = ip
  BY RecordForSound
<1>2. writer' = w /\ Writing'
  BY <1>0, <1>1 DEF Writing
<1> HIDE DEF w
<1>3. nextSend' \in [Neighbours -> 0 .. Period]
  BY <1>0, ArpNumbers
<1>4. ArpTypeOK'
  BY <1>0, <1>1, <1>2, <1>3 DEF ArpTypeOK, ToWrite
<1>5. RecentWhole' /\ RecentOnce' /\ ReaderSound'
  BY <1>0 DEF RecentWhole, RecentOnce, ReaderSound, Recent
<1>6. WriterSound'
  <2>1. w.todo \in {NewRecord, WholeMac}
    BY <1>1
  <2>2. w.todo \notin {RightHalf, JustTime}
    BY <2>1, ToWriteDistinct
  <2>3. \A s : Recent(s)' <=> Recent(s)
    BY <1>0 DEF Recent
  <2> QED
    BY <1>0, <1>1, <1>2, <2>1, <2>2, <2>3 DEF WriterSound
<1>7. HeardRecently'
  <2> SUFFICES ASSUME lost' = 0, NEW n \in heard'
               PROVE  \E s \in Slots :
                        /\ arp[s].ip = n
                        /\ \/ arp[s].age + nextSend'[n] <= Period
                           \/ w.ip = n /\ w.slot = s /\ arp[s].age <= Period
    BY <1>0, <1>2 DEF HeardRecently
  <2>1. PICK s \in Slots : arp[s].ip = n /\ arp[s].age + nextSend[n] <= Period
    BY <1>0 DEF HeardRecently, Writing
  <2>2. n \in Neighbours /\ nextSend[n] \in 0 .. Period /\ arp[s].age \in Nat
    BY <1>0, RecordTyped
  <2>3. CASE nextSend'[n] = nextSend[n]
    BY <2>1, <2>3
  <2>4. CASE nextSend'[n] # nextSend[n]
    <3>1. n = ip
      BY <1>0, <2>2, <2>4
    <3>2. arp[s].age <= Period /\ Recent(s)
      BY <2>1, <2>2, ArpNumbers DEF ArpFits, Recent
    <3>3. s = w.slot
      BY <1>1, <2>1, <3>1, <3>2
    <3> QED
      BY <1>1, <2>1, <3>1, <3>2, <3>3
  <2> QED
    BY <2>3, <2>4
<1> QED
  BY <1>4, <1>5, <1>6, <1>7 DEF ArpInv

\* arp_frame_handler writes one field: what changes, for each of the four.
LEMMA FieldWritten ==
  ASSUME ArpInv, WriteField
  PROVE  LET s == writer.slot
             r == arp[s]
             n == writer.ip
             Next(todo) == writer' = [ip |-> n, slot |-> s, todo |-> todo] /\ heard' = heard
         IN  /\ n \in Neighbours /\ s \in Slots /\ Writing
             /\ arp' \in [Slots -> ArpRecords]
             /\ \A o \in Slots : o # s => arp'[o] = arp[o]
             /\ \/ /\ writer.todo = NewRecord /\ Next(WholeMac)
                   /\ arp'[s] = [ip |-> n, mac |-> [left |-> r.mac.left, right |-> r.mac.right],
                                 age |-> r.age]
                \/ /\ writer.todo = WholeMac /\ Next(RightHalf)
                   /\ arp'[s] = [ip |-> r.ip, mac |-> [left |-> n, right |-> r.mac.right],
                                 age |-> r.age]
                \/ /\ writer.todo = RightHalf /\ Next(JustTime)
                   /\ arp'[s] = [ip |-> r.ip, mac |-> [left |-> r.mac.left, right |-> n],
                                 age |-> r.age]
                \/ /\ writer.todo = JustTime
                   /\ writer' = IdleWriter /\ heard' = heard \cup {n}
                   /\ arp'[s] = [ip |-> r.ip, mac |-> [left |-> r.mac.left, right |-> r.mac.right],
                                 age |-> 0]
<1> DEFINE s == writer.slot
           r == arp[s]
           n == writer.ip
           Next(todo) == writer' = [ip |-> n, slot |-> s, todo |-> todo] /\ heard' = heard
           Change ==
             \/ /\ writer.todo = NewRecord /\ Next(WholeMac)
                /\ arp'[s] = [ip |-> n, mac |-> [left |-> r.mac.left, right |-> r.mac.right],
                              age |-> r.age]
             \/ /\ writer.todo = WholeMac /\ Next(RightHalf)
                /\ arp'[s] = [ip |-> r.ip, mac |-> [left |-> n, right |-> r.mac.right],
                              age |-> r.age]
             \/ /\ writer.todo = RightHalf /\ Next(JustTime)
                /\ arp'[s] = [ip |-> r.ip, mac |-> [left |-> r.mac.left, right |-> n],
                              age |-> r.age]
             \/ /\ writer.todo = JustTime
                /\ writer' = IdleWriter /\ heard' = heard \cup {n}
                /\ arp'[s] = [ip |-> r.ip, mac |-> [left |-> r.mac.left, right |-> r.mac.right],
                              age |-> 0]
<1>1. /\ writer \in [ip : Neighbours, slot : Slots,
                     todo : ToWrite]
      /\ arp \in [Slots -> ArpRecords] /\ Writing
  BY DEF ArpInv, ArpTypeOK, WriteField, Writing
<1>2. n \in Neighbours /\ s \in Slots /\ r \in ArpRecords /\ 0 \in Ages
  <2>1. n \in Neighbours /\ s \in Slots
    BY <1>1
  <2>2. r \in ArpRecords
    <3> HIDE DEF s
    <3> QED
      BY <1>1, <2>1
  <2> QED
    BY <2>1, <2>2, ArpNumbers DEF Ages
<1>3. r = [ip |-> r.ip, mac |-> [left |-> r.mac.left, right |-> r.mac.right], age |-> r.age]
  <2> HIDE DEF r
  <2> QED
    BY <1>2 DEF ArpRecords
<1>4. writer = [ip |-> n, slot |-> s, todo |-> writer.todo]
  BY <1>1
<1>5. arp' = [arp EXCEPT ![s] = Written(r, Head(writer.todo))]
  BY DEF WriteField
<1>6. \A o \in Slots : o # s => arp'[o] = arp[o]
  BY <1>1, <1>5
<1>7. arp'[s] = Written(r, Head(writer.todo))
  BY <1>1, <1>2, <1>5
<1>8. /\ Len(writer.todo) = 1 => writer' = IdleWriter /\ heard' = heard \cup {n}
      /\ Len(writer.todo) # 1 =>
            writer' = [ip |-> n, slot |-> s, todo |-> Tail(writer.todo)] /\ heard' = heard
  <2>1. [writer EXCEPT !.todo = Tail(@)] = [ip |-> n, slot |-> s, todo |-> Tail(writer.todo)]
    <3> DEFINE t == Tail(writer.todo)
    <3>1. [writer EXCEPT !.todo = t] = [ip |-> n, slot |-> s, todo |-> t]
      <4> HIDE DEF t, n, s
      <4> QED
        BY <1>4
    <3> QED
      BY <3>1
  <2> QED
    BY <2>1 DEF WriteField
<1> HIDE DEF r, n, s
<1>9. ASSUME writer.todo = NewRecord PROVE Change /\ arp'[s] \in ArpRecords
  <2>1. /\ Head(writer.todo) = "ip" /\ Len(writer.todo) # 1
        /\ Tail(writer.todo) = WholeMac
    BY <1>9 DEF NewRecord, WholeMac, FieldsToWrite
  <2>2. Next(WholeMac)
    BY <1>8, <2>1
  <2>3. arp'[s] = [r EXCEPT !.ip = n]
    BY <1>7, <2>1 DEF Written, n
  <2>4. arp'[s] = [ip |-> n, mac |-> [left |-> r.mac.left, right |-> r.mac.right], age |-> r.age]
    BY <1>2, <2>3 DEF ArpRecords
  <2>5. arp'[s] \in ArpRecords
    BY <1>2, <2>4 DEF ArpRecords
  <2> QED
    BY <1>9, <2>2, <2>4, <2>5
<1>10. ASSUME writer.todo = WholeMac PROVE Change /\ arp'[s] \in ArpRecords
  <2>1. /\ Head(writer.todo) = "left" /\ Len(writer.todo) # 1
        /\ Tail(writer.todo) = RightHalf
    BY <1>10 DEF WholeMac, RightHalf, FieldsToWrite
  <2>2. Next(RightHalf)
    BY <1>8, <2>1
  <2>3. arp'[s] = [r EXCEPT !.mac.left = n]
    BY <1>7, <2>1 DEF Written, n
  <2>4. arp'[s] = [ip |-> r.ip, mac |-> [left |-> n, right |-> r.mac.right], age |-> r.age]
    BY <1>2, <2>3 DEF ArpRecords
  <2>5. arp'[s] \in ArpRecords
    BY <1>2, <2>4 DEF ArpRecords
  <2> QED
    BY <1>10, <2>2, <2>4, <2>5
<1>11. ASSUME writer.todo = RightHalf PROVE Change /\ arp'[s] \in ArpRecords
  <2>1. /\ Head(writer.todo) = "right" /\ Len(writer.todo) # 1
        /\ Tail(writer.todo) = JustTime
    BY <1>11 DEF RightHalf, JustTime
  <2>2. Next(JustTime)
    BY <1>8, <2>1
  <2>3. arp'[s] = [r EXCEPT !.mac.right = n]
    BY <1>7, <2>1 DEF Written, n
  <2>4. arp'[s] = [ip |-> r.ip, mac |-> [left |-> r.mac.left, right |-> n], age |-> r.age]
    BY <1>2, <2>3 DEF ArpRecords
  <2>5. arp'[s] \in ArpRecords
    BY <1>2, <2>4 DEF ArpRecords
  <2> QED
    BY <1>11, <2>2, <2>4, <2>5
<1>12. ASSUME writer.todo = JustTime PROVE Change /\ arp'[s] \in ArpRecords
  <2>1. Head(writer.todo) = "timestamp" /\ Len(writer.todo) = 1
    BY <1>12 DEF JustTime
  <2>2. writer' = IdleWriter /\ heard' = heard \cup {n}
    BY <1>8, <2>1
  <2>3. arp'[s] = [r EXCEPT !.age = 0]
    BY <1>7, <2>1 DEF Written
  <2>4. arp'[s] = [ip |-> r.ip, mac |-> [left |-> r.mac.left, right |-> r.mac.right], age |-> 0]
    BY <1>2, <2>3 DEF ArpRecords
  <2>5. arp'[s] \in ArpRecords
    BY <1>2, <2>4 DEF ArpRecords
  <2> QED
    BY <1>12, <2>2, <2>4, <2>5
<1>13. writer.todo \in {NewRecord, WholeMac, RightHalf, JustTime}
  BY <1>1 DEF ToWrite
<1>14. Change /\ arp'[s] \in ArpRecords
  BY <1>9, <1>10, <1>11, <1>12, <1>13
<1>15. arp' \in [Slots -> ArpRecords]
  <2> HIDE DEF Change
  <2>1. DOMAIN arp' = Slots /\ arp' = [o \in Slots |-> arp'[o]]
    BY <1>1, <1>5
  <2>2. \A o \in Slots : arp'[o] \in ArpRecords
    BY <1>1, <1>6, <1>14
  <2> QED
    BY <2>1, <2>2
<1> QED
  BY <1>1, <1>2, <1>6, <1>14, <1>15 DEF n, s, r

\* What is not older than something recent is recent, and stays so when renewed.
LEMMA NotOlder ==
  ASSUME NEW a \in Nat, NEW b \in {a, 0}, NEW t \in Nat, a <= t, t < Timeout
  PROVE  a < Timeout /\ b <= t
BY ArpNumbers

\* arp_frame_handler writes one field more.
LEMMA WriteKeeps ==
  ASSUME ArpFits, ArpInv, WriteField
  PROVE  ArpInv'
<1>0. /\ ArpTypeOK /\ RecentWhole /\ RecentOnce /\ WriterSound /\ ReaderSound /\ HeardRecently
      /\ reader' = reader /\ nextSend' = nextSend /\ lost' = lost
  BY DEF ArpInv, WriteField
<1>1. PICK s \in Slots, n \in Neighbours : writer.slot = s /\ writer.ip = n
  BY FieldWritten
<1>2. PICK r, q : r = arp[s] /\ q = arp'[s]
  OBVIOUS
<1>3. /\ Writing
      /\ arp' \in [Slots -> ArpRecords]
      /\ \A o \in Slots : o # s => arp'[o] = arp[o] /\ (Recent(o)' <=> Recent(o))
  BY <1>1, FieldWritten DEF Recent
<1> DEFINE Next(todo) == writer' = [ip |-> n, slot |-> s, todo |-> todo] /\ heard' = heard
<1>4. \/ /\ writer.todo = NewRecord /\ Next(WholeMac)
         /\ q = [ip |-> n, mac |-> [left |-> r.mac.left, right |-> r.mac.right], age |-> r.age]
      \/ /\ writer.todo = WholeMac /\ Next(RightHalf)
         /\ q = [ip |-> r.ip, mac |-> [left |-> n, right |-> r.mac.right], age |-> r.age]
      \/ /\ writer.todo = RightHalf /\ Next(JustTime)
         /\ q = [ip |-> r.ip, mac |-> [left |-> r.mac.left, right |-> n], age |-> r.age]
      \/ /\ writer.todo = JustTime /\ writer' = IdleWriter /\ heard' = heard \cup {n}
         /\ q = [ip |-> r.ip, mac |-> [left |-> r.mac.left, right |-> r.mac.right], age |-> 0]
  BY <1>1, <1>2, FieldWritten
\* What the invariants say of the record before
<1>5. /\ r.age \in Nat /\ (Recent(s) <=> r.age < Timeout) /\ (Recent(s)' <=> q.age < Timeout)
      /\ IF writer.todo = NewRecord THEN ~(r.age < Timeout) ELSE r.ip = n
      /\ writer.todo \in {RightHalf, JustTime} => r.mac.left = n
      /\ writer.todo = JustTime => r.mac.right = n
      /\ r.age < Timeout => r.mac = [left |-> n, right |-> n]
      /\ \A o \in Slots : arp[o].ip = n /\ Recent(o) => o = s
  <2>1. r.age \in Nat /\ (Recent(s) <=> r.age < Timeout) /\ (Recent(s)' <=> q.age < Timeout)
    BY <1>0, <1>2, RecordTyped DEF Recent
  <2>2. /\ IF writer.todo = NewRecord THEN ~Recent(s) ELSE r.ip = n
        /\ writer.todo \in {RightHalf, JustTime} => r.mac.left = n
        /\ writer.todo = JustTime => r.mac.right = n
        /\ \A o \in Slots : arp[o].ip = n /\ Recent(o) => o = s
    BY <1>0, <1>1, <1>2, <1>3 DEF WriterSound
  <2>3. Recent(s) => r.mac = MacOf(r.ip)
    BY <1>0, <1>2 DEF RecentWhole
  <2> QED
    BY <2>1, <2>2, <2>3 DEF MacOf
\* ... and after
<1>6. /\ q.ip = n /\ q.age \in {r.age, 0}
      /\ writer.todo # JustTime => q.age = r.age
      /\ r.age < Timeout => r.ip = n
      /\ q.age < Timeout => q.mac = [left |-> n, right |-> n]
  BY <1>4, <1>5, ToWriteDistinct
<1>7. \/ writer' = IdleWriter /\ writer.todo = JustTime /\ heard' = heard \cup {n} /\ q.age = 0
      \/ /\ writer'.ip = n /\ writer'.slot = s /\ writer' # IdleWriter
         /\ writer'.todo \in ToWrite \ {NewRecord}
         /\ writer.todo # JustTime /\ heard' = heard
         /\ writer'.todo \in {RightHalf, JustTime} => q.mac.left = n
         /\ writer'.todo = JustTime => q.mac.right = n
  <2>1. \A todo : [ip |-> n, slot |-> s, todo |-> todo] # IdleWriter
    BY ArpAssumption DEF IdleWriter
  <2> QED
    BY <1>4, <1>5, <2>1, ToWriteDistinct DEF ToWrite
<1>8. heard \subseteq heard' /\ heard' \subseteq Neighbours
  BY <1>0, <1>7 DEF ArpTypeOK
<1>9. ArpTypeOK'
  <2>1. writer' \in [ip : Neighbours, slot : Slots, todo : ToWrite] \cup {IdleWriter}
    BY <1>4 DEF ToWrite
  <2> QED
    BY <1>0, <1>3, <1>8, <2>1 DEF ArpTypeOK
<1>10. RecentWhole'
  <2> SUFFICES ASSUME NEW o \in Slots, Recent(o)'
               PROVE  arp'[o].ip \in Neighbours /\ arp'[o].mac = MacOf(arp'[o].ip)
    BY DEF RecentWhole
  <2>1. CASE o = s
    BY <1>2, <1>5, <1>6, <2>1 DEF MacOf
  <2>2. CASE o # s
    BY <1>0, <1>3, <2>2 DEF RecentWhole
  <2> QED
    BY <2>1, <2>2
<1>11. \A o \in Slots : arp'[o].ip = n /\ Recent(o)' => o = s
  BY <1>3, <1>5
<1>12. RecentOnce'
  <2> SUFFICES ASSUME NEW k \in Slots, NEW o \in Slots,
                      arp'[k].ip = arp'[o].ip, Recent(k)', Recent(o)'
               PROVE  k = o
    BY DEF RecentOnce
  <2>1. CASE k # s /\ o # s
    BY <1>0, <1>3, <2>1 DEF RecentOnce
  <2>2. CASE k = s \/ o = s
    <3>1. arp'[k].ip = n /\ arp'[o].ip = n
      BY <1>2, <1>6, <2>2
    <3> QED
      BY <1>11, <3>1
  <2> QED
    BY <2>1, <2>2
<1>13. WriterSound'
  <2>1. CASE writer' = IdleWriter
    BY <2>1 DEF WriterSound, Writing
  <2>2. CASE writer' # IdleWriter
    <3>1. /\ writer'.ip = n /\ writer'.slot = s /\ writer'.todo # NewRecord
          /\ writer'.todo \in {RightHalf, JustTime} => q.mac.left = n
          /\ writer'.todo = JustTime => q.mac.right = n
      BY <1>7, <2>2
    <3> QED
      BY <1>2, <1>6, <1>11, <3>1 DEF WriterSound
  <2> QED
    BY <2>1, <2>2
<1>14. ReaderSound'
  <2> SUFFICES ASSUME reader.since < Timeout, reader.at \in {"copying", "copying on"}
               PROVE  arp'[reader.slot].ip = reader.ip /\ arp'[reader.slot].age <= reader.since
    BY <1>0 DEF ReaderSound
  <2>1. /\ reader.slot \in Slots /\ arp[reader.slot].ip = reader.ip
        /\ arp[reader.slot].age <= reader.since
    BY <1>0 DEF ReaderSound
  <2>2. CASE reader.slot # s
    BY <1>3, <2>1, <2>2
  <2>3. CASE reader.slot = s
    <3> PICK t : t = reader.since
      OBVIOUS
    <3>1. t \in Nat /\ t < Timeout
      BY <1>0, SinceTyped
    <3>2. r.age <= t /\ r.ip = reader.ip
      BY <1>2, <2>1, <2>3
    <3>3. r.age \in Nat /\ q.age \in {r.age, 0}
      BY <1>5, <1>6
    <3>4. r.age < Timeout /\ q.age <= t
      BY <3>1, <3>2, <3>3, NotOlder
    <3> QED
      BY <1>2, <1>6, <2>3, <3>2, <3>4
  <2> QED
    BY <2>2, <2>3
<1>15. HeardRecently'
  <2> SUFFICES ASSUME lost = 0, NEW m \in heard'
               PROVE  \E o \in Slots :
                        /\ arp'[o].ip = m
                        /\ \/ arp'[o].age + nextSend[m] <= Period
                           \/ Writing' /\ writer'.ip = m /\ writer'.slot = o /\ arp'[o].age <= Period
    BY <1>0 DEF HeardRecently
  <2>0. m \in Neighbours /\ nextSend[m] \in 0 .. Period
    BY <1>0, <1>8 DEF ArpTypeOK
  <2>1. CASE m \in heard
    <3>1. PICK o \in Slots :
             /\ arp[o].ip = m
             /\ \/ arp[o].age + nextSend[m] <= Period
                \/ writer.ip = m /\ writer.slot = o /\ arp[o].age <= Period
      BY <1>0, <2>1 DEF HeardRecently
    <3>2. CASE o # s
      <4>1. arp[o].age + nextSend[m] <= Period
        BY <1>1, <3>1, <3>2
      <4> QED
        BY <1>3, <3>1, <3>2, <4>1
    <3>3. CASE o = s
      <4>1. r.age <= Period
        BY <1>2, <1>5, <2>0, <3>1, <3>3, ArpNumbers
      <4>2. r.age < Timeout
        BY <1>5, <4>1, ArpNumbers DEF ArpFits
      <4>3. m = n
        BY <1>2, <1>6, <3>1, <3>3, <4>2
      <4>4. CASE writer' = IdleWriter
        <5>1. q.age = 0
          BY <1>7, <4>4
        <5> QED
          BY <1>2, <1>6, <2>0, <4>3, <5>1, ArpNumbers
      <4>5. CASE writer' # IdleWriter
        <5>1. writer'.ip = n /\ writer'.slot = s /\ q.age = r.age
          BY <1>6, <1>7, <4>5
        <5> QED
          BY <1>2, <1>6, <4>1, <4>3, <4>5, <5>1 DEF Writing
      <4> QED
        BY <4>4, <4>5
    <3> QED
      BY <3>2, <3>3
  <2>2. CASE m \notin heard
    <3>1. m = n /\ q.age = 0
      BY <1>7, <2>2
    <3> QED
      BY <1>2, <1>6, <2>0, <3>1, ArpNumbers
  <2> QED
    BY <2>1, <2>2
<1> QED
  BY <1>9, <1>10, <1>12, <1>13, <1>14, <1>15 DEF ArpInv

\* forwardPacket changes nothing but what it has copied.
LEMMA ReaderStepKeeps ==
  ASSUME ArpInv, arp' = arp, writer' = writer, nextSend' = nextSend, heard' = heard, lost' = lost,
         reader' \in ReaderStates,
         ReaderSound'
  PROVE  ArpInv'
<1>1. ArpTypeOK'
  BY DEF ArpInv, ArpTypeOK
<1>2. \A s : Recent(s)' <=> Recent(s)
  BY DEF Recent
<1>3. RecentWhole' /\ RecentOnce' /\ WriterSound' /\ HeardRecently'
  BY <1>2 DEF ArpInv, RecentWhole, RecentOnce, WriterSound, HeardRecently, Writing
<1> QED
  BY <1>1, <1>3 DEF ArpInv

\* A lookup begins or ends.
LEMMA LookupBeginsKeeps ==
  ASSUME ArpInv, EndLookup \/ \E ip \in Neighbours : BeginLookup(ip)
  PROVE  ArpInv'
<1>1. /\ arp' = arp /\ writer' = writer /\ nextSend' = nextSend /\ heard' = heard /\ lost' = lost
      /\ \/ \E ip \in Neighbours :
               reader' = [at |-> "searching", ip |-> ip, slot |-> NoSlot, since |-> 0,
                          left |-> NoIp, right |-> NoIp]
         \/ reader' = IdleReader
  BY DEF BeginLookup, EndLookup, IdleReader
<1>2. reader' \in ReaderStates
  <2>1. 0 \in Ages
    BY ArpNumbers DEF Ages
  <2>2. IdleReader \in ReaderStates
    BY <2>1 DEF ReaderStates, IdleReader
  <2>3. \A ip \in Neighbours :
          [at |-> "searching", ip |-> ip, slot |-> NoSlot, since |-> 0, left |-> NoIp, right |-> NoIp]
            \in ReaderStates
    BY <2>1 DEF ReaderStates
  <2> QED
    BY <1>1, <2>2, <2>3, Zenon
<1>3. reader'.at \in {"idle", "searching"}
  BY <1>1 DEF IdleReader
<1>4. ReaderSound'
  BY <1>3 DEF ReaderSound
<1> QED
  BY <1>1, <1>2, <1>4, ReaderStepKeeps

\* The record that find_arp_record returns was recent when the time was read;
\* its age now is remembered.
LEMMA SearchKeeps ==
  ASSUME ArpInv, Search
  PROVE  ArpInv'
<1> DEFINE s == FindArpRecord(reader.ip, reader.since)
<1>1. /\ arp' = arp /\ writer' = writer /\ nextSend' = nextSend /\ heard' = heard /\ lost' = lost
      /\ ArpTypeOK
  BY DEF Search, ArpInv
<1>2. CASE s = NoSlot
  <2>1. reader' = IdleReader
    BY <1>2 DEF Search
  <2>2. reader' \in ReaderStates
    BY <2>1, ArpNumbers DEF Ages, IdleReader, ReaderStates
  <2>3. ReaderSound'
    BY <2>1 DEF ReaderSound, IdleReader
  <2> QED
    BY <1>1, <2>2, <2>3, ReaderStepKeeps
<1>3. CASE s # NoSlot
  <2>1. s \in Matching(reader.ip, reader.since)
    BY <1>1, <1>3, FoundMatches
  <2>2. s \in Slots /\ arp[s].ip = reader.ip
    BY <2>1 DEF Matching
  <2>3. reader' = [reader EXCEPT !.at = "copying", !.slot = s, !.since = arp[s].age]
    BY <1>3 DEF Search
  <2>4. arp[s].age \in Ages /\ arp[s].age \in Nat
    BY <1>1, <2>2, RecordTyped
  <2> PICK k, a : k = s /\ a = arp[s].age
    OBVIOUS
  <2> HIDE DEF s
  <2>5. reader' = [at |-> "copying", ip |-> reader.ip, slot |-> k, since |-> a,
                   left |-> reader.left, right |-> reader.right]
    BY <1>1, <2>3 DEF ArpTypeOK, ReaderStates
  <2>6. reader' \in ReaderStates
    <3>1. /\ reader.ip \in Neighbours \cup {NoIp}
          /\ reader.left \in Neighbours \cup {NoIp} /\ reader.right \in Neighbours \cup {NoIp}
      BY <1>1 DEF ArpTypeOK, ReaderStates
    <3> QED
      BY <2>2, <2>4, <2>5, <3>1 DEF ReaderStates
  <2>7. reader'.at = "copying" /\ reader'.slot = k /\ reader'.since = a /\ reader'.ip = reader.ip
    BY <2>5
  <2>8. k \in Slots /\ arp'[k].ip = reader.ip /\ arp'[k].age = a /\ a <= a
    BY <1>1, <2>2, <2>4
  <2>9. ReaderSound'
    BY <2>7, <2>8 DEF ReaderSound
  <2> QED
    BY <1>1, <2>6, <2>9, ReaderStepKeeps
<1> QED
  BY <1>2, <1>3

\* A half of the MAC is copied: the right one, as long as the record is recent.
LEMMA CopyKeeps ==
  ASSUME ArpInv, CopyLeft \/ CopyRight
  PROVE  ArpInv'
<1> DEFINE m == arp[reader.slot].mac
<1>1. /\ arp' = arp /\ writer' = writer /\ nextSend' = nextSend /\ heard' = heard /\ lost' = lost
      /\ ArpTypeOK /\ ReaderSound /\ RecentWhole
  BY DEF CopyLeft, CopyRight, ArpInv
<1>2. reader.since \in Ages /\ reader.since \in Nat
  BY <1>1, SinceTyped
<1>3. reader \in ReaderStates
  BY <1>1 DEF ArpTypeOK
<1>4. /\ reader.slot \in Slots
      /\ reader.since < Timeout =>
            arp[reader.slot].ip = reader.ip /\ arp[reader.slot].age <= reader.since
  BY <1>1 DEF ReaderSound, CopyLeft, CopyRight
<1>5. reader.since < Timeout => m = MacOf(reader.ip)
  <2> SUFFICES ASSUME reader.since < Timeout PROVE m = MacOf(reader.ip)
    OBVIOUS
  <2>1. arp[reader.slot].age \in Nat /\ arp[reader.slot].age \in {arp[reader.slot].age, 0}
    BY <1>1, <1>4, RecordTyped
  <2>2. Recent(reader.slot)
    BY <1>2, <1>4, <2>1, NotOlder DEF Recent
  <2> QED
    BY <1>1, <1>4, <2>2 DEF RecentWhole
<1>6. reader.since < Timeout => m.left = reader.ip /\ m.right = reader.ip
  BY <1>5 DEF MacOf
<1>7. m.left \in Neighbours \cup {NoIp} /\ m.right \in Neighbours \cup {NoIp}
  <2>1. arp[reader.slot] \in ArpRecords
    BY <1>1, <1>4 DEF ArpTypeOK
  <2> QED
    BY <2>1 DEF ArpRecords
<1> PICK l, r : l = m.left /\ r = m.right
  OBVIOUS
<1>8. CASE CopyLeft
  <2>1. reader.at = "copying" /\ reader' = [reader EXCEPT !.at = "copying on", !.left = l]
    BY <1>8 DEF CopyLeft
  <2> HIDE DEF m
  <2>2. reader' = [at |-> "copying on", ip |-> reader.ip, slot |-> reader.slot,
                   since |-> reader.since, left |-> l, right |-> reader.right]
    BY <1>3, <2>1 DEF ReaderStates
  <2>3. reader' \in ReaderStates
    BY <1>3, <1>7, <2>2 DEF ReaderStates
  <2>4. ReaderSound'
    BY <1>1, <1>4, <1>6, <2>2 DEF ReaderSound
  <2> QED
    BY <1>1, <2>3, <2>4, ReaderStepKeeps
<1>9. CASE CopyRight
  <2>1. reader.at = "copying on" /\ reader' = [reader EXCEPT !.at = "copied", !.right = r]
    BY <1>9 DEF CopyRight
  <2> HIDE DEF m
  <2>2. reader' = [at |-> "copied", ip |-> reader.ip, slot |-> reader.slot,
                   since |-> reader.since, left |-> reader.left, right |-> r]
    BY <1>3, <2>1 DEF ReaderStates
  <2>3. reader' \in ReaderStates
    BY <1>3, <1>7, <2>2 DEF ReaderStates
  <2>4. reader.since < Timeout => reader.left = reader.ip
    BY <1>1, <2>1 DEF ReaderSound
  <2>5. ReaderSound'
    BY <1>6, <2>2, <2>4 DEF ReaderSound
  <2> QED
    BY <1>1, <2>3, <2>5, ReaderStepKeeps
<1> QED
  BY <1>8, <1>9

\* An announcement that is lost counts, whatever else was said of what was heard.
LEMMA LossKeeps ==
  ASSUME ArpInv, NEW ip \in Neighbours, AnnouncementLost(ip)
  PROVE  ArpInv'
<1>1. /\ arp' = arp /\ writer' = writer /\ reader' = reader /\ heard' = heard /\ lost' = lost + 1
      /\ nextSend' = [nextSend EXCEPT ![ip] = Period] /\ ArpTypeOK
  BY DEF AnnouncementLost, ArpInv
<1>2. nextSend \in [Neighbours -> 0 .. Period] /\ lost \in Nat
  BY <1>1 DEF ArpTypeOK
<1>3. nextSend' \in [Neighbours -> 0 .. Period] /\ lost' \in Nat /\ lost' # 0
  BY <1>1, <1>2, ArpNumbers
<1>4. ArpTypeOK'
  BY <1>1, <1>3 DEF ArpTypeOK
<1>5. HeardRecently'
  BY <1>3 DEF HeardRecently
<1>6. RecentWhole' /\ RecentOnce' /\ WriterSound' /\ ReaderSound'
  BY <1>1 DEF ArpInv, RecentWhole, RecentOnce, WriterSound, ReaderSound, Recent, Writing
<1> QED
  BY <1>4, <1>5, <1>6 DEF ArpInv

\* A tick makes an age one more until it is FreeAge.
LEMMA OlderSteps ==
  ASSUME NEW a \in Ages
  PROVE  /\ Older(a) \in Ages
         /\ a \in Nat /\ Older(a) \in Nat /\ Older(a) <= a + 1
         /\ Older(a) < Timeout => Older(a) = a + 1 /\ a < Timeout
BY ArpNumbers DEF Older, Ages

\* Of two ages the older stays the older.
LEMMA OlderKeepsOrder ==
  ASSUME NEW a \in Ages, NEW b \in Ages, a <= b
  PROVE  Older(a) <= Older(b)
BY ArpNumbers DEF Older, Ages

\* Time goes on: records, and what was read of them, age alike.
LEMMA TickKeeps ==
  ASSUME ArpInv, Tick
  PROVE  ArpInv'
<1>1. /\ ArpTypeOK /\ RecentWhole /\ RecentOnce /\ WriterSound /\ ReaderSound /\ HeardRecently
      /\ writer = IdleWriter /\ writer' = writer /\ heard' = heard /\ lost' = lost
      /\ \A m \in Neighbours : nextSend[m] > 0
      /\ nextSend' = [m \in Neighbours |-> nextSend[m] - 1]
      /\ arp' = [s \in Slots |-> [arp[s] EXCEPT !.age = Older(@)]]
      /\ reader' = IF reader.at = "idle" THEN reader ELSE [reader EXCEPT !.since = Older(@)]
  BY DEF Tick, ArpInv
<1>2. ASSUME NEW s \in Slots
      PROVE  /\ arp'[s] \in ArpRecords
             /\ arp'[s].ip = arp[s].ip /\ arp'[s].mac = arp[s].mac /\ arp'[s].age = Older(arp[s].age)
             /\ Recent(s)' => Recent(s)
  <2>1. arp[s] \in ArpRecords /\ arp[s].age \in Ages
    BY <1>1, RecordTyped DEF ArpTypeOK
  <2> PICK a : a = Older(arp[s].age)
    OBVIOUS
  <2>2. a \in Ages /\ (a < Timeout => arp[s].age < Timeout)
    BY <2>1, OlderSteps
  <2>3. arp'[s] = [arp[s] EXCEPT !.age = a]
    BY <1>1
  <2>4. arp'[s] \in ArpRecords /\ arp'[s].ip = arp[s].ip /\ arp'[s].mac = arp[s].mac /\ arp'[s].age = a
    BY <2>1, <2>2, <2>3 DEF ArpRecords
  <2> QED
    BY <2>2, <2>4 DEF Recent
<1>3. /\ reader' \in ReaderStates
      /\ reader'.at = reader.at /\ reader'.slot = reader.slot /\ reader'.ip = reader.ip
      /\ reader'.left = reader.left /\ reader'.right = reader.right
      /\ reader.at # "idle" => reader'.since = Older(reader.since)
  <2>1. reader \in ReaderStates /\ reader.since \in Ages
    BY <1>1, SinceTyped DEF ArpTypeOK
  <2> PICK a : a = Older(reader.since)
    OBVIOUS
  <2>2. a \in Ages
    BY <2>1, OlderSteps
  <2>3. reader' = IF reader.at = "idle" THEN reader ELSE [reader EXCEPT !.since = a]
    BY <1>1
  <2> QED
    BY <2>1, <2>2, <2>3 DEF ReaderStates
<1>4. nextSend' \in [Neighbours -> 0 .. Period]
  <2>1. ASSUME NEW m \in Neighbours PROVE nextSend[m] - 1 \in 0 .. Period
    <3>1. nextSend[m] \in 0 .. Period /\ nextSend[m] > 0
      BY <1>1 DEF ArpTypeOK
    <3> QED
      BY <3>1, ArpNumbers
  <2> QED
    BY <1>1, <2>1
<1>5. ArpTypeOK'
  <2>1. arp' \in [Slots -> ArpRecords]
    <3>1. arp' = [s \in Slots |-> arp'[s]]
      BY <1>1
    <3> QED
      BY <1>2, <3>1
  <2> QED
    BY <1>1, <1>3, <1>4, <2>1 DEF ArpTypeOK
<1>6. RecentWhole' /\ RecentOnce'
  BY <1>1, <1>2 DEF RecentWhole, RecentOnce
<1>7. WriterSound'
  BY <1>1 DEF WriterSound, Writing
<1>8. ReaderSound'
  <2> SUFFICES ASSUME reader.at # "idle"
               PROVE  ReaderSound'
    BY <1>1, <1>3 DEF ReaderSound
  <2>1. reader.since \in Ages
    BY <1>1, SinceTyped
  <2>2. reader'.since < Timeout => reader.since < Timeout
    BY <1>3, <2>1, OlderSteps
  <2>3. reader.at \in {"copying", "copying on"} => reader.slot \in Slots
    BY <1>1 DEF ReaderSound
  <2>4. ASSUME reader'.since < Timeout, reader.at \in {"copying", "copying on"}
        PROVE  arp'[reader.slot].ip = reader.ip /\ arp'[reader.slot].age <= reader'.since
    <3>1. arp[reader.slot].ip = reader.ip /\ arp[reader.slot].age <= reader.since
      BY <1>1, <2>2, <2>4 DEF ReaderSound
    <3>2. arp[reader.slot].age \in Ages
      BY <1>1, <2>3, <2>4, RecordTyped
    <3>3. Older(arp[reader.slot].age) <= Older(reader.since)
      BY <2>1, <3>1, <3>2, OlderKeepsOrder
    <3>4. /\ arp'[reader.slot].ip = arp[reader.slot].ip
          /\ arp'[reader.slot].age = Older(arp[reader.slot].age)
      BY <1>2, <2>3, <2>4
    <3> QED
      BY <1>3, <3>1, <3>3, <3>4
  <2>5. reader'.since < Timeout =>
          /\ reader.at \in {"copying on", "copied"} => reader.left = reader.ip
          /\ reader.at = "copied" => reader.right = reader.ip
    BY <1>1, <2>2 DEF ReaderSound
  <2> QED
    BY <1>3, <2>3, <2>4, <2>5 DEF ReaderSound
<1>9. HeardRecently'
  <2> SUFFICES ASSUME lost = 0, NEW m \in heard
               PROVE  \E s \in Slots : arp'[s].ip = m /\ arp'[s].age + nextSend'[m] <= Period
    BY <1>1 DEF HeardRecently
  <2>1. PICK s \in Slots : arp[s].ip = m /\ arp[s].age + nextSend[m] <= Period
    BY <1>1 DEF HeardRecently, Writing
  <2>2. m \in Neighbours /\ nextSend[m] \in Nat /\ nextSend'[m] = nextSend[m] - 1
    <3>1. m \in Neighbours /\ nextSend[m] \in 0 .. Period
      BY <1>1 DEF ArpTypeOK
    <3> QED
      BY <1>1, <3>1, ArpNumbers
  <2>3. arp[s].age \in Ages
    BY <1>1, RecordTyped
  <2> PICK a, b : a = arp[s].age /\ b = nextSend[m]
    OBVIOUS
  <2>4. a \in Nat /\ Older(a) \in Nat /\ Older(a) <= a + 1 /\ b \in Nat /\ a + b <= Period
    BY <2>1, <2>2, <2>3, OlderSteps
  <2>5. Older(a) + (b - 1) <= Period
    BY <2>4, ArpNumbers
  <2> QED
    BY <1>2, <2>1, <2>2, <2>5
<1> QED
  BY <1>5, <1>6, <1>7, <1>8, <1>9 DEF ArpInv

\* Every step keeps the invariant.
LEMMA ArpStep ==
  ASSUME ArpFits, ArpInv, [ArpNext]_ArpVars
  PROVE  ArpInv'
<1>1. CASE UNCHANGED ArpVars
  BY <1>1 DEF ArpVars, ArpInv, ArpTypeOK, RecentWhole, RecentOnce, WriterSound, ReaderSound,
              HeardRecently, Recent, Writing
<1>2. CASE WriteField
  BY <1>2, WriteKeeps
<1>3. CASE Search \/ CopyLeft \/ CopyRight
  BY <1>3, SearchKeeps, CopyKeeps
<1>4. CASE EndLookup \/ \E ip \in Neighbours : BeginLookup(ip)
  BY <1>4, LookupBeginsKeeps
<1>5. CASE Tick
  BY <1>5, TickKeeps
<1>6. ASSUME NEW ip \in Neighbours, PeriodicAnnouncement(ip) \/ ExtraAnnouncement(ip)
      PROVE  ArpInv'
  <2>1. /\ AnnouncementArrives(ip) /\ heard' = heard
        /\ nextSend' = nextSend \/ nextSend' = [nextSend EXCEPT ![ip] = Period]
    BY <1>6 DEF PeriodicAnnouncement, ExtraAnnouncement
  <2> QED
    BY <2>1, ArrivalKeeps
<1>7. ASSUME NEW ip \in Neighbours, AnnouncementLost(ip) PROVE ArpInv'
  BY <1>7, LossKeeps
<1> QED
  BY <1>1, <1>2, <1>3, <1>4, <1>5, <1>6, <1>7 DEF ArpNext

\* The invariant says what forwardPacket may rely on.
LEMMA ArpInvSuffices ==
  ASSUME ArpFits, ArpInv
  PROVE  LookupsSound
<1>1. ArpTypeOK
  BY DEF ArpInv
<1>2. \A s \in Slots : Fresh(s, 0) <=> Recent(s)
  <2> SUFFICES ASSUME NEW s \in Slots PROVE Fresh(s, 0) <=> Recent(s)
    OBVIOUS
  <2> PICK a : a = arp[s].age
    OBVIOUS
  <2>1. a \in Nat
    BY <1>1, RecordTyped
  <2>2. a - 0 \in 0 .. Timeout - 1 <=> a < Timeout
    BY <2>1, ArpNumbers
  <2> QED
    BY <2>2 DEF Fresh, Recent
<1>3. OneFreshRecord
  BY <1>2 DEF ArpInv, RecentOnce, OneFreshRecord
<1>4. WrongMacOnlyIfLate
  BY DEF ArpInv, ReaderSound, WrongMacOnlyIfLate
<1>5. NeighbourStaysKnown
  <2> SUFFICES ASSUME lost = 0, NEW n \in heard PROVE Matching(n, 0) # {}
    BY DEF NeighbourStaysKnown
  <2>1. PICK s \in Slots : arp[s].ip = n /\ (arp[s].age + nextSend[n] <= Period \/ arp[s].age <= Period)
    BY DEF ArpInv, HeardRecently
  <2>2. nextSend[n] \in 0 .. Period /\ arp[s].age \in Nat
    BY <1>1, RecordTyped DEF ArpTypeOK
  <2>3. arp[s].age < Timeout
    BY <2>1, <2>2, ArpNumbers DEF ArpFits
  <2> QED
    BY <1>1, <2>1, <2>3, MatchingNow DEF Recent
<1> QED
  BY <1>3, <1>4, <1>5 DEF LookupsSound

\* Whatever the number of neighbours, as long as the table has room for them and
\* they announce themselves before a record expires: an address has one record
\* that find_arp_record could return, forwardPacket copies the whole MAC of the
\* address it asked for although arp_frame_handler writes without a lock, unless
\* the record expired meanwhile, and without losses who was heard stays known.
THEOREM ArpLookupsSound ==
  ASSUME ArpFits
  PROVE  ArpSpec => []LookupsSound
<1>1. ArpInit => ArpInv
  BY ArpStarts
<1>2. ArpInv /\ [ArpNext]_ArpVars => ArpInv'
  BY ArpStep
<1>3. ArpInv => LookupsSound
  BY ArpInvSuffices
<1> QED
  BY <1>1, <1>2, <1>3, PTL DEF ArpSpec

-----------------------------------------------------------------------------
(***************************************************************************)
(* The start of the program                                                *)
(***************************************************************************)

LinkTypeOK ==
    /\ main \in {"initDevice", "open", "count", "address", "settingUp", "sleeping"}
    /\ step \in 0 .. 8 /\ cntdev \in Nat /\ numdevice \in 0 .. Len(PcapDevices)
    /\ capture \in [DeviceIds -> [at : {"notStarted", "waiting", "locking", "handling"},
                                  frame : FrameProtocols \cup {NoFrame}]]

\* The set-up begins when all devices are counted and addressed, and not all
\* of them are while main is still at one.
SetUpLast ==
    /\ main = "initDevice" => numdevice = 0 /\ cntdev = 0
    /\ main # "initDevice" => "linkMutexes" \in ready
    /\ main \in {"settingUp", "sleeping"} => numdevice = Len(PcapDevices)
    /\ main \in {"open", "count", "address"} => numdevice < Len(PcapDevices)
    /\ step > 0 => main \in {"settingUp", "sleeping"}

\* What the steps of the set-up that are done have left.
SetUpDone ==
    \A k \in 1 .. 8 :
        /\ k <= step /\ SetUp[k].does = "init" => SetUp[k].what \in ready
        /\ SetUp[k].does = "register" /\ SetUp[k].what \in callbacks => k <= step

\* What can be registered
OnlyRegistered == callbacks \subseteq {"ARP", "ROUTE", "IP", "TCP"}

\* A device captures when its id is counted, or about to be.
CapturesCounted ==
    \A i \in DeviceIds : capture[i].at # "notStarted" =>
        i < cntdev \/ (main = "count" /\ i = cntdev)

\* A frame waits for the mutex or is handled when its handler is registered.
HandlersRegistered ==
    \A i \in DeviceIds : capture[i].at \in {"locking", "handling"} =>
        capture[i].frame \in FrameProtocols \cap callbacks

LinkInv ==
    /\ LinkTypeOK /\ SetUpLast /\ SetUpDone /\ OnlyRegistered
    /\ CapturesCounted /\ HandlersRegistered

\* The devices are a sequence, and the set-up has eight steps.
LEMMA LinkNumbers ==
  /\ Len(PcapDevices) \in Nat /\ (PcapDevices # <<>> => Len(PcapDevices) > 0)
  /\ (PcapDevices = <<>> => Len(PcapDevices) = 0)
  /\ DOMAIN SetUp = 1 .. 8 /\ Len(SetUp) = 8
<1>1. Len(PcapDevices) \in Nat /\ (PcapDevices # <<>> => Len(PcapDevices) > 0)
      /\ (PcapDevices = <<>> => Len(PcapDevices) = 0)
  BY LinkAssumption
<1>2. DOMAIN SetUp = 1 .. 8 /\ Len(SetUp) = 8
  BY DEF SetUp
<1> QED
  BY <1>1, <1>2

\* Main has not called initDevice yet.
LEMMA LinkStarts ==
  LinkInit => LinkInv
<1> SUFFICES ASSUME LinkInit PROVE LinkInv
  OBVIOUS
<1>1. LinkTypeOK
  BY LinkNumbers DEF LinkInit, LinkTypeOK
<1>2. SetUpLast /\ OnlyRegistered /\ CapturesCounted /\ HandlersRegistered
  BY DEF LinkInit, SetUpLast, OnlyRegistered, CapturesCounted, HandlersRegistered
<1>3. SetUpDone
  BY DEF LinkInit, SetUpDone
<1> QED
  BY <1>1, <1>2, <1>3 DEF LinkInv

\* Main opens the devices: nothing of the set-up is done.
LEMMA OpeningKeeps ==
  ASSUME LinkInv, InitDevice \/ AddDevice \/ AddDeviceFails \/ CountDevice \/ GetDeviceIPAddress
  PROVE  LinkInv'
<1>0. /\ LinkTypeOK /\ SetUpLast /\ SetUpDone /\ OnlyRegistered /\ CapturesCounted
      /\ HandlersRegistered
  BY DEF LinkInv
<1>1. step \in 0 .. 8 /\ ~(step > 0)
  BY <1>0 DEF SetUpLast, LinkTypeOK, InitDevice, AddDevice, AddDeviceFails, CountDevice,
              GetDeviceIPAddress
<1>2. step' = step /\ callbacks' = callbacks /\ step = 0
  BY <1>1 DEF InitDevice, AddDevice, AddDeviceFails, CountDevice, GetDeviceIPAddress
<1>3. SetUpDone' /\ OnlyRegistered'
  BY <1>0, <1>2 DEF SetUpDone, OnlyRegistered
<1>4. cntdev \in Nat /\ numdevice \in 0 .. Len(PcapDevices) /\ numdevice \in Nat
  BY <1>0 DEF LinkTypeOK
<1>5. CASE InitDevice
  <2>1. /\ numdevice' = numdevice /\ capture' = capture /\ cntdev' = 0 /\ ready' = {"linkMutexes"}
        /\ main = "initDevice" /\ main' = IF PcapDevices = <<>> THEN "settingUp" ELSE "open"
        /\ numdevice = 0 /\ cntdev = 0
    BY <1>0, <1>5 DEF InitDevice, SetUpLast
  <2>2. LinkTypeOK'
    BY <1>0, <1>2, <2>1 DEF LinkTypeOK
  <2>3. SetUpLast'
    BY <1>2, <2>1, LinkNumbers DEF SetUpLast
  <2>4. CapturesCounted' /\ HandlersRegistered'
    BY <1>0, <1>2, <2>1 DEF CapturesCounted, HandlersRegistered
  <2> QED
    BY <1>3, <2>2, <2>3, <2>4 DEF LinkInv
<1>6. CASE AddDevice
  <2>1. /\ numdevice' = numdevice /\ cntdev' = cntdev /\ ready' = ready
        /\ main = "open" /\ main' = "count" /\ numdevice < Len(PcapDevices)
        /\ capture' = [capture EXCEPT ![cntdev] = [at |-> "waiting", frame |-> NoFrame]]
    BY <1>0, <1>6 DEF AddDevice, SetUpLast, Captured
  <2>2. /\ capture' \in [DeviceIds -> [at : {"notStarted", "waiting", "locking", "handling"},
                                      frame : FrameProtocols \cup {NoFrame}]]
        /\ \A i \in DeviceIds : i # cntdev => capture'[i] = capture[i]
        /\ cntdev \in DeviceIds => capture'[cntdev].at = "waiting"
    BY <1>0, <2>1 DEF LinkTypeOK
  <2>3. LinkTypeOK'
    BY <1>0, <1>2, <2>1, <2>2 DEF LinkTypeOK
  <2>4. SetUpLast'
    BY <1>0, <1>2, <2>1 DEF SetUpLast
  <2>5. CapturesCounted' /\ HandlersRegistered'
    BY <1>0, <1>2, <2>1, <2>2 DEF CapturesCounted, HandlersRegistered
  <2> QED
    BY <1>3, <2>3, <2>4, <2>5 DEF LinkInv
<1>7. CASE CountDevice
  <2>1. /\ numdevice' = numdevice /\ cntdev' = cntdev + 1 /\ ready' = ready /\ capture' = capture
        /\ main = "count" /\ main' = "address" /\ numdevice < Len(PcapDevices)
    BY <1>0, <1>7 DEF CountDevice, SetUpLast
  <2>2. LinkTypeOK'
    BY <1>0, <1>2, <2>1 DEF LinkTypeOK
  <2>3. SetUpLast'
    BY <1>0, <1>2, <2>1 DEF SetUpLast
  <2>4. CapturesCounted'
    <3> SUFFICES ASSUME NEW i \in DeviceIds, capture[i].at # "notStarted" PROVE i < cntdev + 1
      BY <2>1 DEF CapturesCounted
    <3>1. i < cntdev \/ i = cntdev
      BY <1>0 DEF CapturesCounted
    <3>2. i \in Int
      BY LinkNumbers DEF DeviceIds
    <3> QED
      BY <1>4, <3>1, <3>2
  <2>5. HandlersRegistered'
    BY <1>0, <1>2, <2>1 DEF HandlersRegistered
  <2> QED
    BY <1>3, <2>2, <2>3, <2>4, <2>5 DEF LinkInv
<1>8. CASE AddDeviceFails
  <2>1. /\ numdevice' = numdevice /\ cntdev' = cntdev /\ ready' = ready /\ capture' = capture
        /\ main = "open" /\ main' = "address" /\ numdevice < Len(PcapDevices)
    BY <1>0, <1>8 DEF AddDeviceFails, SetUpLast
  <2>2. LinkTypeOK'
    BY <1>0, <1>2, <2>1 DEF LinkTypeOK
  <2>3. SetUpLast'
    BY <1>0, <1>2, <2>1 DEF SetUpLast
  <2>4. CapturesCounted' /\ HandlersRegistered'
    BY <1>0, <1>2, <2>1 DEF CapturesCounted, HandlersRegistered
  <2> QED
    BY <1>3, <2>2, <2>3, <2>4 DEF LinkInv
<1>9. CASE GetDeviceIPAddress
  <2>1. /\ numdevice' = numdevice + 1 /\ cntdev' = cntdev /\ ready' = ready /\ capture' = capture
        /\ main = "address" /\ numdevice < Len(PcapDevices)
        /\ main' = IF numdevice + 1 < Len(PcapDevices) THEN "open" ELSE "settingUp"
    BY <1>0, <1>9 DEF GetDeviceIPAddress, SetUpLast
  <2>2. "linkMutexes" \in ready
    BY <1>0, <2>1 DEF SetUpLast
  <2>3. LinkTypeOK'
    BY <1>0, <1>2, <1>4, <2>1, LinkNumbers DEF LinkTypeOK
  <2>4. SetUpLast'
    BY <1>2, <1>4, <2>1, <2>2, LinkNumbers DEF SetUpLast
  <2>5. CapturesCounted' /\ HandlersRegistered'
    BY <1>0, <1>2, <2>1 DEF CapturesCounted, HandlersRegistered
  <2> QED
    BY <1>3, <2>3, <2>4, <2>5 DEF LinkInv
<1> QED
  BY <1>5, <1>6, <1>7, <1>8, <1>9

\* The steps of the set-up are done one after another, after the devices.
LEMMA SetUpKeeps ==
  ASSUME LinkInv, NEW k \in DOMAIN SetUp, SetUpInit(k) \/ SetUpRegister(k)
  PROVE  LinkInv'
<1>0. /\ LinkTypeOK /\ SetUpLast /\ SetUpDone /\ OnlyRegistered /\ CapturesCounted
      /\ HandlersRegistered
  BY DEF LinkInv
<1>1. /\ main = "settingUp" /\ k = step + 1 /\ step' = k
      /\ main' = IF k = 8 THEN "sleeping" ELSE main
      /\ cntdev' = cntdev /\ numdevice' = numdevice /\ capture' = capture
      /\ numdevice = Len(PcapDevices) /\ "linkMutexes" \in ready
  BY <1>0, LinkNumbers DEF SetUpInit, SetUpRegister, SetUpStep, SetUpLast
<1>2. k \in 1 .. 8 /\ step \in 0 .. 8
  BY <1>0, LinkNumbers DEF LinkTypeOK
<1>3. \/ /\ SetUp[k].does = "init" /\ ready' = ready \cup {SetUp[k].what} /\ callbacks' = callbacks
      \/ /\ SetUp[k].does = "register" /\ ready' = ready
         /\ callbacks' = callbacks \cup {SetUp[k].what}
  BY DEF SetUpInit, SetUpRegister
<1>4. LinkTypeOK'
  BY <1>0, <1>1, <1>2 DEF LinkTypeOK
<1>5. SetUpLast'
  BY <1>1, <1>3 DEF SetUpLast
<1>6. CapturesCounted' /\ HandlersRegistered'
  BY <1>0, <1>1, <1>3 DEF CapturesCounted, HandlersRegistered
<1>7. OnlyRegistered'
  <2>1. SetUp[k].does = "register" => SetUp[k].what \in {"ARP", "ROUTE", "IP", "TCP"}
    BY <1>2 DEF SetUp
  <2> QED
    BY <1>0, <1>3, <2>1 DEF OnlyRegistered
<1>8. SetUpDone'
  <2> SUFFICES ASSUME NEW j \in 1 .. 8
               PROVE  /\ j <= k /\ SetUp[j].does = "init" => SetUp[j].what \in ready'
                      /\ SetUp[j].does = "register" /\ SetUp[j].what \in callbacks' => j <= k
    BY <1>1 DEF SetUpDone
  <2>1. /\ j <= step /\ SetUp[j].does = "init" => SetUp[j].what \in ready
        /\ SetUp[j].does = "register" /\ SetUp[j].what \in callbacks => j <= step
    BY <1>0 DEF SetUpDone
  <2>2. j <= k => j <= step \/ j = k
    BY <1>1, <1>2
  <2>3. j <= step => j <= k
    BY <1>1, <1>2
  <2>4. SetUp[j].does = "register" /\ SetUp[k].does = "register" /\ SetUp[j].what = SetUp[k].what => j <= k
    BY <1>2 DEF SetUp
  <2>5. SetUp[j].does = "init" /\ SetUp[k].does = "register" => j # k
    OBVIOUS
  <2>6. "init" # "register"
    OBVIOUS
  <2> QED
    BY <1>3, <2>1, <2>2, <2>3, <2>4, <2>5, <2>6
<1> QED
  BY <1>4, <1>5, <1>6, <1>7, <1>8 DEF LinkInv

\* Frames are captured, handled and sent when main is anywhere.
LEMMA CaptureKeeps ==
  ASSUME LinkInv,
         \/ \E i \in DeviceIds : CaptureFrame(i) \/ CallbackBegins(i) \/ CallbackReturns(i)
         \/ \E t \in DeviceIds \cup Senders : InjectBegins(t) \/ InjectEnds(t)
  PROVE  LinkInv'
<1>0. /\ LinkTypeOK /\ SetUpLast /\ SetUpDone /\ OnlyRegistered /\ CapturesCounted
      /\ HandlersRegistered
  BY DEF LinkInv
<1>1. /\ main' = main /\ step' = step /\ cntdev' = cntdev /\ numdevice' = numdevice
      /\ ready' = ready /\ callbacks' = callbacks
  BY DEF CaptureFrame, CallbackBegins, CallbackReturns, InjectBegins, InjectEnds
<1>2. \/ capture' = capture
      \/ \E i \in DeviceIds, place \in {"waiting", "locking", "handling"},
            frame \in FrameProtocols \cup {NoFrame} :
           /\ capture' = [capture EXCEPT ![i] = [at |-> place, frame |-> frame]]
           /\ capture[i].at # "notStarted"
           /\ place # "waiting" => frame \in FrameProtocols \cap callbacks
  <2>1. ASSUME NEW i \in DeviceIds, CaptureFrame(i)
        PROVE  \E place \in {"waiting", "locking", "handling"}, frame \in FrameProtocols \cup {NoFrame} :
                 /\ capture' = [capture EXCEPT ![i] = [at |-> place, frame |-> frame]]
                 /\ capture[i].at # "notStarted"
                 /\ place # "waiting" => frame \in FrameProtocols \cap callbacks
    BY <2>1 DEF CaptureFrame, Captured
  <2>2. ASSUME NEW i \in DeviceIds, CallbackBegins(i)
        PROVE  \E place \in {"waiting", "locking", "handling"}, frame \in FrameProtocols \cup {NoFrame} :
                 /\ capture' = [capture EXCEPT ![i] = [at |-> place, frame |-> frame]]
                 /\ capture[i].at # "notStarted"
                 /\ place # "waiting" => frame \in FrameProtocols \cap callbacks
    <3>1. capture[i].frame \in FrameProtocols \cup {NoFrame}
      BY <1>0 DEF LinkTypeOK
    <3>2. capture[i].frame \in FrameProtocols \cap callbacks
      BY <1>0, <2>2 DEF HandlersRegistered, CallbackBegins
    <3> QED
      BY <2>2, <3>1, <3>2 DEF CallbackBegins, Captured
  <2>3. ASSUME NEW i \in DeviceIds, CallbackReturns(i)
        PROVE  \E place \in {"waiting", "locking", "handling"}, frame \in FrameProtocols \cup {NoFrame} :
                 /\ capture' = [capture EXCEPT ![i] = [at |-> place, frame |-> frame]]
                 /\ capture[i].at # "notStarted"
                 /\ place # "waiting" => frame \in FrameProtocols \cap callbacks
    BY <2>3 DEF CallbackReturns, Captured
  <2>4. ASSUME NEW t \in DeviceIds \cup Senders, InjectBegins(t) \/ InjectEnds(t)
        PROVE  capture' = capture
    BY <2>4 DEF InjectBegins, InjectEnds
  <2> QED
    BY <2>1, <2>2, <2>3, <2>4
<1>3. LinkTypeOK'
  BY <1>0, <1>1, <1>2 DEF LinkTypeOK
<1>4. CapturesCounted' /\ HandlersRegistered'
  <2>1. ASSUME NEW i \in DeviceIds, NEW place \in {"waiting", "locking", "handling"},
               NEW frame \in FrameProtocols \cup {NoFrame},
               capture' = [capture EXCEPT ![i] = [at |-> place, frame |-> frame]],
               capture[i].at # "notStarted", place # "waiting" => frame \in FrameProtocols \cap callbacks
        PROVE  CapturesCounted' /\ HandlersRegistered'
    <3>1. /\ capture'[i] = [at |-> place, frame |-> frame]
          /\ \A j \in DeviceIds : j # i => capture'[j] = capture[j]
      BY <1>0, <2>1 DEF LinkTypeOK
    <3>2. CapturesCounted'
      BY <1>0, <1>1, <2>1, <3>1 DEF CapturesCounted
    <3>3. HandlersRegistered'
      BY <1>0, <1>1, <2>1, <3>1 DEF HandlersRegistered
    <3> QED
      BY <3>2, <3>3
  <2>2. CASE capture' = capture
    BY <1>0, <1>1, <2>2 DEF CapturesCounted, HandlersRegistered
  <2> QED
    BY <1>2, <2>1, <2>2
<1>5. SetUpLast' /\ SetUpDone' /\ OnlyRegistered'
  BY <1>0, <1>1 DEF SetUpLast, SetUpDone, OnlyRegistered
<1> QED
  BY <1>3, <1>4, <1>5 DEF LinkInv

\* A handler that runs is registered, and what it touches was set up before.
LEMMA LinkInvSuffices ==
  LinkInv => InitBeforeUse
<1> SUFFICES ASSUME LinkInv, NEW i \in Handling
             PROVE  /\ Uses(capture[i].frame) \subseteq ready
                    /\ numdevice = Len(PcapDevices) /\ i < cntdev
  BY DEF InitBeforeUse
<1>1. i \in DeviceIds /\ capture[i].at = "handling" /\ capture[i].frame \in FrameProtocols \cap callbacks
  BY DEF Handling, LinkInv, HandlersRegistered
<1>2. step \in 0 .. 8
  BY DEF LinkInv, LinkTypeOK
<1>3. /\ "ARP" \in callbacks => 1 <= step
      /\ "ROUTE" \in callbacks => 4 <= step
      /\ "IP" \in callbacks => 6 <= step
      /\ "TCP" \in callbacks => 8 <= step
      /\ 2 <= step => "routingTable" \in ready
      /\ 3 <= step => "routingMutexes" \in ready
      /\ 5 <= step => "ipMutexes" \in ready
      /\ 7 <= step => "socketMutex" \in ready
  BY DEF LinkInv, SetUpDone, SetUp
<1>4. capture[i].frame \in {"ARP", "ROUTE", "IP"}
  BY <1>1 DEF FrameProtocols
<1>5. main \in {"settingUp", "sleeping"}
  BY <1>1, <1>2, <1>3, <1>4 DEF LinkInv, SetUpLast
<1>6. numdevice = Len(PcapDevices) /\ "linkMutexes" \in ready
  BY <1>5 DEF LinkInv, SetUpLast
<1>7. i < cntdev
  BY <1>1, <1>5 DEF LinkInv, CapturesCounted
<1>8. Uses(capture[i].frame) \subseteq ready
  BY <1>1, <1>2, <1>3, <1>4, <1>6 DEF Uses
<1> QED
  BY <1>6, <1>7, <1>8

\* For any devices, of which any may fail to open: although the capture threads
\* run from addDevice on, no handler of a frame runs before main has initialised
\* the tables and mutexes it uses and has counted and addressed every device.
THEOREM HandlersFindAllReady ==
  LinkSpec => []InitBeforeUse
<1>1. LinkInit => LinkInv
  BY LinkStarts
<1>2. LinkInv /\ [LinkNext]_LinkVars => LinkInv'
  <2> SUFFICES ASSUME LinkInv, [LinkNext]_LinkVars PROVE LinkInv'
    OBVIOUS
  <2>1. CASE UNCHANGED LinkVars
    BY <2>1 DEF LinkVars, LinkInv, LinkTypeOK, SetUpLast, SetUpDone, OnlyRegistered,
                CapturesCounted, HandlersRegistered
  <2>2. CASE LinkNext
    BY <2>2, OpeningKeeps, SetUpKeeps, CaptureKeeps DEF LinkNext
  <2> QED
    BY <2>1, <2>2
<1>3. LinkInv => InitBeforeUse
  BY LinkInvSuffices
<1> QED
  BY <1>1, <1>2, <1>3, PTL DEF LinkSpec

-----------------------------------------------------------------------------
(***************************************************************************)
(* Routing                                                                 *)
(***************************************************************************)

\* Entries of a table, with nothing said of their distance.
Entries ==
    [net : Nets, distance : Nat, dest_mac : Devices \cup {BroadcastMAC}, device : Devices]

\* Where the way w from host h has led after i links; w names the devices by
\* which it enters the hosts.
HostAt(h, w, i) == IF i = 0 THEN h ELSE Owner(w[i])

\* Each link of a way begins at the host the last one led to, and is not the
\* last one back.
IsWay(h, w) ==
    /\ w \in Seq(Devices)
    /\ \A i \in DOMAIN w : Peer[w[i]] \in ToSet(DevicesOf[HostAt(h, w, i - 1)])
    /\ \A i \in DOMAIN w : i > 1 => Peer[w[i]] # w[i - 1]

\* Does entry e of host h stand for the way w?  As long as it says, by its next
\* hop, to a host that may own the network.
StandsFor(h, e, w) ==
    /\ IsWay(h, w) /\ Len(w) = e.distance
    /\ w # <<>> => w[1] = e.dest_mac
    /\ e.net \in MayOwn(HostAt(h, w, Len(w)))

\* The entries that promise host h nothing the network does not have
TrueEntries(h) == {e \in Entries : \E w : StandsFor(h, e, w)}

\* No way leads back to where it began: the links make no cycle.
NoCycle == \A h \in Hosts : \A w : IsWay(h, w) /\ w # <<>> => HostAt(h, w, Len(w)) # h

Requests == [op : {"request"}, id : Nat]

\* The answers that device d may get: from its peer, and true for the peer's host.
TrueAnswers(d) ==
    {r \in [op : {"reply"}, id : Nat, from : Devices, to : {d}, entries : SUBSET Entries] :
        r.from = Peer[d] /\ r.entries \subseteq TrueEntries(Owner(r.from))}

\* What is recorded at host h came to one of its devices.
TrueRecords(h) == UNION {TrueAnswers(d) : d \in ToSet(DevicesOf[h])}

FramesTo(d) == Requests \cup TrueAnswers(d)

\* Is w a map from the devices to true frames on their way to them?
TrueWire(w) == w \in [Devices -> Seq(UNION {FramesTo(d) : d \in Devices})]
               /\ \A d \in Devices : w[d] \in Seq(FramesTo(d))

TablesTrue ==
    /\ table \in [Hosts -> SUBSET Entries]
    /\ \A h \in Hosts : table[h] \subseteq TrueEntries(h)

RecordsTrue ==
    /\ record \in [Hosts -> Seq(UNION {TrueRecords(h) : h \in Hosts})]
    /\ \A h \in Hosts : record[h] \in Seq(TrueRecords(h))

UserRoutesAllowed ==
    /\ userRoutes \in [Hosts -> SUBSET Nets]
    /\ \A h \in Hosts : userRoutes[h] \subseteq UserRoutes[h]

\* Whatever is in a table, recorded or on its way is true.
RoutingInv ==
    /\ requestId \in [Hosts -> Nat]
    /\ TablesTrue /\ RecordsTrue /\ UserRoutesAllowed /\ TrueWire(wire)

\* A device has one owner, which is a host.
LEMMA OwnerIsHost ==
  /\ \A d \in Devices : Owner(d) \in Hosts /\ d \in ToSet(DevicesOf[Owner(d)])
  /\ \A h \in Hosts : \A d \in ToSet(DevicesOf[h]) : d \in Devices /\ Owner(d) = h
<1>1. ASSUME NEW d \in Devices PROVE Owner(d) \in Hosts /\ d \in ToSet(DevicesOf[Owner(d)])
  <2>1. \E h \in Hosts : d \in ToSet(DevicesOf[h])
    BY DEF Devices
  <2> QED
    BY <2>1 DEF Owner
<1>2. ASSUME NEW h \in Hosts, NEW d \in ToSet(DevicesOf[h]) PROVE d \in Devices /\ Owner(d) = h
  <2>1. d \in Devices
    BY DEF Devices
  <2>2. Owner(d) \in Hosts /\ d \in ToSet(DevicesOf[Owner(d)])
    BY <1>1, <2>1
  <2>3. \A a, b \in Hosts : a # b => ToSet(DevicesOf[a]) \cap ToSet(DevicesOf[b]) = {}
    BY RoutingAssumption
  <2> QED
    BY <2>1, <2>2, <2>3
<1> QED
  BY <1>1, <1>2

\* A device that has a peer is the peer of that.
LEMMA PeersPaired ==
  ASSUME NEW d \in Devices, Peer[d] # NoDevice
  PROVE  Peer[d] \in Devices /\ Peer[Peer[d]] = d
BY RoutingAssumption DEF Devices

\* The first device of a host is a device.
LEMMA FirstDevice ==
  ASSUME NEW h \in Hosts
  PROVE  Head(DevicesOf[h]) \in Devices
<1>1. DevicesOf[h] \in Seq(ToSet(DevicesOf[h])) /\ DevicesOf[h] # <<>>
  BY RoutingAssumption
<1>2. Head(DevicesOf[h]) \in ToSet(DevicesOf[h])
  BY <1>1
<1> QED
  BY <1>2, OwnerIsHost

\* Where a way leads are hosts.
LEMMA WayHosts ==
  ASSUME NEW h \in Hosts, NEW w, IsWay(h, w)
  PROVE  /\ Len(w) \in Nat /\ DOMAIN w = 1 .. Len(w)
         /\ \A i \in 1 .. Len(w) : w[i] \in Devices
         /\ \A i \in 0 .. Len(w) : HostAt(h, w, i) \in Hosts
<1>1. w \in Seq(Devices)
  BY DEF IsWay
<1>2. \A i \in 1 .. Len(w) : w[i] \in Devices /\ Owner(w[i]) \in Hosts
  BY <1>1, OwnerIsHost
<1> QED
  BY <1>1, <1>2 DEF HostAt

\* Who enters the next host by device d may go on from there, not back.
LEMMA WayLonger ==
  ASSUME NEW h \in Hosts, NEW d \in Devices, Peer[d] \in ToSet(DevicesOf[h]),
         NEW w, IsWay(Owner(d), w), w # <<>> => w[1] # Peer[d]
  PROVE  \E v : /\ IsWay(h, v) /\ Len(v) = Len(w) + 1 /\ v[1] = d
                /\ HostAt(h, v, Len(v)) = HostAt(Owner(d), w, Len(w))
<1>1. /\ w \in Seq(Devices) /\ Len(w) \in Nat /\ DOMAIN w = 1 .. Len(w) /\ Owner(d) \in Hosts
      /\ \A i \in 1 .. Len(w) : w[i] \in Devices
  BY OwnerIsHost, WayHosts DEF IsWay
<1> DEFINE n == Len(w)
           v == [i \in 1 .. n + 1 |-> IF i = 1 THEN d ELSE w[i - 1]]
<1>2. v \in Seq(Devices) /\ Len(v) = n + 1 /\ DOMAIN v = 1 .. n + 1 /\ v[1] = d
  BY <1>1
<1>3. \A i \in 2 .. n + 1 : v[i] = w[i - 1] /\ i - 1 \in 1 .. n
  BY <1>1
<1> HIDE DEF v
<1>4. \A i \in 1 .. n + 1 : HostAt(h, v, i) = HostAt(Owner(d), w, i - 1)
  <2> SUFFICES ASSUME NEW i \in 1 .. n + 1 PROVE HostAt(h, v, i) = HostAt(Owner(d), w, i - 1)
    OBVIOUS
  <2>1. CASE i = 1
    BY <1>2, <2>1 DEF HostAt
  <2>2. CASE i # 1
    <3>1. i \in 2 .. n + 1 /\ i # 0 /\ i - 1 # 0
      BY <1>1, <2>2
    <3> QED
      BY <1>3, <3>1 DEF HostAt
  <2> QED
    BY <2>1, <2>2
<1>5. ASSUME NEW i \in 1 .. n + 1 PROVE Peer[v[i]] \in ToSet(DevicesOf[HostAt(h, v, i - 1)])
  <2>1. CASE i = 1
    BY <1>2, <2>1 DEF HostAt
  <2>2. CASE i # 1
    <3>1. i \in 2 .. n + 1 /\ i - 1 \in 1 .. n + 1 /\ i - 1 \in 1 .. n
      BY <1>1, <2>2
    <3>2. v[i] = w[i - 1] /\ HostAt(h, v, i - 1) = HostAt(Owner(d), w, (i - 1) - 1)
      BY <1>3, <1>4, <3>1
    <3> QED
      BY <1>1, <3>1, <3>2 DEF IsWay
  <2> QED
    BY <2>1, <2>2
<1>6. ASSUME NEW i \in 1 .. n + 1, i > 1 PROVE Peer[v[i]] # v[i - 1]
  <2>1. i \in 2 .. n + 1 /\ v[i] = w[i - 1] /\ i - 1 \in 1 .. n
    BY <1>1, <1>3, <1>6
  <2>2. CASE i = 2
    <3>1. w # <<>> /\ v[i] = w[1] /\ v[i - 1] = d /\ w[1] \in Devices
      BY <1>1, <1>2, <2>1, <2>2
    <3>2. Peer[w[1]] = d => Peer[d] = w[1]
      BY <1>1, <3>1, PeersPaired, RoutingAssumption DEF Devices
    <3> QED
      BY <3>1, <3>2
  <2>3. CASE i # 2
    <3>1. i - 1 \in 2 .. n + 1 /\ i - 1 > 1
      BY <1>1, <2>1, <2>3
    <3>2. v[i - 1] = w[(i - 1) - 1]
      BY <1>3, <3>1
    <3> QED
      BY <1>1, <2>1, <3>1, <3>2 DEF IsWay
  <2> QED
    BY <2>2, <2>3
<1>7. IsWay(h, v)
  BY <1>2, <1>5, <1>6 DEF IsWay
<1>8. HostAt(h, v, Len(v)) = HostAt(Owner(d), w, Len(w))
  <2>1. n + 1 \in 1 .. n + 1 /\ (n + 1) - 1 = n
    BY <1>1
  <2> QED
    BY <1>2, <1>4, <2>1
<1> QED
  BY <1>2, <1>7, <1>8

\* Where a way leads is within its length.
LEMMA WayWithin ==
  ASSUME NEW h \in Hosts, NEW w, IsWay(h, w)
  PROVE  HostAt(h, w, Len(w)) \in Within(h, Len(w))
<1> DEFINE n == Len(w)
           walk == [i \in 0 .. n |-> HostAt(h, w, i)]
<1>1. n \in Nat /\ DOMAIN w = 1 .. n /\ \A i \in 1 .. n : w[i] \in Devices
  BY WayHosts
<1>2. walk \in [0 .. n -> Hosts]
  BY WayHosts
<1>3. walk[0] = h /\ walk[n] = HostAt(h, w, n)
  BY <1>1 DEF HostAt
<1>4. ASSUME NEW i \in 1 .. n PROVE Linked(walk[i - 1], walk[i])
  <2>1. i \in 0 .. n /\ i - 1 \in 0 .. n /\ i # 0
    BY <1>1
  <2>2. walk[i - 1] = HostAt(h, w, i - 1) /\ walk[i] = Owner(w[i]) /\ w[i] \in Devices
    BY <1>1, <2>1 DEF HostAt
  <2>3. Peer[w[i]] \in ToSet(DevicesOf[HostAt(h, w, i - 1)])
    BY <1>1 DEF IsWay
  <2>4. Peer[w[i]] \in Devices /\ Peer[Peer[w[i]]] = w[i]
    <3>1. HostAt(h, w, i - 1) \in Hosts
      BY <2>1, WayHosts
    <3>2. Peer[w[i]] \in Devices
      BY <2>3, <3>1, OwnerIsHost
    <3> QED
      BY <2>2, <3>2, PeersPaired, RoutingAssumption DEF Devices
  <2>5. w[i] \in ToSet(DevicesOf[Owner(w[i])])
    BY <2>2, OwnerIsHost
  <2> HIDE DEF walk
  <2> QED
    BY <2>2, <2>3, <2>4, <2>5 DEF Linked
<1>5. HostAt(h, w, n) \in Hosts
  BY <1>1, WayHosts
<1> HIDE DEF walk
<1>6. \A i \in 1 .. n : walk[i] = walk[i - 1] \/ Linked(walk[i - 1], walk[i])
  BY <1>4
<1> QED
  BY <1>2, <1>3, <1>5, <1>6 DEF Within

\* A part of a way is a way.
LEMMA WayPart ==
  ASSUME NEW h \in Hosts, NEW w, IsWay(h, w),
         NEW i \in 0 .. Len(w), NEW j \in 0 .. Len(w), i < j
  PROVE  \E v : /\ IsWay(HostAt(h, w, i), v) /\ v # <<>>
                /\ HostAt(HostAt(h, w, i), v, Len(v)) = HostAt(h, w, j)
<1>1. /\ w \in Seq(Devices) /\ Len(w) \in Nat /\ DOMAIN w = 1 .. Len(w)
      /\ \A k \in 1 .. Len(w) : w[k] \in Devices
  BY WayHosts DEF IsWay
<1> DEFINE g == HostAt(h, w, i)
           v == [k \in 1 .. j - i |-> w[i + k]]
<1>2. j - i \in Nat /\ j - i >= 1
  BY <1>1
<1>3. \A k \in 1 .. j - i : i + k \in 1 .. Len(w)
  BY <1>1
<1>4. v \in Seq(Devices) /\ Len(v) = j - i /\ DOMAIN v = 1 .. j - i /\ v # <<>>
  BY <1>1, <1>2, <1>3
<1>5. \A k \in 1 .. j - i : v[k] = w[i + k]
  OBVIOUS
<1> HIDE DEF v
<1>6. ASSUME NEW k \in 0 .. j - i PROVE HostAt(g, v, k) = HostAt(h, w, i + k)
  <2>1. CASE k = 0
    <3>1. i + k = i
      BY <2>1
    <3> QED
      BY <2>1, <3>1 DEF HostAt
  <2>2. CASE k # 0
    <3>1. k \in 1 .. j - i /\ i + k # 0
      BY <1>1, <2>2
    <3> QED
      BY <1>5, <2>2, <3>1 DEF HostAt
  <2> QED
    BY <2>1, <2>2
<1>7. ASSUME NEW k \in 1 .. j - i PROVE Peer[v[k]] \in ToSet(DevicesOf[HostAt(g, v, k - 1)])
  <2>1. k - 1 \in 0 .. j - i /\ i + (k - 1) = (i + k) - 1
    BY <1>1
  <2>2. HostAt(g, v, k - 1) = HostAt(h, w, (i + k) - 1)
    BY <1>6, <2>1
  <2> HIDE DEF g
  <2> QED
    BY <1>1, <1>3, <1>5, <2>2 DEF IsWay
<1>8. ASSUME NEW k \in 1 .. j - i, k > 1 PROVE Peer[v[k]] # v[k - 1]
  <2>1. k - 1 \in 1 .. j - i /\ i + (k - 1) = (i + k) - 1 /\ i + k > 1
    BY <1>1, <1>8
  <2>2. v[k] = w[i + k] /\ v[k - 1] = w[(i + k) - 1]
    BY <1>5, <2>1
  <2> QED
    BY <1>1, <1>3, <2>1, <2>2 DEF IsWay
<1>9. IsWay(g, v)
  BY <1>4, <1>7, <1>8 DEF IsWay
<1>10. HostAt(g, v, Len(v)) = HostAt(h, w, j)
  <2>1. j - i \in 0 .. j - i /\ i + (j - i) = j
    BY <1>2
  <2> QED
    BY <1>4, <1>6, <2>1
<1> QED
  BY <1>4, <1>9, <1>10

\* Where the links make no cycle, a way comes to each host once.
LEMMA WaysShort ==
  ASSUME IsFiniteSet(Hosts), NoCycle, NEW h \in Hosts, NEW w, IsWay(h, w)
  PROVE  Len(w) < Cardinality(Hosts)
<1> DEFINE n == Len(w)
           walk == [i \in 0 .. n |-> HostAt(h, w, i)]
<1>1. n \in Nat
  BY WayHosts
<1>2. walk \in [0 .. n -> Hosts] /\ DOMAIN walk = 0 .. n
  BY WayHosts
<1>3. ASSUME NEW i \in 0 .. n, NEW j \in 0 .. n, i < j PROVE walk[i] # walk[j]
  <2>1. PICK v : /\ IsWay(HostAt(h, w, i), v) /\ v # <<>>
                 /\ HostAt(HostAt(h, w, i), v, Len(v)) = HostAt(h, w, j)
    BY <1>3, WayPart
  <2>2. HostAt(h, w, i) \in Hosts
    BY WayHosts
  <2>3. HostAt(h, w, j) # HostAt(h, w, i)
    BY <2>1, <2>2 DEF NoCycle
  <2> QED
    BY <2>3
<1> HIDE DEF n, walk
<1>4. ASSUME NEW i \in 0 .. n, NEW j \in 0 .. n, walk[i] = walk[j] PROVE i = j
  <2>1. ~(i < j) /\ ~(j < i)
    BY <1>3, <1>4
  <2> QED
    BY <1>1, <2>1
<1>5. walk \in Injection(0 .. n, Hosts)
  BY <1>2, <1>4 DEF Injection, IsInjective
<1>6. Cardinality(0 .. n) <= Cardinality(Hosts)
  BY <1>5, FS_Injection
<1>7. Cardinality(0 .. n) = n + 1
  <2>1. ~(0 > n) /\ n - 0 + 1 = n + 1 /\ n \in Int
    BY <1>1
  <2> QED
    BY <2>1, FS_Interval
<1>8. Cardinality(Hosts) \in Nat
  BY FS_CardinalityType
<1> QED
  BY <1>1, <1>6, <1>7, <1>8 DEF n

\* A host's own entries are true.
LEMMA OwnEntriesTrue ==
  ASSUME NEW h \in Hosts, NEW added \in SUBSET UserRoutes[h]
  PROVE  OwnEntries(h, added) \subseteq TrueEntries(h)
<1> SUFFICES ASSUME NEW e \in OwnEntries(h, added) PROVE e \in TrueEntries(h)
  OBVIOUS
<1>1. /\ e \in Entries /\ e.distance = 0 /\ e.net \in MayOwn(h)
  <2>1. CASE \E d \in ToSet(DevicesOf[h]) : e = Entry(NetOf[d], 0, BroadcastMAC, d)
    <3>1. PICK d \in ToSet(DevicesOf[h]) : e = Entry(NetOf[d], 0, BroadcastMAC, d)
      BY <2>1
    <3>2. d \in Devices /\ NetOf[d] \in Nets
      BY OwnerIsHost DEF Nets
    <3> QED
      BY <3>1, <3>2 DEF Entry, Entries, MayOwn
  <2>2. CASE \E dest \in added : e = Entry(dest, 0, BroadcastMAC, Head(DevicesOf[h]))
    <3>1. PICK dest \in added : e = Entry(dest, 0, BroadcastMAC, Head(DevicesOf[h]))
      BY <2>2
    <3>2. dest \in UserRoutes[h] /\ dest \in Nets /\ Head(DevicesOf[h]) \in Devices
      BY FirstDevice DEF Nets
    <3> QED
      BY <3>1, <3>2 DEF Entry, Entries, MayOwn
  <2> QED
    BY <2>1, <2>2 DEF OwnEntries
<1>2. StandsFor(h, e, <<>>)
  BY <1>1 DEF StandsFor, IsWay, HostAt
<1> QED
  BY <1>1, <1>2 DEF TrueEntries

\* What a host learns from a true answer is true: one link more to its sender,
\* and on from there.  That it does not go straight back is split horizon.
LEMMA LearnedTrue ==
  ASSUME NEW h \in Hosts, NEW r \in TrueRecords(h), NEW e \in r.entries, Usable(e, r)
  PROVE  Learned(e, r) \in TrueEntries(h)
<1>1. PICK d \in ToSet(DevicesOf[h]) : r \in TrueAnswers(d)
  BY DEF TrueRecords
<1>2. /\ r.to = d /\ r.from = Peer[d] /\ r.from \in Devices /\ d \in Devices
      /\ e \in TrueEntries(Owner(r.from)) /\ e.dest_mac # d
  BY <1>1, OwnerIsHost DEF TrueAnswers, Usable
<1>3. Peer[r.from] = d
  BY <1>2, PeersPaired, RoutingAssumption DEF Devices
<1>4. e \in Entries /\ e.distance \in Nat /\ e.net \in Nets
  BY <1>2 DEF TrueEntries, Entries
<1>5. PICK w : StandsFor(Owner(r.from), e, w)
  BY <1>2 DEF TrueEntries
<1>6. PICK v : /\ IsWay(h, v) /\ Len(v) = Len(w) + 1 /\ v[1] = r.from
               /\ HostAt(h, v, Len(v)) = HostAt(Owner(r.from), w, Len(w))
  BY <1>2, <1>3, <1>5, WayLonger DEF StandsFor
<1>7. Learned(e, r) \in Entries
  BY <1>2, <1>4 DEF Learned, Entry, Entries
<1>8. /\ Learned(e, r).distance = e.distance + 1 /\ Learned(e, r).net = e.net
      /\ Learned(e, r).dest_mac = r.from
  BY DEF Learned, Entry
<1>9. StandsFor(h, Learned(e, r), v)
  BY <1>5, <1>6, <1>8 DEF StandsFor
<1> QED
  BY <1>7, <1>9 DEF TrueEntries

\* A table holds one's own entries and what was learned from answers.
LEMMA LearnedFromAnswers ==
  ASSUME NEW own, NEW rs, NEW e \in TableFrom(own, rs), e \notin own
  PROVE  \E i \in DOMAIN rs : \E f \in rs[i].entries : Usable(f, rs[i]) /\ e = Learned(f, rs[i])
<1> DEFINE found(i) == {f \in rs[i].entries : Usable(f, rs[i]) /\ \A o \in own : o.net # f.net}
           offered == UNION {{<<i, f>> : f \in found(i)} : i \in DOMAIN rs}
           best == {p \in offered : \A q \in offered :
                        q[2].net = p[2].net => Preferred(p[1], p[2], q[1], q[2])}
<1>1. TableFrom(own, rs) = own \cup {Learned(p[2], rs[p[1]]) : p \in best}
  BY Zenon DEF TableFrom
<1>2. PICK p \in best : e = Learned(p[2], rs[p[1]])
  <2> HIDE DEF best
  <2> QED
    BY <1>1
<1>3. p \in offered
  OBVIOUS
<1>4. PICK i \in DOMAIN rs : \E f \in found(i) : p = <<i, f>>
  <2> HIDE DEF found
  <2> QED
    BY <1>3
<1>5. PICK f \in found(i) : p = <<i, f>>
  BY <1>4
<1>6. f \in rs[i].entries /\ Usable(f, rs[i]) /\ p[1] = i /\ p[2] = f
  BY <1>5
<1> QED
  BY <1>2, <1>6

\* The table update_routing_table builds is true if the records are.
LEMMA RebuiltTrue ==
  ASSUME NEW h \in Hosts, RoutingInv
  PROVE  Rebuilt(h) \subseteq TrueEntries(h)
<1>1. userRoutes[h] \subseteq UserRoutes[h] /\ record[h] \in Seq(TrueRecords(h))
  BY DEF RoutingInv, UserRoutesAllowed, RecordsTrue
<1>2. OwnEntries(h, userRoutes[h]) \subseteq TrueEntries(h)
  BY <1>1, OwnEntriesTrue
<1>3. ASSUME NEW e \in Rebuilt(h), e \notin OwnEntries(h, userRoutes[h])
      PROVE  \E i \in DOMAIN record[h] : \E f \in record[h][i].entries :
                 Usable(f, record[h][i]) /\ e = Learned(f, record[h][i])
  BY <1>3, LearnedFromAnswers DEF Rebuilt
<1>4. ASSUME NEW i \in DOMAIN record[h], NEW f \in record[h][i].entries, Usable(f, record[h][i])
      PROVE  Learned(f, record[h][i]) \in TrueEntries(h)
  <2>1. record[h][i] \in TrueRecords(h)
    BY <1>1
  <2> QED
    BY <1>4, <2>1, LearnedTrue
<1> QED
  BY <1>2, <1>3, <1>4

\* A wire is true if each device is sent true frames.
LEMMA WireByDevice ==
  ASSUME NEW w, w = [d \in Devices |-> w[d]], \A d \in Devices : w[d] \in Seq(FramesTo(d))
  PROVE  TrueWire(w)
<1>1. ASSUME NEW d \in Devices PROVE w[d] \in Seq(UNION {FramesTo(e) : e \in Devices})
  <2>1. FramesTo(d) \subseteq UNION {FramesTo(e) : e \in Devices}
    OBVIOUS
  <2> DEFINE all == UNION {FramesTo(e) : e \in Devices}
  <2> HIDE DEF all
  <2>2. FramesTo(d) \subseteq all
    BY <2>1 DEF all
  <2>3. w[d] \in Seq(FramesTo(d))
    OBVIOUS
  <2>4. w[d] \in Seq(all)
    BY <2>2, <2>3
  <2> QED
    BY <2>4 DEF all
<1> QED
  BY <1>1 DEF TrueWire

\* A wire that gets true frames at its end, or loses its first frame, is true.
LEMMA WireTransmits ==
  ASSUME TrueWire(wire), NEW frames,
         \A d \in DOMAIN frames \cap Devices : frames[d] \in FramesTo(d)
  PROVE  TrueWire(Transmit(frames))
<1>1. ASSUME NEW d \in Devices PROVE Transmit(frames)[d] \in Seq(FramesTo(d))
  <2>1. wire[d] \in Seq(FramesTo(d))
    BY DEF TrueWire
  <2>2. CASE d \in DOMAIN frames /\ Hears(d)
    <3>1. frames[d] \in FramesTo(d)
      BY <2>2
    <3>2. Transmit(frames)[d] = Append(wire[d], frames[d])
      BY <2>2 DEF Transmit
    <3> QED
      BY <2>1, <3>1, <3>2
  <2>3. CASE ~(d \in DOMAIN frames /\ Hears(d))
    BY <2>1, <2>3 DEF Transmit
  <2> QED
    BY <2>2, <2>3
<1> QED
  BY <1>1, WireByDevice DEF Transmit

\* Taking a frame off the wire leaves true frames.
LEMMA WireReceives ==
  ASSUME NEW w, TrueWire(w), NEW d \in Devices, w[d] # <<>>
  PROVE  TrueWire(Received(w, d))
<1>1. ASSUME NEW e \in Devices PROVE Received(w, d)[e] \in Seq(FramesTo(e))
  <2>1. w[e] \in Seq(FramesTo(e)) /\ w[d] \in Seq(FramesTo(d)) /\ DOMAIN w = Devices
    BY DEF TrueWire
  <2>2. Tail(w[d]) \in Seq(FramesTo(d))
    BY <2>1
  <2> QED
    BY <2>1, <2>2 DEF Received
<1>2. Received(w, d) = [e \in Devices |-> Received(w, d)[e]]
  BY DEF Received, TrueWire
<1> QED
  BY <1>1, <1>2, WireByDevice

\* Requests, the first step of routing_routine
LEMMA RequestsKeep ==
  ASSUME RoutingInv, NEW h \in Hosts, SendRouteRequests(h)
  PROVE  RoutingInv'
<1> DEFINE asked == {Peer[o] : o \in ToSet(DevicesOf[h])}
           frames == [d \in asked |-> [op |-> "request", id |-> requestId[h]]]
<1>1. UNCHANGED <<table, record, userRoutes, requestId>> /\ wire' = Transmit(frames)
  BY DEF SendRouteRequests
<1>2. requestId[h] \in Nat
  BY DEF RoutingInv
<1>3. \A d \in DOMAIN frames \cap Devices : frames[d] \in FramesTo(d)
  BY <1>2 DEF FramesTo, Requests
<1>4. TrueWire(Transmit(frames))
  <2> HIDE DEF frames
  <2> QED
    BY <1>3, WireTransmits DEF RoutingInv
<1>5. TrueWire(wire')
  BY <1>1, <1>4
<1> QED
  BY <1>1, <1>5 DEF RoutingInv, TablesTrue, RecordsTrue, UserRoutesAllowed

\* The rebuilding of the table, which uses the records up
LEMMA UpdateKeeps ==
  ASSUME RoutingInv, NEW h \in Hosts, UpdateRoutingTable(h)
  PROVE  RoutingInv'
<1>1. /\ table' = [table EXCEPT ![h] = Rebuilt(h)] /\ record' = [record EXCEPT ![h] = <<>>]
      /\ UNCHANGED <<userRoutes, requestId, wire>>
  BY DEF UpdateRoutingTable, RecordCleared
<1>2. Rebuilt(h) \subseteq TrueEntries(h)
  BY RebuiltTrue
<1>3. TablesTrue'
  <2> DEFINE new == Rebuilt(h)
  <2> HIDE DEF new
  <2>1. new \subseteq TrueEntries(h) /\ table' = [table EXCEPT ![h] = new]
    BY <1>1, <1>2 DEF new
  <2>2. new \subseteq Entries
    BY <2>1 DEF TrueEntries
  <2> QED
    BY <2>1, <2>2 DEF RoutingInv, TablesTrue
<1>4. RecordsTrue'
  BY <1>1 DEF RoutingInv, RecordsTrue
<1> QED
  BY <1>1, <1>3, <1>4 DEF RoutingInv, UserRoutesAllowed

\* A request that is answered: what is on its way is the table, which is true.
LEMMA RequestArrivalKeeps ==
  ASSUME RoutingInv, NEW d \in Devices, RouteRequestArrives(d)
  PROVE  RoutingInv'
<1> DEFINE f == Head(wire[d])
<1>1. /\ UNCHANGED <<table, record, userRoutes, requestId>>
      /\ wire' = Received(Transmit(RouteReply(d, f)), d)
      /\ wire[d] # <<>> /\ f.op = "request" /\ up[Owner(d)]
  BY DEF RouteRequestArrives
<1>2. f \in FramesTo(d)
  BY <1>1 DEF RoutingInv, TrueWire
<1>3. f.id \in Nat
  BY <1>2 DEF FramesTo, Requests, TrueAnswers
<1>4. Owner(d) \in Hosts
  BY OwnerIsHost
<1>5. ASSUME NEW p \in DOMAIN RouteReply(d, f) \cap Devices
      PROVE  RouteReply(d, f)[p] \in FramesTo(p)
  <2>1. /\ p = Peer[d]
        /\ RouteReply(d, f)[p] = [op |-> "reply", id |-> f.id, from |-> d, to |-> p,
                                  entries |-> table[Owner(d)]]
    BY DEF RouteReply
  <2>2. Peer[d] # NoDevice
    BY <2>1, RoutingAssumption DEF Devices
  <2>3. d = Peer[p]
    BY <2>1, <2>2, PeersPaired
  <2>4. table[Owner(d)] \subseteq TrueEntries(Owner(d)) /\ table[Owner(d)] \in SUBSET Entries
    BY <1>4 DEF RoutingInv, TablesTrue
  <2> DEFINE entries == table[Owner(d)]
             r == [op |-> "reply", id |-> f.id, from |-> d, to |-> p, entries |-> entries]
  <2> HIDE DEF entries, f
  <2>5. entries \subseteq TrueEntries(Owner(d)) /\ entries \in SUBSET Entries
    BY <2>4 DEF entries
  <2>6. r \in TrueAnswers(p)
    BY <1>3, <2>3, <2>5 DEF TrueAnswers
  <2>7. RouteReply(d, f)[p] = r
    BY <2>1 DEF entries
  <2> QED
    BY <2>6, <2>7 DEF FramesTo
<1>6. TrueWire(Transmit(RouteReply(d, f)))
  <2> DEFINE frames == RouteReply(d, f)
  <2> HIDE DEF frames
  <2>1. \A p \in DOMAIN frames \cap Devices : frames[p] \in FramesTo(p)
    BY <1>5 DEF frames
  <2>2. TrueWire(Transmit(frames))
    BY <2>1, WireTransmits DEF RoutingInv
  <2> QED
    BY <2>2 DEF frames
<1>7. Transmit(RouteReply(d, f))[d] # <<>>
  <2>1. wire[d] \in Seq(FramesTo(d))
    BY DEF RoutingInv, TrueWire
  <2>2. Transmit(RouteReply(d, f))[d] \in {wire[d], Append(wire[d], RouteReply(d, f)[d])}
    BY DEF Transmit
  <2>3. \A x : Append(wire[d], x) # <<>>
    BY <2>1
  <2> QED
    BY <1>1, <2>2, <2>3
<1>8. TrueWire(Received(Transmit(RouteReply(d, f)), d))
  <2> DEFINE w == Transmit(RouteReply(d, f))
  <2> HIDE DEF w
  <2>1. TrueWire(w) /\ w[d] # <<>>
    BY <1>6, <1>7 DEF w
  <2>2. TrueWire(Received(w, d))
    BY <2>1, WireReceives
  <2> QED
    BY <2>2 DEF w
<1>9. TrueWire(wire')
  BY <1>1, <1>8
<1> QED
  BY <1>1, <1>9 DEF RoutingInv, TablesTrue, RecordsTrue, UserRoutesAllowed

\* An answer that is recorded or refused
LEMMA ReplyArrivalKeeps ==
  ASSUME RoutingInv, NEW d \in Devices, RouteReplyArrives(d)
  PROVE  RoutingInv'
<1> DEFINE f == Head(wire[d])
           h == Owner(d)
           kept == RecordAnswer(h, f)
<1>1. /\ UNCHANGED <<table, userRoutes, requestId>>
      /\ wire' = Received(wire, d) /\ record' = [record EXCEPT ![h] = kept]
      /\ wire[d] # <<>> /\ f.op = "reply"
  BY DEF RouteReplyArrives
<1>2. f \in FramesTo(d)
  BY <1>1 DEF RoutingInv, TrueWire
<1>3. h \in Hosts /\ d \in ToSet(DevicesOf[h])
  BY OwnerIsHost
<1>4. f \in TrueRecords(h)
  <2>1. f \in TrueAnswers(d)
    BY <1>1, <1>2 DEF FramesTo, Requests
  <2> QED
    BY <1>3, <2>1 DEF TrueRecords
<1>5. record[h] \in Seq(TrueRecords(h))
  BY <1>3 DEF RoutingInv, RecordsTrue
<1>6. kept \in Seq(TrueRecords(h))
  <2>1. kept \in {record[h], Append(record[h], f)}
    BY DEF RecordAnswer
  <2> QED
    BY <1>4, <1>5, <2>1
<1>7. RecordsTrue'
  <2> HIDE DEF h, kept
  <2>1. TrueRecords(h) \subseteq UNION {TrueRecords(g) : g \in Hosts}
    BY <1>3
  <2>2. kept \in Seq(UNION {TrueRecords(g) : g \in Hosts})
    BY <1>6, <2>1
  <2> QED
    BY <1>1, <1>3, <1>6, <2>2 DEF RoutingInv, RecordsTrue
<1>8. TrueWire(wire')
  <2>1. TrueWire(Received(wire, d))
    BY <1>1, WireReceives DEF RoutingInv
  <2> QED
    BY <1>1, <2>1
<1> QED
  BY <1>1, <1>7, <1>8 DEF RoutingInv, TablesTrue, UserRoutesAllowed

\* The user adds a route that is the user's to add.
LEMMA UserRouteKeeps ==
  ASSUME RoutingInv, NEW h \in Hosts, UserAddRoutingEntry(h)
  PROVE  RoutingInv'
<1>1. UNCHANGED <<table, record, requestId, wire>>
  BY DEF UserAddRoutingEntry
<1>2. PICK dest \in UserRoutes[h] : userRoutes' = [userRoutes EXCEPT ![h] = @ \cup {dest}]
  BY DEF UserAddRoutingEntry
<1>3. dest \in Nets
  BY DEF Nets
<1>4. UserRoutesAllowed'
  BY <1>2, <1>3 DEF RoutingInv, UserRoutesAllowed
<1> QED
  BY <1>1, <1>4 DEF RoutingInv, TablesTrue, RecordsTrue

\* A host that stops forgets, and what was on its way to it is lost.
LEMMA StopKeeps ==
  ASSUME RoutingInv, NEW h \in Hosts, StopRouter(h)
  PROVE  RoutingInv'
<1>1. /\ UNCHANGED <<userRoutes, requestId>>
      /\ table' = [table EXCEPT ![h] = {}] /\ record' = [record EXCEPT ![h] = <<>>]
      /\ wire' = [d \in Devices |-> IF Owner(d) = h THEN <<>> ELSE wire[d]]
  BY DEF StopRouter
<1>2. TablesTrue' /\ RecordsTrue'
  BY <1>1 DEF RoutingInv, TablesTrue, RecordsTrue
<1>3. TrueWire(wire')
  <2> DEFINE w == [d \in Devices |-> IF Owner(d) = h THEN <<>> ELSE wire[d]]
  <2>1. \A d \in Devices : wire[d] \in Seq(FramesTo(d))
    BY DEF RoutingInv, TrueWire
  <2>2. \A d \in Devices : w[d] \in Seq(FramesTo(d))
    BY <2>1
  <2>3. w = [d \in Devices |-> w[d]]
    OBVIOUS
  <2> HIDE DEF w
  <2>4. TrueWire(w)
    BY <2>2, <2>3, WireByDevice
  <2> QED
    BY <1>1, <2>4 DEF w
<1> QED
  BY <1>1, <1>2, <1>3 DEF RoutingInv, UserRoutesAllowed

\* It starts with what is its own.
LEMMA StartKeeps ==
  ASSUME RoutingInv, NEW h \in Hosts, StartRouter(h)
  PROVE  RoutingInv'
<1>1. /\ UNCHANGED <<record, wire>>
      /\ table' = [table EXCEPT ![h] = OwnEntries(h, {})]
      /\ userRoutes' = [userRoutes EXCEPT ![h] = {}]
      /\ requestId' = [requestId EXCEPT ![h] = 0]
  BY DEF StartRouter
<1>2. OwnEntries(h, {}) \subseteq TrueEntries(h)
  BY OwnEntriesTrue
<1>3. TablesTrue'
  <2> DEFINE new == OwnEntries(h, {})
  <2> HIDE DEF new
  <2>1. new \subseteq TrueEntries(h) /\ table' = [table EXCEPT ![h] = new]
    BY <1>1, <1>2 DEF new
  <2>2. new \subseteq Entries
    BY <2>1 DEF TrueEntries
  <2> QED
    BY <2>1, <2>2 DEF RoutingInv, TablesTrue
<1>4. UserRoutesAllowed' /\ requestId' \in [Hosts -> Nat]
  BY <1>1 DEF RoutingInv, UserRoutesAllowed
<1> QED
  BY <1>1, <1>3, <1>4 DEF RoutingInv, RecordsTrue

\* The next request has the next id.
LEMMA NextRoundKeeps ==
  ASSUME RoutingInv, NEW h \in Hosts, NextRound(h)
  PROVE  RoutingInv'
<1>1. /\ UNCHANGED <<table, record, userRoutes, wire>>
      /\ requestId' = [requestId EXCEPT ![h] = (@ + 1) % RequestIds]
  BY DEF NextRound
<1>2. requestId' \in [Hosts -> Nat]
  <2>1. requestId[h] \in Nat /\ RequestIds \in Nat \ {0}
    BY RoutingAssumption DEF RoutingInv
  <2>2. (requestId[h] + 1) % RequestIds \in Nat
    BY <2>1
  <2> QED
    BY <1>1, <2>2 DEF RoutingInv
<1> QED
  BY <1>1, <1>2 DEF RoutingInv, TablesTrue, RecordsTrue, UserRoutesAllowed

\* At first every table is the host's own and nothing is on its way.
LEMMA RoutingStarts ==
  RoutingInit => RoutingInv
<1> SUFFICES ASSUME RoutingInit PROVE RoutingInv
  OBVIOUS
<1>1. \A h \in Hosts : OwnEntries(h, {}) \subseteq TrueEntries(h)
  BY OwnEntriesTrue
<1>2. \A h \in Hosts : TrueEntries(h) \subseteq Entries
  BY DEF TrueEntries
<1>3. TablesTrue
  BY <1>1, <1>2 DEF RoutingInit, TablesTrue
<1>4. RecordsTrue /\ UserRoutesAllowed /\ requestId \in [Hosts -> Nat]
  BY DEF RoutingInit, RecordsTrue, UserRoutesAllowed
<1>5. TrueWire(wire)
  <2>1. wire = [d \in Devices |-> wire[d]] /\ \A d \in Devices : wire[d] \in Seq(FramesTo(d))
    BY DEF RoutingInit
  <2> QED
    BY <2>1, WireByDevice
<1> QED
  BY <1>3, <1>4, <1>5 DEF RoutingInv

\* Every step keeps what is promised true.
LEMMA RoutingKeeps ==
  RoutingInv /\ [RoutingNext]_RoutingVars => RoutingInv'
<1> SUFFICES ASSUME RoutingInv, [RoutingNext]_RoutingVars PROVE RoutingInv'
  OBVIOUS
<1>1. CASE UNCHANGED RoutingVars
  BY <1>1 DEF RoutingVars, RoutingInv, TablesTrue, RecordsTrue, UserRoutesAllowed
<1>2. ASSUME NEW h \in Hosts,
             RoutingRoutine(h) \/ UserAddRoutingEntry(h) \/ StopRouter(h) \/ StartRouter(h)
      PROVE  RoutingInv'
  BY <1>2, RequestsKeep, UpdateKeeps, NextRoundKeeps, UserRouteKeeps, StopKeeps, StartKeeps
     DEF RoutingRoutine
<1>3. ASSUME NEW d \in Devices, RouteFrameHandler(d) PROVE RoutingInv'
  BY <1>3, RequestArrivalKeeps, ReplyArrivalKeeps DEF RouteFrameHandler
<1> QED
  BY <1>1, <1>2, <1>3 DEF RoutingNext

\* For any hosts, however they are linked, however often they stop and start
\* again, add routes or answer late: no table promises a path shorter than the
\* network has, to a network nobody could own, update_routing_table of
\* network/routing.c.
THEOREM DistancesTrue ==
  RoutingSpec => []NoShortcut
<1>1. RoutingInv => NoShortcut
  <2> SUFFICES ASSUME RoutingInv, NEW h \in RunningHosts, NEW e \in table[h]
               PROVE  \E g \in Within(h, e.distance) : e.net \in MayOwn(g)
    BY DEF NoShortcut
  <2>1. h \in Hosts /\ e \in TrueEntries(h)
    BY DEF RunningHosts, RoutingInv, TablesTrue
  <2>2. PICK w : StandsFor(h, e, w)
    BY <2>1 DEF TrueEntries
  <2>3. HostAt(h, w, Len(w)) \in Within(h, e.distance)
    BY <2>1, <2>2, WayWithin DEF StandsFor
  <2> QED
    BY <2>2, <2>3 DEF StandsFor
<1> QED
  BY <1>1, RoutingStarts, RoutingKeeps, PTL DEF RoutingSpec

\* Where the links make no cycle, split horizon does avoid counting to infinity,
\* whatever hosts stop and start and however late answers come: no route is as
\* long as there are hosts.  The check of dest_mac in update_routing_table keeps a
\* host from learning back what it told, so the way an entry stands for never
\* turns round.
THEOREM SplitHorizonSuffices ==
  ASSUME IsFiniteSet(Hosts), NoCycle
  PROVE  RoutingSpec => []NoCountToInfinity
<1>1. RoutingInv => NoCountToInfinity
  <2> SUFFICES ASSUME RoutingInv, NEW h \in RunningHosts, NEW e \in table[h]
               PROVE  e.distance < Cardinality(Hosts)
    BY DEF NoCountToInfinity
  <2>1. h \in Hosts /\ e \in TrueEntries(h)
    BY DEF RunningHosts, RoutingInv, TablesTrue
  <2>2. PICK w : StandsFor(h, e, w)
    BY <2>1 DEF TrueEntries
  <2>3. Len(w) < Cardinality(Hosts)
    BY <2>1, <2>2, WaysShort DEF StandsFor
  <2> QED
    BY <2>2, <2>3 DEF StandsFor
<1> QED
  BY <1>1, RoutingStarts, RoutingKeeps, PTL DEF RoutingSpec

-----------------------------------------------------------------------------
(***************************************************************************)
(* How many answers are recorded                                           *)
(***************************************************************************)

Ids == 0 .. RequestIds - 1

\* A frame with what the invariant has to know of it: the restarts there had
\* been when its request was sent.
Marks == [op : {"request", "reply"}, id : Ids, label : Nat]

\* What stands on the wires of all devices
Wires(X) == [Devices -> Seq(X)]

\* Do the marks m stand for the frames of wire w?
Marked(w, m) ==
    /\ m \in Wires(Marks)
    /\ \A d \in Devices :
        /\ Len(m[d]) = Len(w[d])
        /\ \A i \in DOMAIN m[d] : m[d][i].op = w[d][i].op /\ m[d][i].id = w[d][i].id

\* Requests of one host: x before y.  Between two restarts no id comes twice.
Before(x, y) == x.label <= y.label /\ (x.label = y.label => x.id # y.id)

\* The answers on their way to device d, and the requests it sent
AnswersTo(m, d) == {i \in DOMAIN m[d] : m[d][i].op = "reply"}
RequestsOf(m, d) ==
    IF Peer[d] \in Devices THEN {i \in DOMAIN m[Peer[d]] : m[Peer[d]][i].op = "request"} ELSE {}

\* What device d asked for and may still get
Pending(m, d) == {m[d][i] : i \in AnswersTo(m, d)} \cup {m[Peer[d]][i] : i \in RequestsOf(m, d)}

\* The answers come in the order of the requests, and before those to come.
InOrder(m, d) ==
    /\ \A i, j \in AnswersTo(m, d) : i < j => Before(m[d][i], m[d][j])
    /\ \A i, j \in RequestsOf(m, d) : i < j => Before(m[Peer[d]][i], m[Peer[d]][j])
    /\ \A i \in AnswersTo(m, d), j \in RequestsOf(m, d) : Before(m[d][i], m[Peer[d]][j])

\* How many rounds ago host h had this id
Age(h, id) == IF id <= requestId[h] THEN requestId[h] - id ELSE requestId[h] - id + RequestIds

\* A request since the last restart is as old as answers were late.
RecentRequest(h, x) ==
    /\ Age(h, x.id) <= late
    /\ phase[h] = "asking" => Age(h, x.id) > 0
    /\ phase[h] = "rebuilt" => Age(h, x.id) < late

\* The answer to x, should it be recorded, has a rank above n.
RanksAbove(h, n, x) ==
    /\ phase[h] = "rebuilt" => n <= x.label /\ (x.id = requestId[h] => n < x.label)
    /\ phase[h] # "rebuilt" => (x.id = requestId[h] => n <= x.label)

\* What may be said of a request x of device d, when the answers recorded have
\* the ranks r
MarkOK(r, d, x) ==
    /\ x.label <= restarts
    /\ x.label = restarts => RecentRequest(Owner(d), x)
    /\ \A k \in DOMAIN record[Owner(d)] :
           record[Owner(d)][k].to = d => RanksAbove(Owner(d), r[Owner(d)][k], x)

PendingOK(m, r, d) == \A x \in Pending(m, d) : MarkOK(r, d, x)

\* The ranks of the answers recorded: the label of the request, one more if
\* its id was new in this round.  For one device they increase.
Ranked(r) ==
    /\ r \in [Hosts -> Seq(Nat)]
    /\ \A h \in Hosts :
        /\ Len(r[h]) = Len(record[h])
        /\ \A i, j \in DOMAIN record[h] :
               i < j /\ record[h][i].to = record[h][j].to => r[h][i] < r[h][j]
        /\ \A i \in DOMAIN record[h] :
               r[h][i] <= restarts + (IF phase[h] = "waiting" THEN 1 ELSE 0)

Phases == {"asking", "waiting", "rebuilt"}

RoundsTypeOK ==
    /\ requestId \in [Hosts -> Ids] /\ phase \in [Hosts -> Phases] /\ up \in [Hosts -> BOOLEAN]
    /\ restarts \in Nat /\ late \in Nat
    /\ world \in Worlds /\ late <= world.late

\* Nothing is kept by a host that does not run, or on its way to it.
DownEmpty ==
    \A h \in Hosts : ~up[h] =>
        record[h] = <<>> /\ \A d \in ToSet(DevicesOf[h]) : wire[d] = <<>>

Accounts(m, r) ==
    /\ Marked(wire, m) /\ Ranked(r)
    /\ \A d \in Devices : InOrder(m, d) /\ PendingOK(m, r, d)

RoundsInv == RoundsTypeOK /\ DownEmpty /\ \E m, r : Accounts(m, r)

-----------------------------------------------------------------------------
\* The ages of the ids
LEMMA AgesOfIds ==
  ASSUME NEW h \in Hosts, requestId[h] \in Ids, NEW id \in Ids
  PROVE  /\ Age(h, id) \in Ids
         /\ Age(h, id) = 0 <=> id = requestId[h]
BY RoutingAssumption DEF Ids, Age

\* A wire with x sent to the devices in S
Sent(w, S, x) == [d \in Devices |-> IF d \in S THEN Append(w[d], x) ELSE w[d]]

\* Of v became n when z was sent to S: at device g it stands behind what was there.
StandsBehind(v, n, S, z, g) ==
    /\ DOMAIN v[g] \subseteq DOMAIN n[g]
    /\ \A i \in DOMAIN v[g] : n[g][i] = v[g][i]
    /\ \A i \in DOMAIN n[g] : \/ i \in DOMAIN v[g]
                              \/ g \in S /\ i = Len(v[g]) + 1 /\ n[g][i] = z
    /\ Len(n[g]) = Len(v[g]) + (IF g \in S THEN 1 ELSE 0)

\* Of v became n when device e received a frame: what was behind it moved up.
MovesUp(v, n, e, g) ==
    /\ Len(n[g]) = Len(v[g]) - (IF g = e THEN 1 ELSE 0)
    /\ \A i \in DOMAIN n[g] : LET k == i + (IF g = e THEN 1 ELSE 0) IN
           k \in DOMAIN v[g] /\ n[g][i] = v[g][k]

\* Sending adds at the end.
LEMMA SentAt ==
  ASSUME NEW X, NEW w \in Wires(X), NEW S, NEW x \in X, NEW g \in Devices
  PROVE  Sent(w, S, x) \in Wires(X) /\ StandsBehind(w, Sent(w, S, x), S, x, g)
<1>1. ASSUME NEW e \in Devices PROVE Sent(w, S, x)[e] \in Seq(X)
  BY DEF Sent, Wires
<1>2. Sent(w, S, x) \in Wires(X)
  BY <1>1 DEF Sent, Wires
<1>3. CASE g \in S
  <2>1. Sent(w, S, x)[g] = Append(w[g], x)
    BY <1>3 DEF Sent
  <2>2. w[g] \in Seq(X)
    BY DEF Wires
  <2> QED
    BY <1>2, <1>3, <2>1, <2>2 DEF StandsBehind
<1>4. CASE g \notin S
  <2>1. Sent(w, S, x)[g] = w[g]
    BY <1>4 DEF Sent
  <2>2. w[g] \in Seq(X)
    BY DEF Wires
  <2> QED
    BY <1>2, <1>4, <2>1, <2>2 DEF StandsBehind
<1> QED
  BY <1>3, <1>4

\* Receiving takes the first.
LEMMA ReceivedAt ==
  ASSUME NEW X, NEW w \in Wires(X), NEW e \in Devices, w[e] # <<>>, NEW g \in Devices
  PROVE  Received(w, e) \in Wires(X) /\ MovesUp(w, Received(w, e), e, g)
<1>1. w[e] \in Seq(X) /\ Tail(w[e]) \in Seq(X)
  BY DEF Wires
<1>2. Received(w, e) \in Wires(X)
  BY <1>1 DEF Received, Wires
<1>3. CASE g = e
  <2>1. Received(w, e)[g] = Tail(w[e])
    BY <1>3 DEF Received, Wires
  <2> QED
    BY <1>1, <1>2, <1>3, <2>1 DEF MovesUp
<1>4. CASE g # e
  <2>1. Received(w, e)[g] = w[g] /\ w[g] \in Seq(X)
    BY <1>4 DEF Received, Wires
  <2> QED
    BY <1>2, <1>4, <2>1 DEF MovesUp
<1> QED
  BY <1>3, <1>4

\* Marks of a wire remain its marks if the same becomes of both.
LEMMA MarksOfSent ==
  ASSUME NEW X, NEW w \in Wires(X), NEW m, Marked(w, m), NEW S,
         NEW f \in X, NEW x \in Marks, x.op = f.op, x.id = f.id
  PROVE  Marked(Sent(w, S, f), Sent(m, S, x))
<1>1. m \in Wires(Marks)
  BY DEF Marked
<1>a. \A g \in Devices : Sent(m, S, x) \in Wires(Marks) /\ StandsBehind(m, Sent(m, S, x), S, x, g)
  BY <1>1, SentAt
<1>b. \A g \in Devices : StandsBehind(w, Sent(w, S, f), S, f, g)
  BY SentAt
<1>2. ASSUME NEW d \in Devices
      PROVE  /\ Len(Sent(m, S, x)[d]) = Len(Sent(w, S, f)[d])
             /\ Sent(m, S, x) \in Wires(Marks)
  <2>1. Len(m[d]) = Len(w[d])
    BY DEF Marked
  <2> QED
    BY <1>1, <1>a, <1>b, <2>1 DEF StandsBehind
<1>3. ASSUME NEW d \in Devices, NEW i \in DOMAIN Sent(m, S, x)[d]
      PROVE  /\ Sent(m, S, x)[d][i].op = Sent(w, S, f)[d][i].op
             /\ Sent(m, S, x)[d][i].id = Sent(w, S, f)[d][i].id
  <2>1. m[d] \in Seq(Marks) /\ w[d] \in Seq(X) /\ Len(m[d]) = Len(w[d])
    BY <1>1 DEF Marked, Wires
  <2>2. CASE i \in DOMAIN m[d]
    <3>1. i \in DOMAIN w[d]
      BY <2>1, <2>2
    <3>2. Sent(m, S, x)[d][i] = m[d][i]
      BY <1>a, <2>2 DEF StandsBehind
    <3>3. Sent(w, S, f)[d][i] = w[d][i]
      BY <1>b, <3>1 DEF StandsBehind
    <3> QED
      BY <2>2, <3>2, <3>3 DEF Marked
  <2>3. CASE i \notin DOMAIN m[d]
    <3>1. d \in S /\ i = Len(m[d]) + 1 /\ Sent(m, S, x)[d][i] = x
      BY <1>a, <2>3 DEF StandsBehind
    <3>2. Sent(w, S, f)[d] = Append(w[d], f)
      BY <3>1 DEF Sent
    <3>3. Sent(w, S, f)[d][i] = f
      BY <2>1, <3>1, <3>2
    <3> QED
      BY <3>1, <3>3
  <2> QED
    BY <2>2, <2>3
<1>4. Sent(m, S, x) \in Wires(Marks)
  <2>1. \A d \in Devices : Sent(m, S, x)[d] \in Seq(Marks)
    BY <1>1 DEF Sent, Wires
  <2> QED
    BY <2>1 DEF Sent, Wires
<1> QED
  BY <1>2, <1>3, <1>4 DEF Marked

\* So they do when a device receives the same of both.
LEMMA MarksOfReceived ==
  ASSUME NEW X, NEW w \in Wires(X), NEW m, Marked(w, m),
         NEW e \in Devices, w[e] # <<>>
  PROVE  Marked(Received(w, e), Received(m, e)) /\ m[e] # <<>>
<1>1. m \in Wires(Marks) /\ \A d \in Devices : Len(m[d]) = Len(w[d])
  BY DEF Marked
<1>2. m[e] # <<>>
  <2>1. w[e] \in Seq(X) /\ m[e] \in Seq(Marks) /\ Len(m[e]) = Len(w[e])
    BY <1>1 DEF Wires
  <2> QED
    BY <2>1
<1>a. \A g \in Devices : Received(m, e) \in Wires(Marks) /\ MovesUp(m, Received(m, e), e, g)
  BY <1>1, <1>2, ReceivedAt
<1>b. \A g \in Devices : Received(w, e) \in Wires(X) /\ MovesUp(w, Received(w, e), e, g)
  BY ReceivedAt
<1>c. Received(m, e) \in Wires(Marks) /\ Received(w, e) \in Wires(X)
  BY <1>a, <1>b
<1>3. ASSUME NEW d \in Devices PROVE Len(Received(m, e)[d]) = Len(Received(w, e)[d])
  <2>1. Len(Received(m, e)[d]) = Len(m[d]) - (IF d = e THEN 1 ELSE 0)
    BY <1>a DEF MovesUp
  <2>2. Len(Received(w, e)[d]) = Len(w[d]) - (IF d = e THEN 1 ELSE 0)
    BY <1>b DEF MovesUp
  <2>3. Len(m[d]) = Len(w[d])
    BY <1>1
  <2> QED
    BY <2>1, <2>2, <2>3
<1>4. ASSUME NEW d \in Devices, NEW i \in DOMAIN Received(m, e)[d]
      PROVE  /\ Received(m, e)[d][i].op = Received(w, e)[d][i].op
             /\ Received(m, e)[d][i].id = Received(w, e)[d][i].id
  <2> DEFINE s == IF d = e THEN 1 ELSE 0
  <2>1. i + s \in DOMAIN m[d] /\ Received(m, e)[d][i] = m[d][i + s]
    BY <1>a DEF MovesUp
  <2>2. i \in DOMAIN Received(w, e)[d]
    <3>1. Received(m, e)[d] \in Seq(Marks) /\ Received(w, e)[d] \in Seq(X)
      BY <1>c DEF Wires
    <3> QED
      BY <1>3, <3>1
  <2>3. Received(w, e)[d][i] = w[d][i + s]
    BY <1>b, <2>2 DEF MovesUp
  <2> HIDE DEF s
  <2> QED
    BY <2>1, <2>3 DEF Marked
<1> QED
  BY <1>2, <1>3, <1>4, <1>c DEF Marked

\* What is pending are marks.
LEMMA PendingMarks ==
  ASSUME NEW m \in Wires(Marks), NEW d \in Devices
  PROVE  Pending(m, d) \subseteq Marks
<1>1. \A e \in Devices : \A i \in DOMAIN m[e] : m[e][i] \in Marks
  BY DEF Wires
<1> QED
  BY <1>1 DEF Pending, AnswersTo, RequestsOf

\* Receiving keeps the order.
LEMMA ReceivedInOrder ==
  ASSUME NEW m \in Wires(Marks), NEW e \in Devices, m[e] # <<>>, NEW d \in Devices, InOrder(m, d)
  PROVE  InOrder(Received(m, e), d) /\ Pending(Received(m, e), d) \subseteq Pending(m, d)
<1> DEFINE n == Received(m, e)
           up1(g) == IF g = e THEN 1 ELSE 0
<1>1. ASSUME NEW g \in Devices, NEW i \in DOMAIN n[g]
      PROVE  i \in Int /\ i + up1(g) \in DOMAIN m[g] /\ n[g][i] = m[g][i + up1(g)]
  <2>1. n \in Wires(Marks) /\ MovesUp(m, n, e, g)
    BY ReceivedAt
  <2>2. n[g] \in Seq(Marks)
    BY <2>1 DEF Wires
  <2>3. i \in Int
    BY <2>2
  <2> QED
    BY <2>1, <2>3 DEF MovesUp
<1>2. \A g \in Devices : up1(g) \in {0, 1}
  OBVIOUS
<1> HIDE DEF n, up1
<1>3. ASSUME NEW i \in AnswersTo(n, d)
      PROVE  i \in Int /\ i + up1(d) \in AnswersTo(m, d) /\ n[d][i] = m[d][i + up1(d)]
  BY <1>1 DEF AnswersTo
<1>4. ASSUME NEW i \in RequestsOf(n, d)
      PROVE  /\ Peer[d] \in Devices /\ i \in Int
             /\ i + up1(Peer[d]) \in RequestsOf(m, d) /\ n[Peer[d]][i] = m[Peer[d]][i + up1(Peer[d])]
  BY <1>1 DEF RequestsOf
<1>5. ASSUME NEW i \in AnswersTo(n, d), NEW j \in AnswersTo(n, d), i < j PROVE Before(n[d][i], n[d][j])
  <2>1. i + up1(d) < j + up1(d)
    BY <1>2, <1>3, <1>5
  <2> QED
    BY <1>3, <2>1 DEF InOrder
<1>6. ASSUME NEW i \in RequestsOf(n, d), NEW j \in RequestsOf(n, d), i < j
      PROVE  Before(n[Peer[d]][i], n[Peer[d]][j])
  <2>1. i + up1(Peer[d]) < j + up1(Peer[d])
    BY <1>2, <1>4, <1>6
  <2> QED
    BY <1>4, <2>1 DEF InOrder
<1>7. ASSUME NEW i \in AnswersTo(n, d), NEW j \in RequestsOf(n, d) PROVE Before(n[d][i], n[Peer[d]][j])
  BY <1>3, <1>4 DEF InOrder
<1>8. Pending(n, d) \subseteq Pending(m, d)
  BY <1>3, <1>4 DEF Pending
<1> QED
  BY <1>5, <1>6, <1>7, <1>8 DEF InOrder, n

\* An answer comes after those before it, and before those to come.
LEMMA AnswerInOrder ==
  ASSUME NEW m \in Wires(Marks), NEW S, NEW x \in Marks, x.op = "reply",
         NEW d \in Devices, InOrder(m, d),
         d \in S => /\ \A i \in AnswersTo(m, d) : Before(m[d][i], x)
                    /\ \A j \in RequestsOf(m, d) : Before(x, m[Peer[d]][j])
  PROVE  /\ InOrder(Sent(m, S, x), d)
         /\ Pending(Sent(m, S, x), d) \subseteq Pending(m, d) \cup {x}
         /\ d \notin S => Pending(Sent(m, S, x), d) \subseteq Pending(m, d)
<1> DEFINE n == Sent(m, S, x)
<1>1. \A g \in Devices : n \in Wires(Marks) /\ StandsBehind(m, n, S, x, g)
  BY SentAt
<1>2. \A g \in Devices : n[g] \in Seq(Marks) /\ m[g] \in Seq(Marks)
  BY <1>1 DEF Wires
<1> HIDE DEF n
<1>3. ASSUME NEW i \in AnswersTo(n, d)
      PROVE  \/ i \in AnswersTo(m, d) /\ n[d][i] = m[d][i]
             \/ d \in S /\ i = Len(m[d]) + 1 /\ n[d][i] = x
  BY <1>1 DEF AnswersTo, StandsBehind
<1>4. ASSUME NEW i \in RequestsOf(n, d)
      PROVE  Peer[d] \in Devices /\ i \in RequestsOf(m, d) /\ n[Peer[d]][i] = m[Peer[d]][i]
  <2>1. Peer[d] \in Devices /\ i \in DOMAIN n[Peer[d]] /\ n[Peer[d]][i].op = "request"
    BY DEF RequestsOf
  <2>2. i \in DOMAIN m[Peer[d]] /\ n[Peer[d]][i] = m[Peer[d]][i]
    BY <1>1, <2>1 DEF StandsBehind
  <2> QED
    BY <2>1, <2>2 DEF RequestsOf
<1>5. ASSUME NEW i \in AnswersTo(n, d), NEW j \in AnswersTo(n, d), i < j PROVE Before(n[d][i], n[d][j])
  <2>1. i \in DOMAIN n[d] /\ j \in DOMAIN n[d] /\ i \in Int /\ j \in Int
    BY <1>2 DEF AnswersTo
  <2>2. j <= Len(m[d]) + 1
    <3>1. Len(n[d]) = Len(m[d]) + (IF d \in S THEN 1 ELSE 0)
      BY <1>1 DEF StandsBehind
    <3>4. Len(n[d]) \in Nat /\ Len(m[d]) \in Nat
      BY <1>2
    <3> DEFINE ln == Len(n[d])
               lm == Len(m[d])
    <3> HIDE DEF ln, lm
    <3>5. ln \in Nat /\ lm \in Nat /\ (ln = lm + 1 \/ ln = lm + 0)
      BY <3>1, <3>4 DEF ln, lm
    <3>2. ln <= lm + 1 /\ ln \in Nat /\ lm \in Nat
      BY <3>5
    <3>3. j <= Len(n[d])
      BY <1>2, <2>1
    <3> QED
      BY <2>1, <3>2, <3>3 DEF ln, lm
  <2>3. i \in AnswersTo(m, d) /\ n[d][i] = m[d][i]
    BY <1>2, <1>3, <1>5, <2>1, <2>2
  <2> QED
    BY <1>3, <1>5, <2>3 DEF InOrder
<1>6. ASSUME NEW i \in RequestsOf(n, d), NEW j \in RequestsOf(n, d), i < j
      PROVE  Before(n[Peer[d]][i], n[Peer[d]][j])
  BY <1>4, <1>6 DEF InOrder
<1>7. ASSUME NEW i \in AnswersTo(n, d), NEW j \in RequestsOf(n, d) PROVE Before(n[d][i], n[Peer[d]][j])
  BY <1>3, <1>4 DEF InOrder
<1>8. Pending(n, d) \subseteq Pending(m, d) \cup {x}
  BY <1>3, <1>4 DEF Pending
<1>9. d \notin S => Pending(n, d) \subseteq Pending(m, d)
  BY <1>3, <1>4 DEF Pending
<1> QED
  BY <1>5, <1>6, <1>7, <1>8, <1>9 DEF InOrder, n

\* A request comes after all there is of its device.
LEMMA RequestInOrder ==
  ASSUME NEW m \in Wires(Marks), NEW S, NEW x \in Marks, x.op = "request",
         NEW d \in Devices, InOrder(m, d),
         Peer[d] \in S => \A y \in Pending(m, d) : Before(y, x)
  PROVE  /\ InOrder(Sent(m, S, x), d)
         /\ Pending(Sent(m, S, x), d) \subseteq Pending(m, d) \cup {x}
         /\ Peer[d] \notin S => Pending(Sent(m, S, x), d) \subseteq Pending(m, d)
<1> DEFINE n == Sent(m, S, x)
<1>1. \A g \in Devices : n \in Wires(Marks) /\ StandsBehind(m, n, S, x, g)
  BY SentAt
<1>2. \A g \in Devices : n[g] \in Seq(Marks) /\ m[g] \in Seq(Marks)
  BY <1>1 DEF Wires
<1> HIDE DEF n
<1>3. ASSUME NEW i \in AnswersTo(n, d) PROVE i \in AnswersTo(m, d) /\ n[d][i] = m[d][i]
  BY <1>1 DEF AnswersTo, StandsBehind
<1>4. ASSUME NEW i \in RequestsOf(n, d)
      PROVE  /\ Peer[d] \in Devices
             /\ \/ i \in RequestsOf(m, d) /\ n[Peer[d]][i] = m[Peer[d]][i]
                \/ Peer[d] \in S /\ i = Len(m[Peer[d]]) + 1 /\ n[Peer[d]][i] = x
  <2>1. Peer[d] \in Devices /\ i \in DOMAIN n[Peer[d]] /\ n[Peer[d]][i].op = "request"
    BY DEF RequestsOf
  <2>2. \/ i \in DOMAIN m[Peer[d]] /\ n[Peer[d]][i] = m[Peer[d]][i]
        \/ Peer[d] \in S /\ i = Len(m[Peer[d]]) + 1 /\ n[Peer[d]][i] = x
    BY <1>1, <2>1 DEF StandsBehind
  <2> QED
    BY <2>1, <2>2 DEF RequestsOf
<1>5. ASSUME NEW i \in AnswersTo(n, d), NEW j \in AnswersTo(n, d), i < j PROVE Before(n[d][i], n[d][j])
  BY <1>3, <1>5 DEF InOrder
<1>6. ASSUME NEW i \in RequestsOf(n, d), NEW j \in RequestsOf(n, d), i < j
      PROVE  Before(n[Peer[d]][i], n[Peer[d]][j])
  <2> DEFINE p == Peer[d]
  <2>1. p \in Devices /\ i \in DOMAIN n[p] /\ j \in DOMAIN n[p]
    BY <1>4 DEF RequestsOf
  <2>2. n[p] \in Seq(Marks) /\ m[p] \in Seq(Marks) /\ i \in Int /\ j \in Int
    BY <1>2, <2>1
  <2>3. j <= Len(m[p]) + 1
    <3>1. Len(n[p]) = Len(m[p]) + (IF p \in S THEN 1 ELSE 0)
      BY <1>1, <2>1 DEF StandsBehind
    <3>4. Len(n[p]) \in Nat /\ Len(m[p]) \in Nat
      BY <2>2
    <3> DEFINE ln == Len(n[p])
               lm == Len(m[p])
    <3> HIDE DEF ln, lm
    <3>5. ln \in Nat /\ lm \in Nat /\ (ln = lm + 1 \/ ln = lm + 0)
      BY <3>1, <3>4 DEF ln, lm
    <3>2. ln <= lm + 1 /\ ln \in Nat /\ lm \in Nat
      BY <3>5
    <3>3. j <= Len(n[p])
      BY <2>1, <2>2
    <3> QED
      BY <2>2, <3>2, <3>3 DEF ln, lm
  <2>4. i \in RequestsOf(m, d) /\ n[p][i] = m[p][i]
    BY <1>4, <1>6, <2>2, <2>3
  <2>5. CASE j \in RequestsOf(m, d) /\ n[p][j] = m[p][j]
    BY <1>6, <2>4, <2>5 DEF InOrder
  <2>6. CASE p \in S /\ n[p][j] = x
    BY <2>4, <2>6 DEF Pending
  <2> QED
    BY <1>4, <2>5, <2>6
<1>7. ASSUME NEW i \in AnswersTo(n, d), NEW j \in RequestsOf(n, d) PROVE Before(n[d][i], n[Peer[d]][j])
  <2>1. CASE j \in RequestsOf(m, d) /\ n[Peer[d]][j] = m[Peer[d]][j]
    BY <1>3, <2>1 DEF InOrder
  <2>2. CASE Peer[d] \in S /\ n[Peer[d]][j] = x
    BY <1>3, <2>2 DEF Pending
  <2> QED
    BY <1>4, <2>1, <2>2
<1>8. Pending(n, d) \subseteq Pending(m, d) \cup {x}
  BY <1>3, <1>4 DEF Pending
<1>9. Peer[d] \notin S => Pending(n, d) \subseteq Pending(m, d)
  BY <1>3, <1>4 DEF Pending
<1> QED
  BY <1>5, <1>6, <1>7, <1>8, <1>9 DEF InOrder, n

AllFrames == UNION {FramesTo(d) : d \in Devices}

\* What is on the wire
LEMMA WireTyped ==
  ASSUME RoutingInv
  PROVE  wire \in Wires(AllFrames) /\ \A d \in Devices : wire[d] \in Seq(FramesTo(d))
BY DEF RoutingInv, TrueWire, Wires, AllFrames

\* Requests of all devices of a host
LEMMA RequestsAccounted ==
  ASSUME RoutingInv, RoundsInv, NEW h \in Hosts, SendRouteRequests(h)
  PROVE  RoundsInv'
<1> DEFINE asked == {Peer[o] : o \in ToSet(DevicesOf[h])}
           f == [op |-> "request", id |-> requestId[h]]
           frames == [d \in asked |-> f]
           S == {d \in asked : Hears(d)}
<1>1. /\ up[h] /\ phase[h] = "asking" /\ wire' = Transmit(frames)
      /\ phase' = [phase EXCEPT ![h] = "waiting"]
      /\ UNCHANGED <<record, requestId, up, world, restarts, late>>
  BY DEF SendRouteRequests
<1>2. RoundsTypeOK /\ DownEmpty
  BY DEF RoundsInv
<1>3. PICK m, r : Accounts(m, r)
  BY DEF RoundsInv
<1>a. requestId[h] \in Ids /\ restarts \in Nat
  BY <1>2 DEF RoundsTypeOK
<1>b. PICK x \in Marks : x.op = "request" /\ x.id = requestId[h] /\ x.label = restarts
  <2>1. [op |-> "request", id |-> requestId[h], label |-> restarts] \in Marks
    BY <1>a DEF Marks
  <2> QED
    BY <2>1
<1>c. PICK n : n = Sent(m, S, x)
  OBVIOUS
<1>4. requestId[h] \in Ids /\ restarts \in Nat /\ x \in Marks
  BY <1>a
<1>5. wire' = Sent(wire, S, f)
  <2>1. DOMAIN frames = asked /\ \A d \in asked : frames[d] = f
    OBVIOUS
  <2> HIDE DEF frames, f, asked
  <2> QED
    BY <1>1, <2>1 DEF Transmit, Sent
<1>6. f \in Requests
  BY <1>4 DEF Requests, Ids
<1>7. Marked(wire', n)
  <2>1. wire \in Wires(AllFrames) /\ Marked(wire, m)
    BY <1>3, WireTyped DEF Accounts
  <2>2. CASE Devices = {}
    BY <1>5, <1>c, <2>1, <2>2 DEF Marked, Wires, Sent
  <2>3. CASE Devices # {}
    <3>1. f \in AllFrames
      BY <1>6, <2>3 DEF AllFrames, FramesTo
    <3>2. x.op = f.op /\ x.id = f.id
      BY <1>b
    <3> HIDE DEF f, S
    <3>3. Marked(Sent(wire, S, f), Sent(m, S, x))
      BY <1>4, <2>1, <3>1, <3>2, MarksOfSent
    <3> QED
      BY <1>5, <1>c, <3>3
  <2> QED
    BY <2>2, <2>3
<1>8. /\ m \in Wires(Marks)
      /\ \A d \in Devices : InOrder(m, d) /\ PendingOK(m, r, d) /\ Pending(m, d) \subseteq Marks
  <2>1. m \in Wires(Marks) /\ \A d \in Devices : InOrder(m, d) /\ PendingOK(m, r, d)
    BY <1>3 DEF Accounts, Marked
  <2> QED
    BY <2>1, PendingMarks
<1>9. ASSUME NEW d \in Devices, Peer[d] \in S PROVE Owner(d) = h
  <2>1. PICK o \in ToSet(DevicesOf[h]) : Peer[d] = Peer[o]
    BY <1>9
  <2>2. o \in Devices /\ Owner(o) = h /\ Peer[d] # NoDevice
    BY <1>9, OwnerIsHost DEF Hears
  <2>3. d = o
    BY <2>1, <2>2, PeersPaired
  <2> QED
    BY <2>2, <2>3
<1>10. ASSUME NEW d \in Devices, Owner(d) = h, NEW y \in Pending(m, d) PROVE Before(y, x)
  <2>1. y \in Marks /\ MarkOK(r, d, y)
    BY <1>8, <1>10 DEF PendingOK
  <2>2. y.id \in Ids /\ y.label \in Nat
    BY <2>1 DEF Marks
  <2>3. y.label <= restarts /\ (y.label = restarts => Age(h, y.id) > 0)
    BY <1>1, <1>10, <2>1 DEF MarkOK, RecentRequest
  <2>4. y.label = restarts => y.id # requestId[h]
    BY <1>4, <2>2, <2>3, AgesOfIds
  <2> QED
    BY <1>b, <2>3, <2>4 DEF Before
<1>11. ASSUME NEW d \in Devices PROVE InOrder(n, d)
  <2>1. x.op = "request"
    BY <1>b
  <2> HIDE DEF S
  <2> QED
    BY <1>4, <1>8, <1>9, <1>10, <1>c, <2>1, RequestInOrder
<1>12. ASSUME NEW d \in Devices, NEW y \in Pending(n, d)
       PROVE  y \in Pending(m, d) \/ (y = x /\ Owner(d) = h)
  <2>1. x.op = "request"
    BY <1>b
  <2> HIDE DEF S
  <2>2. /\ Pending(n, d) \subseteq Pending(m, d) \cup {x}
        /\ Peer[d] \notin S => Pending(n, d) \subseteq Pending(m, d)
    BY <1>4, <1>8, <1>9, <1>10, <1>c, <2>1, RequestInOrder
  <2> QED
    BY <1>9, <2>2
<1>13. Ranked(r)'
  <2>1. \A g \in Hosts : phase'[g] # phase[g] => phase'[g] = "waiting" /\ phase[g] # "waiting"
    BY <1>1, <1>2 DEF RoundsTypeOK
  <2>2. Ranked(r)
    BY <1>3 DEF Accounts
  <2>3. ASSUME NEW g \in Hosts, NEW i \in DOMAIN record[g]
        PROVE  r[g][i] <= restarts + (IF phase'[g] = "waiting" THEN 1 ELSE 0)
    <3>1. r[g][i] \in Nat
      <4>1. r[g] \in Seq(Nat) /\ Len(r[g]) = Len(record[g])
        BY <2>2 DEF Ranked
      <4>2. record[g] \in Seq(TrueRecords(g))
        BY DEF RoutingInv, RecordsTrue
      <4> QED
        BY <4>1, <4>2
    <3>2. r[g][i] <= restarts + (IF phase[g] = "waiting" THEN 1 ELSE 0)
      BY <2>2 DEF Ranked
    <3> QED
      BY <1>4, <2>1, <3>1, <3>2
  <2> QED
    BY <1>1, <2>2, <2>3 DEF Ranked
<1>14. ASSUME NEW d \in Devices, NEW y \in Pending(m, d) PROVE MarkOK(r, d, y)'
  <2>1. MarkOK(r, d, y)
    BY <1>8 DEF PendingOK
  <2>2. Owner(d) \in Hosts
    BY OwnerIsHost
  <2>3. \/ phase'[Owner(d)] = phase[Owner(d)]
        \/ phase'[Owner(d)] = "waiting" /\ phase[Owner(d)] = "asking"
    BY <1>1, <1>2, <2>2 DEF RoundsTypeOK
  <2>4. RecentRequest(Owner(d), y) => RecentRequest(Owner(d), y)'
    BY <1>1, <2>3 DEF RecentRequest, Age
  <2>5. \A k : RanksAbove(Owner(d), k, y) => RanksAbove(Owner(d), k, y)'
    BY <1>1, <2>3 DEF RanksAbove
  <2> QED
    BY <1>1, <2>1, <2>4, <2>5 DEF MarkOK
<1>15. ASSUME NEW d \in Devices, Owner(d) = h PROVE MarkOK(r, d, x)'
  <2>1. x.label = restarts /\ x.id = requestId[h]
    BY <1>b
  <2>2. phase'[h] = "waiting"
    BY <1>1, <1>2 DEF RoundsTypeOK
  <2>3. RecentRequest(h, x)'
    <3>1. Age(h, x.id) = 0 /\ Age(h, x.id)' = Age(h, x.id)
      BY <1>1, <1>4, <2>1, AgesOfIds DEF Age
    <3>2. 0 <= late /\ late' = late
      BY <1>1, <1>2 DEF RoundsTypeOK
    <3> QED
      BY <2>2, <3>1, <3>2 DEF RecentRequest
  <2>4. ASSUME NEW k \in DOMAIN record[h] PROVE RanksAbove(h, r[h][k], x)'
    <3>1. r[h][k] <= restarts
      <4>1. r[h][k] <= restarts + 0
        BY <1>1, <1>3 DEF Accounts, Ranked
      <4>2. restarts + 0 = restarts
        BY <1>4
      <4> QED
        BY <4>1, <4>2
    <3> QED
      BY <1>1, <2>1, <2>2, <3>1 DEF RanksAbove
  <2>5. x.label <= restarts
    BY <1>4, <2>1
  <2> QED
    BY <1>1, <1>15, <2>3, <2>4, <2>5 DEF MarkOK
<1>16. \A d \in Devices : PendingOK(n, r, d)'
  BY <1>12, <1>14, <1>15 DEF PendingOK
<1>17. RoundsTypeOK'
  BY <1>1, <1>2 DEF RoundsTypeOK, Phases
<1>18. DownEmpty'
  <2> SUFFICES ASSUME NEW g \in Hosts, ~up[g], NEW d \in ToSet(DevicesOf[g])
               PROVE  record[g] = <<>> /\ wire'[d] = <<>>
    BY <1>1, <1>2 DEF DownEmpty
  <2>1. record[g] = <<>> /\ wire[d] = <<>> /\ d \in Devices /\ Owner(d) = g
    BY <1>2, OwnerIsHost DEF DownEmpty
  <2>2. d \notin S
    BY <2>1 DEF Hears
  <2> HIDE DEF S
  <2> QED
    BY <1>5, <2>1, <2>2 DEF Sent
<1>19. Accounts(n, r)'
  BY <1>7, <1>11, <1>13, <1>16 DEF Accounts
<1> QED
  BY <1>17, <1>18, <1>19 DEF RoundsInv

\* The rebuilding, after an answer that is late or with none outstanding
LEMMA UpdateAccounted ==
  ASSUME RoutingInv, RoundsInv, NEW h \in Hosts, UpdateRoutingTable(h)
  PROVE  RoundsInv'
<1>1. /\ up[h] /\ phase[h] = "waiting"
      /\ record' = [record EXCEPT ![h] = <<>>] /\ phase' = [phase EXCEPT ![h] = "rebuilt"]
      /\ UNCHANGED <<requestId, up, wire, world, restarts>>
      /\ \/ ~Outstanding(h) /\ late' = late
         \/ late < world.late /\ late' = late + 1
  BY DEF UpdateRoutingTable, RecordCleared
<1>2. RoundsTypeOK /\ DownEmpty
  BY DEF RoundsInv
<1>3. PICK m, r : Accounts(m, r)
  BY DEF RoundsInv
<1>4. PICK s : s = [r EXCEPT ![h] = <<>>]
  OBVIOUS
<1>5. /\ requestId \in [Hosts -> Ids] /\ phase \in [Hosts -> Phases]
      /\ restarts \in Nat /\ late \in Nat /\ world \in Worlds /\ world.late \in Nat
  BY <1>2, RoutingAssumption DEF RoundsTypeOK
<1>6. /\ Marked(wire, m) /\ m \in Wires(Marks) /\ Ranked(r)
      /\ \A d \in Devices : InOrder(m, d) /\ PendingOK(m, r, d)
  BY <1>3 DEF Accounts, Marked
<1>7. RoundsTypeOK'
  BY <1>1, <1>2, <1>5 DEF RoundsTypeOK, Phases
<1>8. DownEmpty'
  BY <1>1, <1>2 DEF DownEmpty
<1>9. record \in [Hosts -> Seq(UNION {TrueRecords(g) : g \in Hosts})]
  BY DEF RoutingInv, RecordsTrue
<1>10. Ranked(s)'
  <2>1. r \in [Hosts -> Seq(Nat)] /\ s \in [Hosts -> Seq(Nat)]
    BY <1>4, <1>6 DEF Ranked
  <2>2. ASSUME NEW g \in Hosts, g # h
        PROVE  s[g] = r[g] /\ record'[g] = record[g] /\ phase'[g] = phase[g]
    BY <1>1, <1>4, <1>5, <1>9, <2>1, <2>2
  <2>3. s[h] = <<>> /\ record'[h] = <<>> /\ DOMAIN <<>> = {}
    BY <1>1, <1>4, <1>9, <2>1
  <2>4. ASSUME NEW g \in Hosts
        PROVE  /\ Len(s[g]) = Len(record'[g])
               /\ \A i, j \in DOMAIN record'[g] :
                      i < j /\ record'[g][i].to = record'[g][j].to => s[g][i] < s[g][j]
               /\ \A i \in DOMAIN record'[g] :
                      s[g][i] <= restarts' + (IF phase'[g] = "waiting" THEN 1 ELSE 0)
    <3>1. CASE g = h
      BY <2>3, <3>1
    <3>2. CASE g # h
      BY <1>1, <1>6, <2>2, <3>2 DEF Ranked
    <3> QED
      BY <3>1, <3>2
  <2> QED
    BY <2>1, <2>4 DEF Ranked
<1>11. ASSUME ~Outstanding(h), NEW d \in Devices, Owner(d) = h PROVE Pending(m, d) = {}
  <2>1. d \in ToSet(DevicesOf[h])
    BY <1>11, OwnerIsHost
  <2>2. \A i \in DOMAIN wire[d] : wire[d][i].op # "reply"
    BY <1>11, <2>1 DEF Outstanding
  <2>3. \A e \in Devices : \A i \in DOMAIN m[e] : i \in DOMAIN wire[e] /\ m[e][i].op = wire[e][i].op
    <3> SUFFICES ASSUME NEW e \in Devices, NEW i \in DOMAIN m[e]
                 PROVE  i \in DOMAIN wire[e] /\ m[e][i].op = wire[e][i].op
      OBVIOUS
    <3>1. wire[e] \in Seq(FramesTo(e)) /\ m[e] \in Seq(Marks) /\ Len(m[e]) = Len(wire[e])
      BY <1>6, WireTyped DEF Marked, Wires
    <3> QED
      BY <1>6, <3>1 DEF Marked
  <2>4. AnswersTo(m, d) = {}
    BY <2>2, <2>3 DEF AnswersTo
  <2>5. RequestsOf(m, d) = {}
    <3> SUFFICES ASSUME NEW i \in RequestsOf(m, d) PROVE FALSE
      OBVIOUS
    <3>1. Peer[d] \in Devices /\ i \in DOMAIN m[Peer[d]] /\ m[Peer[d]][i].op = "request"
      BY DEF RequestsOf
    <3>2. i \in DOMAIN wire[Peer[d]] /\ wire[Peer[d]][i].op = "request"
      BY <2>3, <3>1
    <3>3. ~Hears(Peer[d])
      BY <1>11, <2>1, <3>2 DEF Outstanding
    <3>4. Peer[d] # NoDevice
      BY <3>1, RoutingAssumption DEF Devices
    <3>5. ~up[Owner(Peer[d])]
      BY <3>3, <3>4 DEF Hears
    <3>6. wire[Peer[d]] = <<>>
      BY <1>2, <3>1, <3>5, OwnerIsHost DEF DownEmpty
    <3> QED
      BY <3>2, <3>6
  <2> QED
    BY <2>4, <2>5 DEF Pending
<1>12. ASSUME NEW d \in Devices, NEW x \in Pending(m, d) PROVE MarkOK(s, d, x)'
  <2> DEFINE g == Owner(d)
  <2>1. g \in Hosts /\ MarkOK(r, d, x) /\ x \in Marks
    BY <1>6, OwnerIsHost, PendingMarks DEF PendingOK
  <2>2. x.id \in Ids
    BY <2>1 DEF Marks
  <2> HIDE DEF g
  <2>3. Age(g, x.id) \in Nat /\ Age(g, x.id)' = Age(g, x.id)
    BY <1>1, <1>5, <2>1, <2>2, AgesOfIds DEF Ids, Age
  <2>4. CASE g = h
    <3>1. late' = late + 1
      BY <1>1, <1>11, <2>4 DEF g
    <3>2. record'[h] = <<>> /\ phase'[h] = "rebuilt"
      BY <1>1, <1>5, <1>9
    <3>3. RecentRequest(g, x) => RecentRequest(g, x)'
      BY <1>5, <2>3, <2>4, <3>1, <3>2 DEF RecentRequest
    <3>4. x.label <= restarts' /\ (x.label = restarts' => RecentRequest(g, x)')
      BY <1>1, <2>1, <3>3 DEF MarkOK, g
    <3>5. DOMAIN record'[g] = {}
      BY <2>4, <3>2
    <3> QED
      BY <3>4, <3>5 DEF MarkOK, g
  <2>5. CASE g # h
    <3>1. /\ phase'[g] = phase[g] /\ record'[g] = record[g] /\ s[g] = r[g] /\ requestId' = requestId
          /\ late <= late' /\ late' \in Nat
      BY <1>1, <1>4, <1>5, <1>6, <1>9, <2>1, <2>5 DEF Ranked
    <3>2. RecentRequest(g, x) => RecentRequest(g, x)'
      BY <1>5, <2>3, <3>1 DEF RecentRequest
    <3>3. \A k : RanksAbove(g, k, x) => RanksAbove(g, k, x)'
      BY <3>1 DEF RanksAbove
    <3> QED
      BY <1>1, <2>1, <3>1, <3>2, <3>3 DEF MarkOK, g
  <2> QED
    BY <2>4, <2>5
<1>13. Accounts(m, s)'
  BY <1>1, <1>6, <1>10, <1>12 DEF Accounts, PendingOK
<1> QED
  BY <1>7, <1>8, <1>13 DEF RoundsInv

\* The next id: all ages grow.
LEMMA NextRoundAccounted ==
  ASSUME RoutingInv, RoundsInv, NEW h \in Hosts, NextRound(h)
  PROVE  RoundsInv'
<1>1. /\ phase[h] = "rebuilt" /\ phase' = [phase EXCEPT ![h] = "asking"]
      /\ requestId' = [requestId EXCEPT ![h] = (@ + 1) % RequestIds]
      /\ UNCHANGED <<record, up, wire, world, restarts, late>>
  BY DEF NextRound
<1>2. RoundsTypeOK /\ DownEmpty
  BY DEF RoundsInv
<1>3. PICK m, r : Accounts(m, r)
  BY DEF RoundsInv
<1>4. /\ requestId \in [Hosts -> Ids] /\ phase \in [Hosts -> Phases]
      /\ restarts \in Nat /\ late \in Nat /\ late < RequestIds /\ RequestIds \in Nat \ {0}
  <2>1. world.late \in Nat /\ world.late < RequestIds /\ RequestIds \in Nat \ {0} /\ late <= world.late
    BY <1>2, RoutingAssumption DEF RoundsTypeOK
  <2> QED
    BY <1>2, <2>1 DEF RoundsTypeOK
<1>5. /\ Marked(wire, m) /\ m \in Wires(Marks) /\ Ranked(r)
      /\ \A d \in Devices : InOrder(m, d) /\ PendingOK(m, r, d)
  BY <1>3 DEF Accounts, Marked
<1>6. requestId[h] \in Ids /\ requestId'[h] \in Ids
      /\ requestId'[h] = IF requestId[h] = RequestIds - 1 THEN 0 ELSE requestId[h] + 1
  <2>1. requestId[h] \in Ids /\ requestId'[h] = (requestId[h] + 1) % RequestIds
    BY <1>1, <1>4
  <2> DEFINE k == requestId[h]
  <2> HIDE DEF k
  <2>2. k \in 0 .. RequestIds - 1
    BY <2>1 DEF k, Ids
  <2>3. (k + 1) % RequestIds = IF k = RequestIds - 1 THEN 0 ELSE k + 1
    BY <1>4, <2>2
  <2> QED
    BY <1>4, <2>1, <2>2, <2>3 DEF k, Ids
<1>7. RoundsTypeOK'
  BY <1>1, <1>2, <1>4, <1>6 DEF RoundsTypeOK, Phases
<1>8. DownEmpty'
  BY <1>1, <1>2 DEF DownEmpty
<1>9. Ranked(r)'
  <2>1. \A g \in Hosts : phase'[g] = "waiting" <=> phase[g] = "waiting"
    BY <1>1, <1>4
  <2> QED
    BY <1>1, <1>5, <2>1 DEF Ranked
<1>10. ASSUME NEW d \in Devices, NEW x \in Pending(m, d) PROVE MarkOK(r, d, x)'
  <2> DEFINE g == Owner(d)
  <2>1. g \in Hosts /\ MarkOK(r, d, x) /\ x \in Marks
    BY <1>5, OwnerIsHost, PendingMarks DEF PendingOK
  <2>2. x.id \in Ids
    BY <2>1 DEF Marks
  <2> HIDE DEF g
  <2>3. CASE g = h
    <3>1. phase'[g] = "asking" /\ phase[g] = "rebuilt"
      BY <1>1, <1>4, <2>1, <2>3
    <3>2. RecentRequest(g, x) => RecentRequest(g, x)'
      <4> SUFFICES ASSUME RecentRequest(g, x) PROVE RecentRequest(g, x)'
        OBVIOUS
      <4>1. Age(g, x.id) < late
        BY <3>1 DEF RecentRequest
      <4>2. /\ requestId[g] \in Ids
            /\ requestId'[g] = (IF requestId[g] = RequestIds - 1 THEN 0 ELSE requestId[g] + 1)
        BY <1>6, <2>3
      <4>3. Age(g, x.id)' = Age(g, x.id) + 1
        BY <1>4, <2>2, <4>1, <4>2 DEF Ids, Age
      <4>4. Age(g, x.id) \in Nat
        BY <2>1, <2>2, <4>2, AgesOfIds DEF Ids
      <4> QED
        BY <1>1, <1>4, <3>1, <4>1, <4>3, <4>4 DEF RecentRequest
    <3>3. \A k : RanksAbove(g, k, x) => RanksAbove(g, k, x)'
      BY <3>1 DEF RanksAbove
    <3> QED
      BY <1>1, <2>1, <3>2, <3>3 DEF MarkOK, g
  <2>4. CASE g # h
    <3>1. phase'[g] = phase[g] /\ requestId'[g] = requestId[g] /\ late' = late
      BY <1>1, <1>4, <2>1, <2>4
    <3>2. RecentRequest(g, x) => RecentRequest(g, x)'
      BY <3>1 DEF RecentRequest, Age
    <3>3. \A k : RanksAbove(g, k, x) => RanksAbove(g, k, x)'
      BY <3>1 DEF RanksAbove
    <3> QED
      BY <1>1, <2>1, <3>1, <3>2, <3>3 DEF MarkOK, g
  <2> QED
    BY <2>3, <2>4
<1>11. Accounts(m, r)'
  BY <1>1, <1>5, <1>9, <1>10 DEF Accounts, PendingOK
<1> QED
  BY <1>7, <1>8, <1>11 DEF RoundsInv

\* A wire that is not empty may receive before or after more is sent.
LEMMA ReceivedFirst ==
  ASSUME NEW X, NEW w \in Wires(X), NEW d \in Devices, w[d] # <<>>, NEW S, NEW f \in X
  PROVE  Received(Sent(w, S, f), d) = Sent(Received(w, d), S, f)
<1>1. w[d] \in Seq(X) /\ Tail(Append(w[d], f)) = Append(Tail(w[d]), f)
  <2>1. w[d] \in Seq(X)
    BY DEF Wires
  <2> QED
    BY <2>1
<1>2. DOMAIN w = Devices
  BY DEF Wires
<1>3. ASSUME NEW u, DOMAIN u = Devices, u = [e \in Devices |-> u[e]]
      PROVE  Received(u, d) = [e \in Devices |-> IF e = d THEN Tail(u[e]) ELSE u[e]]
  BY <1>3 DEF Received
<1>4. Received(Sent(w, S, f), d) = [e \in Devices |->
          IF e = d THEN Tail(Sent(w, S, f)[e]) ELSE Sent(w, S, f)[e]]
  <2>1. /\ DOMAIN Sent(w, S, f) = Devices
        /\ Sent(w, S, f) = [e \in Devices |-> Sent(w, S, f)[e]]
    BY DEF Sent
  <2> QED
    BY <1>3, <2>1
<1>5. Received(w, d) = [e \in Devices |-> IF e = d THEN Tail(w[e]) ELSE w[e]]
  <2>1. w = [e \in Devices |-> w[e]]
    BY DEF Wires
  <2> QED
    BY <1>2, <1>3, <2>1
<1>6. ASSUME NEW e \in Devices
      PROVE  (IF e = d THEN Tail(Sent(w, S, f)[e]) ELSE Sent(w, S, f)[e])
               = (IF e \in S THEN Append(Received(w, d)[e], f) ELSE Received(w, d)[e])
  BY <1>1, <1>5 DEF Sent
<1> QED
  BY <1>4, <1>6 DEF Sent

\* The first request of device p on its peer's wire comes after all answers
\* to p, and before its other requests.
LEMMA HeadRequest ==
  ASSUME NEW m \in Wires(Marks), NEW d \in Devices, NEW p \in Devices, Peer[p] = d,
         m[d] # <<>>, m[d][1].op = "request", InOrder(m, p)
  PROVE  /\ \A i \in AnswersTo(Received(m, d), p) : Before(Received(m, d)[p][i], m[d][1])
         /\ \A j \in RequestsOf(Received(m, d), p) : Before(m[d][1], Received(m, d)[d][j])
         /\ m[d][1] \in Pending(m, p)
<1> DEFINE n == Received(m, d)
<1>1. \A g \in Devices : n \in Wires(Marks) /\ MovesUp(m, n, d, g)
  BY ReceivedAt
<1>2. m[d] \in Seq(Marks) /\ n[d] \in Seq(Marks) /\ n[p] \in Seq(Marks)
  BY <1>1 DEF Wires
<1>3. 1 \in RequestsOf(m, p)
  BY <1>2 DEF RequestsOf
<1> HIDE DEF n
<1>4. ASSUME NEW i \in AnswersTo(n, p) PROVE Before(n[p][i], m[d][1])
  <2> DEFINE k == i + (IF p = d THEN 1 ELSE 0)
  <2>1. i \in DOMAIN n[p] /\ n[p][i].op = "reply"
    BY DEF AnswersTo
  <2>2. k \in DOMAIN m[p] /\ n[p][i] = m[p][k]
    BY <1>1, <2>1 DEF MovesUp
  <2>3. k \in AnswersTo(m, p)
    BY <2>1, <2>2 DEF AnswersTo
  <2> HIDE DEF k
  <2> QED
    BY <1>3, <2>2, <2>3 DEF InOrder
<1>5. ASSUME NEW j \in RequestsOf(n, p) PROVE Before(m[d][1], n[d][j])
  <2>1. j \in DOMAIN n[d] /\ n[d][j].op = "request" /\ j \in Nat /\ j >= 1
    BY <1>2 DEF RequestsOf
  <2>2. j + 1 \in DOMAIN m[d] /\ n[d][j] = m[d][j + 1]
    BY <1>1, <2>1 DEF MovesUp
  <2>3. j + 1 \in RequestsOf(m, p) /\ 1 < j + 1
    BY <2>1, <2>2 DEF RequestsOf
  <2> QED
    BY <1>3, <2>2, <2>3 DEF InOrder
<1>6. m[d][1] \in Pending(m, p)
  BY <1>3 DEF Pending
<1> QED
  BY <1>4, <1>5, <1>6 DEF n

\* The first answer to device d comes before all that is pending after it.
LEMMA HeadAnswer ==
  ASSUME NEW m \in Wires(Marks), NEW d \in Devices,
         m[d] # <<>>, m[d][1].op = "reply", InOrder(m, d)
  PROVE  /\ \A y \in Pending(Received(m, d), d) : Before(m[d][1], y)
         /\ m[d][1] \in Pending(m, d)
<1> DEFINE n == Received(m, d)
<1>1. \A g \in Devices : n \in Wires(Marks) /\ MovesUp(m, n, d, g)
  BY ReceivedAt
<1>2. m[d] \in Seq(Marks) /\ n[d] \in Seq(Marks)
  BY <1>1 DEF Wires
<1>3. 1 \in AnswersTo(m, d)
  BY <1>2 DEF AnswersTo
<1> HIDE DEF n
<1>4. ASSUME NEW j \in AnswersTo(n, d) PROVE Before(m[d][1], n[d][j])
  <2>1. j \in DOMAIN n[d] /\ n[d][j].op = "reply" /\ j \in Nat /\ j >= 1
    BY <1>2 DEF AnswersTo
  <2>2. j + 1 \in DOMAIN m[d] /\ n[d][j] = m[d][j + 1]
    BY <1>1, <2>1 DEF MovesUp
  <2>3. j + 1 \in AnswersTo(m, d) /\ 1 < j + 1
    BY <2>1, <2>2 DEF AnswersTo
  <2> QED
    BY <1>3, <2>2, <2>3 DEF InOrder
<1>5. ASSUME NEW j \in RequestsOf(n, d) PROVE Before(m[d][1], n[Peer[d]][j])
  <2> DEFINE k == j + (IF Peer[d] = d THEN 1 ELSE 0)
  <2>1. Peer[d] \in Devices /\ j \in DOMAIN n[Peer[d]] /\ n[Peer[d]][j].op = "request"
    BY DEF RequestsOf
  <2>2. k \in DOMAIN m[Peer[d]] /\ n[Peer[d]][j] = m[Peer[d]][k]
    BY <1>1, <2>1 DEF MovesUp
  <2>3. k \in RequestsOf(m, d)
    BY <2>1, <2>2 DEF RequestsOf
  <2> HIDE DEF k
  <2> QED
    BY <1>3, <2>2, <2>3 DEF InOrder
<1>6. m[d][1] \in Pending(m, d)
  BY <1>3 DEF Pending
<1> QED
  BY <1>4, <1>5, <1>6 DEF n, Pending

\* What may be said of a mark may be said while nothing it speaks of changes.
LEMMA MarksKeptOK ==
  ASSUME NEW r, NEW d \in Devices, NEW x,
         UNCHANGED <<record, requestId, phase, restarts, late>>, MarkOK(r, d, x)
  PROVE  MarkOK(r, d, x)'
<1>1. RecentRequest(Owner(d), x) => RecentRequest(Owner(d), x)'
  BY DEF RecentRequest, Age
<1>2. \A k : RanksAbove(Owner(d), k, x) => RanksAbove(Owner(d), k, x)'
  BY DEF RanksAbove
<1> QED
  BY <1>1, <1>2 DEF MarkOK

\* A step that changes nothing of this
LEMMA RoundsUnchanged ==
  ASSUME RoundsInv, UNCHANGED <<record, requestId, phase, up, wire, world, restarts, late>>
  PROVE  RoundsInv'
<1>1. PICK m, r : Accounts(m, r)
  BY DEF RoundsInv
<1>2. \A d \in Devices : InOrder(m, d) /\ PendingOK(m, r, d)
  BY <1>1 DEF Accounts
<1>3. ASSUME NEW d \in Devices PROVE PendingOK(m, r, d)'
  <2> SUFFICES ASSUME NEW x \in Pending(m, d) PROVE MarkOK(r, d, x)'
    BY DEF PendingOK
  <2>1. MarkOK(r, d, x)
    BY <1>2 DEF PendingOK
  <2> QED
    BY <2>1, MarksKeptOK
<1>4. Accounts(m, r)'
  BY <1>1, <1>2, <1>3 DEF Accounts, Ranked
<1>5. RoundsTypeOK' /\ DownEmpty'
  BY DEF RoundsInv, RoundsTypeOK, DownEmpty
<1> QED
  BY <1>4, <1>5 DEF RoundsInv

\* A request that is answered, or not for want of room in a frame
LEMMA RequestArrivalAccounted ==
  ASSUME RoutingInv, RoundsInv, NEW d \in Devices, RouteRequestArrives(d)
  PROVE  RoundsInv'
<1> DEFINE f == Head(wire[d])
           p == Peer[d]
           frames == RouteReply(d, f)
<1>1. /\ up[Owner(d)] /\ wire[d] # <<>> /\ f.op = "request"
      /\ wire' = Received(Transmit(frames), d)
      /\ UNCHANGED <<record, requestId, phase, up, world, restarts, late>>
  BY DEF RouteRequestArrives
<1>2. RoundsTypeOK /\ DownEmpty
  BY DEF RoundsInv
<1>3. PICK m, r : Accounts(m, r)
  BY DEF RoundsInv
<1>4. /\ Marked(wire, m) /\ m \in Wires(Marks) /\ Ranked(r)
      /\ \A e \in Devices : InOrder(m, e) /\ PendingOK(m, r, e)
  BY <1>3 DEF Accounts, Marked
<1>5. PICK g : g = [op |-> "reply", id |-> f.id, from |-> d, to |-> p, entries |-> table[Owner(d)]]
  OBVIOUS
<1>6. PICK S : S = {e \in DOMAIN frames : Hears(e)}
  OBVIOUS
<1>7. S \subseteq {p} /\ (p \in S => p \in Devices /\ Peer[p] = d)
  <2>1. S \subseteq {p} /\ (p \in S => Peer[d] # NoDevice)
    BY <1>6 DEF RouteReply, Hears
  <2> QED
    BY <2>1, RoutingAssumption, PeersPaired DEF Devices
<1>8. Transmit(frames) = Sent(wire, S, g)
  <2>1. \A e \in DOMAIN frames : frames[e] = g
    BY <1>5, <1>6, Zenon DEF RouteReply
  <2> HIDE DEF frames
  <2> QED
    BY <1>6, <2>1 DEF Transmit, Sent
<1> DEFINE X == AllFrames \cup {g}
<1>9. wire \in Wires(X) /\ g \in X
  <2>1. \A e \in Devices : wire[e] \in Seq(AllFrames)
    BY WireTyped DEF Wires
  <2>2. \A e \in Devices : wire[e] \in Seq(X)
    BY <2>1
  <2>3. DOMAIN wire = Devices /\ wire = [e \in Devices |-> wire[e]]
    BY WireTyped DEF Wires
  <2> HIDE DEF X
  <2>4. wire \in Wires(X)
    BY <2>2, <2>3 DEF Wires
  <2> QED
    BY <2>4 DEF X
<1>10. Marked(Received(wire, d), Received(m, d)) /\ m[d] # <<>>
       /\ Received(wire, d) \in Wires(X) /\ Received(m, d) \in Wires(Marks)
  <2> HIDE DEF X
  <2> QED
    BY <1>1, <1>4, <1>9, MarksOfReceived, ReceivedAt
<1>11. wire' = Sent(Received(wire, d), S, g)
  <2> HIDE DEF X
  <2> QED
    BY <1>1, <1>8, <1>9, ReceivedFirst
<1> DEFINE y == m[d][1]
<1>12. y \in Marks /\ y.op = "request" /\ y.id = f.id
  <2>1. m[d] \in Seq(Marks) /\ 1 \in DOMAIN m[d]
    BY <1>4, <1>10 DEF Wires
  <2>2. f = wire[d][1]
    BY WireTyped
  <2> QED
    BY <1>1, <1>4, <2>1, <2>2 DEF Marked
<1>13. PICK x \in Marks : x.op = "reply" /\ x.id = y.id /\ x.label = y.label
  <2>1. [op |-> "reply", id |-> y.id, label |-> y.label] \in Marks
    BY <1>12 DEF Marks
  <2> QED
    BY <2>1
<1>14. PICK n : n = Sent(Received(m, d), S, x)
  OBVIOUS
<1>15. Marked(wire', n)
  <2>1. x.op = g.op /\ x.id = g.id
    BY <1>5, <1>12, <1>13
  <2> HIDE DEF X
  <2>2. Marked(Sent(Received(wire, d), S, g), Sent(Received(m, d), S, x))
    BY <1>9, <1>10, <2>1, MarksOfSent
  <2> QED
    BY <1>11, <1>14, <2>2
<1>16. \A e \in Devices : /\ InOrder(Received(m, d), e)
                         /\ Pending(Received(m, d), e) \subseteq Pending(m, e)
  BY <1>4, <1>10, ReceivedInOrder
<1>17. ASSUME p \in S
       PROVE  /\ p \in Devices /\ Peer[p] = d /\ y \in Pending(m, p)
              /\ \A i \in AnswersTo(Received(m, d), p) : Before(Received(m, d)[p][i], x)
              /\ \A j \in RequestsOf(Received(m, d), p) : Before(x, Received(m, d)[d][j])
  <2>1. /\ \A i \in AnswersTo(Received(m, d), p) : Before(Received(m, d)[p][i], y)
        /\ \A j \in RequestsOf(Received(m, d), p) : Before(y, Received(m, d)[d][j])
        /\ y \in Pending(m, p)
    BY <1>4, <1>7, <1>10, <1>12, <1>17, HeadRequest
  <2> QED
    BY <1>7, <1>13, <1>17, <2>1 DEF Before
<1>18. ASSUME NEW e \in Devices
       PROVE  /\ InOrder(n, e)
              /\ Pending(n, e) \subseteq Pending(m, e) \cup {x}
              /\ e \notin S => Pending(n, e) \subseteq Pending(m, e)
  <2>1. e \in S => /\ \A i \in AnswersTo(Received(m, d), e) : Before(Received(m, d)[e][i], x)
                   /\ \A j \in RequestsOf(Received(m, d), e) : Before(x, Received(m, d)[Peer[e]][j])
    BY <1>7, <1>17
  <2>2. /\ InOrder(n, e)
        /\ Pending(n, e) \subseteq Pending(Received(m, d), e) \cup {x}
        /\ e \notin S => Pending(n, e) \subseteq Pending(Received(m, d), e)
    <3> DEFINE k == Received(m, d)
    <3>1. k \in Wires(Marks) /\ InOrder(k, e) /\ n = Sent(k, S, x)
      BY <1>10, <1>14, <1>16
    <3> HIDE DEF k
    <3>2. e \in S => /\ \A i \in AnswersTo(k, e) : Before(k[e][i], x)
                     /\ \A j \in RequestsOf(k, e) : Before(x, k[Peer[e]][j])
      BY <2>1 DEF k
    <3>3. /\ InOrder(n, e)
          /\ Pending(n, e) \subseteq Pending(k, e) \cup {x}
          /\ e \notin S => Pending(n, e) \subseteq Pending(k, e)
      BY <1>13, <3>1, <3>2, AnswerInOrder
    <3> QED
      BY <3>3 DEF k
  <2> QED
    BY <1>16, <2>2
<1>19. ASSUME NEW e \in Devices, NEW z \in Pending(n, e) PROVE MarkOK(r, e, z)
  <2>1. CASE z \in Pending(m, e)
    BY <1>4, <2>1 DEF PendingOK
  <2>2. CASE z \notin Pending(m, e)
    <3>1. z = x /\ e \in S
      BY <1>18, <2>2
    <3>2. e = p /\ MarkOK(r, e, y)
      BY <1>4, <1>7, <1>17, <3>1 DEF PendingOK
    <3> HIDE DEF y
    <3> QED
      BY <1>13, <3>1, <3>2 DEF MarkOK, RecentRequest, RanksAbove
  <2> QED
    BY <2>1, <2>2
<1>20. ASSUME NEW e \in Devices PROVE PendingOK(n, r, e)'
  <2> SUFFICES ASSUME NEW z \in Pending(n, e) PROVE MarkOK(r, e, z)'
    BY DEF PendingOK
  <2> QED
    BY <1>1, <1>19, MarksKeptOK
<1>21. Ranked(r)'
  BY <1>1, <1>4 DEF Ranked
<1>22. DownEmpty'
  <2>0. up' = up /\ record' = record
    BY <1>1
  <2> HIDE DEF f, frames, X
  <2> SUFFICES ASSUME NEW k \in Hosts, ~up[k], NEW e \in ToSet(DevicesOf[k])
               PROVE  record[k] = <<>> /\ wire'[e] = <<>>
    BY <1>2, <2>0 DEF DownEmpty
  <2>1. record[k] = <<>> /\ wire[e] = <<>> /\ e \in Devices /\ Owner(e) = k
    BY <1>2, OwnerIsHost DEF DownEmpty
  <2>2. e # d /\ e \notin S
    BY <1>1, <1>6, <2>1 DEF Hears
  <2>3. Received(wire, d)[e] = <<>>
    BY <2>1, <2>2, WireTyped DEF Received, Wires
  <2> QED
    BY <1>11, <2>1, <2>2, <2>3 DEF Sent
<1>23. RoundsTypeOK'
  BY <1>1, <1>2 DEF RoundsTypeOK
<1>24. Accounts(n, r)'
  BY <1>15, <1>18, <1>20, <1>21 DEF Accounts
<1> QED
  BY <1>22, <1>23, <1>24 DEF RoundsInv

\* An answer f of rank k is recorded at host h: the ranks r become s.
Recorded(r, s, h, f, k) ==
    /\ h \in Hosts /\ f \in AllFrames /\ k \in Nat /\ Ranked(r)
    /\ record' = [record EXCEPT ![h] = Append(record[h], f)]
    /\ s = [r EXCEPT ![h] = Append(r[h], k)]
    /\ k <= restarts + (IF phase[h] = "waiting" THEN 1 ELSE 0)
    /\ \A i \in DOMAIN record[h] : record[h][i].to = f.to => r[h][i] < k

\* What becomes of the records and their ranks
RecordedThen(r, s, h, f, k) ==
    /\ Ranked(s)'
    /\ \A g \in Hosts \ {h} : record'[g] = record[g] /\ s[g] = r[g]
    /\ \A i \in DOMAIN record'[h] :
          \/ i \in DOMAIN record[h] /\ record'[h][i] = record[h][i] /\ s[h][i] = r[h][i]
          \/ record'[h][i] = f /\ s[h][i] = k

\* The rank of an answer to x that is recorded now
RankOf(h, x) == x.label + (IF phase[h] = "rebuilt" THEN 0 ELSE 1)

\* Recording at host h an answer of a rank above those of its device
LEMMA RecordedRanked ==
  ASSUME record \in [Hosts -> Seq(AllFrames)], restarts \in Nat,
         UNCHANGED <<phase, restarts>>,
         NEW r, NEW s, NEW h, NEW f, NEW k, Recorded(r, s, h, f, k)
  PROVE  RecordedThen(r, s, h, f, k)
<1>a. h \in Hosts /\ f \in AllFrames /\ k \in Nat /\ Ranked(r)
  BY DEF Recorded
<1>1. /\ r \in [Hosts -> Seq(Nat)] /\ r[h] \in Seq(Nat)
      /\ record[h] \in Seq(AllFrames) /\ Len(r[h]) = Len(record[h])
  BY <1>a DEF Ranked, Recorded
<1>2. /\ record'[h] = Append(record[h], f) /\ s[h] = Append(r[h], k)
      /\ s \in [Hosts -> Seq(Nat)]
  BY <1>a, <1>1 DEF Recorded
<1>3. \A g \in Hosts \ {h} : record'[g] = record[g] /\ s[g] = r[g]
  BY <1>a, <1>1 DEF Recorded
<1>4. ASSUME NEW i \in DOMAIN record'[h]
      PROVE  \/ i \in DOMAIN record[h] /\ record'[h][i] = record[h][i] /\ s[h][i] = r[h][i]
             \/ i = Len(record[h]) + 1 /\ record'[h][i] = f /\ s[h][i] = k
  BY <1>a, <1>1, <1>2
<1>5. Len(s[h]) = Len(record'[h])
  BY <1>a, <1>1, <1>2
<1>6. ASSUME NEW i \in DOMAIN record'[h], NEW j \in DOMAIN record'[h],
             i < j, record'[h][i].to = record'[h][j].to
      PROVE  s[h][i] < s[h][j]
  <2>1. i \in DOMAIN record[h] /\ record'[h][i] = record[h][i] /\ s[h][i] = r[h][i]
    <3>1. DOMAIN record'[h] = 1 .. Len(record[h]) + 1
      BY <1>a, <1>1, <1>2
    <3>2. i # Len(record[h]) + 1
      BY <1>1, <1>6, <3>1
    <3> QED
      BY <1>4, <3>2
  <2>2. CASE j \in DOMAIN record[h] /\ record'[h][j] = record[h][j] /\ s[h][j] = r[h][j]
    BY <1>a, <1>6, <2>1, <2>2 DEF Ranked, Recorded
  <2>3. CASE record'[h][j] = f /\ s[h][j] = k
    BY <1>a, <1>6, <2>1, <2>3 DEF Recorded
  <2> QED
    BY <1>4, <2>2, <2>3
<1>7. ASSUME NEW i \in DOMAIN record'[h]
      PROVE  s[h][i] <= restarts + (IF phase[h] = "waiting" THEN 1 ELSE 0)
  BY <1>a, <1>4, <1>7 DEF Ranked, Recorded
<1>8. Ranked(s)'
  <2>1. ASSUME NEW g \in Hosts
        PROVE  /\ Len(s[g]) = Len(record'[g])
               /\ \A i, j \in DOMAIN record'[g] :
                      i < j /\ record'[g][i].to = record'[g][j].to => s[g][i] < s[g][j]
               /\ \A i \in DOMAIN record'[g] :
                      s[g][i] <= restarts' + (IF phase'[g] = "waiting" THEN 1 ELSE 0)
    <3>1. CASE g = h
      BY <1>5, <1>6, <1>7, <3>1
    <3>2. CASE g # h
      BY <1>a, <1>3, <3>2 DEF Ranked, Recorded
    <3> QED
      BY <3>1, <3>2
  <2> QED
    BY <1>2, <2>1 DEF Ranked, Recorded
<1> QED
  BY <1>3, <1>4, <1>8 DEF RecordedThen

\* An answer that is recorded or refused
LEMMA ReplyArrivalAccounted ==
  ASSUME RoutingInv, RoundsInv, NEW d \in Devices, RouteReplyArrives(d)
  PROVE  RoundsInv'
<1> DEFINE f == Head(wire[d])
           h == Owner(d)
<1>1. /\ up[h] /\ wire[d] # <<>> /\ f.op = "reply"
      /\ wire' = Received(wire, d)
      /\ record' = [record EXCEPT ![h] = RecordAnswer(h, f)]
      /\ UNCHANGED <<requestId, phase, up, world, restarts, late>>
  BY DEF RouteReplyArrives
<1>2. RoundsTypeOK /\ DownEmpty
  BY DEF RoundsInv
<1>3. PICK m, r : Accounts(m, r)
  BY DEF RoundsInv
<1>4. /\ Marked(wire, m) /\ m \in Wires(Marks) /\ Ranked(r)
      /\ \A e \in Devices : InOrder(m, e) /\ PendingOK(m, r, e)
  BY <1>3 DEF Accounts, Marked
<1>5. PICK n : n = Received(m, d)
  OBVIOUS
<1>6. h \in Hosts /\ d \in ToSet(DevicesOf[h])
  BY OwnerIsHost
<1>7. Marked(wire', n) /\ m[d] # <<>>
  BY <1>1, <1>4, <1>5, MarksOfReceived, WireTyped
<1>8. \A e \in Devices : InOrder(n, e) /\ Pending(n, e) \subseteq Pending(m, e)
  BY <1>4, <1>5, <1>7, ReceivedInOrder
<1> DEFINE y == m[d][1]
<1>9. y \in Marks /\ y.op = "reply" /\ y.id = f.id
  <2>1. m[d] \in Seq(Marks) /\ 1 \in DOMAIN m[d]
    BY <1>4, <1>7 DEF Wires
  <2>2. f = wire[d][1]
    BY WireTyped
  <2> QED
    BY <1>1, <1>4, <2>1, <2>2 DEF Marked
<1>10. y \in Pending(m, d) /\ MarkOK(r, d, y) /\ \A z \in Pending(n, d) : Before(y, z)
  BY <1>4, <1>5, <1>7, <1>9, HeadAnswer DEF PendingOK
<1>11. f.to = d /\ f \in AllFrames
  <2>1. f \in FramesTo(d)
    BY <1>1, WireTyped
  <2> QED
    BY <1>1, <2>1 DEF FramesTo, Requests, TrueAnswers, AllFrames
<1>12. RoundsTypeOK'
  BY <1>1, <1>2 DEF RoundsTypeOK
<1>13. /\ requestId \in [Hosts -> Ids] /\ phase \in [Hosts -> Phases]
       /\ restarts \in Nat /\ late \in Nat /\ y.label \in Nat /\ y.id \in Ids
  BY <1>2, <1>9 DEF RoundsTypeOK, Marks
<1>14. record \in [Hosts -> Seq(AllFrames)]
  <2>1. \A g \in Hosts : record[g] \in Seq(TrueRecords(g))
    BY DEF RoutingInv, RecordsTrue
  <2>2. \A g \in Hosts : TrueRecords(g) \subseteq AllFrames
    BY OwnerIsHost DEF TrueRecords, AllFrames, FramesTo
  <2>3. \A g \in Hosts : record[g] \in Seq(AllFrames)
    BY <2>1, <2>2
  <2> QED
    BY <2>3 DEF RoutingInv, RecordsTrue
<1>15. DownEmpty'
  <2> HIDE DEF f, h
  <2>1. record' = [record EXCEPT ![h] = RecordAnswer(h, f)] /\ up' = up /\ up[h]
    BY <1>1
  <2>2. ASSUME NEW k \in Hosts, ~up[k] PROVE record'[k] = <<>>
    <3>1. record[k] = <<>> /\ k # h
      BY <1>2, <2>1, <2>2 DEF DownEmpty
    <3> QED
      BY <1>14, <2>1, <3>1
  <2>3. ASSUME NEW k \in Hosts, ~up[k], NEW e \in ToSet(DevicesOf[k]) PROVE wire'[e] = <<>>
    <3>1. wire[e] = <<>> /\ e \in Devices /\ Owner(e) = k
      BY <1>2, <2>3, OwnerIsHost DEF DownEmpty
    <3>2. e # d
      BY <2>1, <2>3, <3>1 DEF h
    <3> QED
      BY <1>1, <3>1, <3>2, WireTyped DEF Received, Wires
  <2> QED
    BY <2>1, <2>2, <2>3 DEF DownEmpty
<1>16. CASE f.id # requestId[h]
  <2>1. record' = record
    BY <1>1, <1>14, <1>16 DEF RecordAnswer
  <2>2. Ranked(r)'
    BY <1>1, <1>4, <2>1 DEF Ranked
  <2>3. ASSUME NEW e \in Devices PROVE PendingOK(n, r, e)'
    <3> SUFFICES ASSUME NEW z \in Pending(n, e) PROVE MarkOK(r, e, z)'
      BY DEF PendingOK
    <3>1. MarkOK(r, e, z)
      BY <1>4, <1>8 DEF PendingOK
    <3> QED
      BY <1>1, <2>1, <3>1, MarksKeptOK
  <2>4. Accounts(n, r)'
    BY <1>7, <1>8, <2>2, <2>3 DEF Accounts
  <2> QED
    BY <1>12, <1>15, <2>4 DEF RoundsInv
<1>17. CASE f.id = requestId[h]
  <2>1. PICK k \in Nat : k = RankOf(h, y)
    BY <1>13 DEF RankOf
  <2>2. PICK s : s = [r EXCEPT ![h] = Append(r[h], k)]
    OBVIOUS
  <2>4. k <= restarts + (IF phase[h] = "waiting" THEN 1 ELSE 0)
    <3>1. y.label <= restarts /\ (y.label = restarts => RecentRequest(h, y))
      BY <1>10 DEF MarkOK
    <3>2. Age(h, y.id) = 0
      BY <1>6, <1>9, <1>13, <1>17, AgesOfIds
    <3>3. phase[h] = "asking" => y.label # restarts
      BY <3>1, <3>2 DEF RecentRequest
    <3>4. phase[h] \in {"asking", "waiting", "rebuilt"}
      BY <1>6, <1>13 DEF Phases
    <3> HIDE DEF y, h
    <3> QED
      BY <1>13, <2>1, <3>1, <3>3, <3>4 DEF RankOf
  <2>5. ASSUME NEW i \in DOMAIN record[h], record[h][i].to = f.to PROVE r[h][i] < k
    <3>1. RanksAbove(h, r[h][i], y)
      BY <1>10, <1>11, <2>5 DEF MarkOK
    <3>2. r[h][i] \in Nat
      <4>1. r[h] \in Seq(Nat) /\ Len(r[h]) = Len(record[h]) /\ record[h] \in Seq(AllFrames)
        BY <1>4, <1>6, <1>14 DEF Ranked
      <4> QED
        BY <4>1
    <3>3. y.id = requestId[h]
      BY <1>9, <1>17
    <3> HIDE DEF y, h
    <3> QED
      BY <1>13, <2>1, <3>1, <3>2, <3>3 DEF RanksAbove, RankOf
  <2>6. /\ Ranked(s)'
        /\ \A g \in Hosts \ {h} : record'[g] = record[g] /\ s[g] = r[g]
        /\ \A i \in DOMAIN record'[h] :
              \/ i \in DOMAIN record[h] /\ record'[h][i] = record[h][i] /\ s[h][i] = r[h][i]
              \/ record'[h][i] = f /\ s[h][i] = k
    <3>1. PICK q, u : q = f /\ u = h
      OBVIOUS
    <3> HIDE DEF f, h
    <3>2. Recorded(r, s, u, q, k)
      BY <1>1, <1>4, <1>6, <1>11, <1>17, <2>2, <2>4, <2>5, <3>1 DEF Recorded, RecordAnswer
    <3>3. UNCHANGED <<phase, restarts>>
      BY <1>1
    <3>4. RecordedThen(r, s, u, q, k)
      BY <1>13, <1>14, <3>2, <3>3, RecordedRanked
    <3> QED
      BY <3>1, <3>4 DEF RecordedThen
  <2>7. ASSUME NEW e \in Devices, NEW z \in Pending(n, e) PROVE MarkOK(s, e, z)'
    <3>1. MarkOK(r, e, z) /\ Owner(e) \in Hosts
      BY <1>4, <1>8, OwnerIsHost DEF PendingOK
    <3>2. RecentRequest(Owner(e), z) => RecentRequest(Owner(e), z)'
      BY <1>1 DEF RecentRequest, Age
    <3>3. \A q : RanksAbove(Owner(e), q, z) => RanksAbove(Owner(e), q, z)'
      BY <1>1 DEF RanksAbove
    <3>4. ASSUME NEW i \in DOMAIN record'[Owner(e)], record'[Owner(e)][i].to = e
          PROVE  RanksAbove(Owner(e), s[Owner(e)][i], z)
      <4>1. CASE Owner(e) # h
        BY <2>6, <3>1, <3>4, <4>1 DEF MarkOK
      <4>2. CASE Owner(e) = h
        <5>1. CASE i \in DOMAIN record[h] /\ record'[h][i] = record[h][i] /\ s[h][i] = r[h][i]
          BY <3>1, <3>4, <4>2, <5>1 DEF MarkOK
        <5>2. CASE record'[h][i] = f /\ s[h][i] = k
          <6>1. e = d /\ Before(y, z) /\ z \in Marks
            BY <1>4, <1>8, <1>10, <1>11, <3>4, <4>2, <5>2, PendingMarks
          <6>2. z.label \in Nat
            BY <6>1 DEF Marks
          <6>3. y.id = requestId[h]
            BY <1>9, <1>17
          <6> HIDE DEF y, h
          <6>4. RanksAbove(h, k, z)
            BY <1>13, <2>1, <6>1, <6>2, <6>3 DEF RanksAbove, RankOf, Before
          <6> QED
            BY <4>2, <5>2, <6>4 DEF h
        <5> QED
          BY <2>6, <3>4, <4>2, <5>1, <5>2
      <4> QED
        BY <4>1, <4>2
    <3> QED
      BY <1>1, <3>1, <3>2, <3>3, <3>4 DEF MarkOK
  <2>8. Accounts(n, s)'
    BY <1>7, <1>8, <2>6, <2>7 DEF Accounts, PendingOK
  <2> QED
    BY <1>12, <1>15, <2>8 DEF RoundsInv
<1> QED
  BY <1>16, <1>17

\* The user's routes have nothing to do with it.
LEMMA UserRouteAccounted ==
  ASSUME RoundsInv, NEW h \in Hosts, UserAddRoutingEntry(h)
  PROVE  RoundsInv'
<1>1. UNCHANGED <<record, requestId, phase, up, wire, world, restarts, late>>
  BY DEF UserAddRoutingEntry
<1> QED
  BY <1>1, RoundsUnchanged

\* Where a host stops, what was on the wires to its devices is lost.
LEMMA LostInOrder ==
  ASSUME NEW m \in Wires(Marks), NEW n \in Wires(Marks),
         \A e \in Devices : n[e] = m[e] \/ n[e] = <<>>,
         NEW d \in Devices, InOrder(m, d)
  PROVE  InOrder(n, d) /\ Pending(n, d) \subseteq Pending(m, d)
<1>1. ASSUME NEW e \in Devices, NEW i \in DOMAIN n[e]
      PROVE  i \in DOMAIN m[e] /\ n[e][i] = m[e][i]
  OBVIOUS
<1>2. ASSUME NEW i \in AnswersTo(n, d) PROVE i \in AnswersTo(m, d) /\ n[d][i] = m[d][i]
  BY <1>1 DEF AnswersTo
<1>3. ASSUME NEW i \in RequestsOf(n, d)
      PROVE  i \in RequestsOf(m, d) /\ n[Peer[d]][i] = m[Peer[d]][i]
  BY <1>1 DEF RequestsOf
<1>4. InOrder(n, d)
  BY <1>2, <1>3 DEF InOrder
<1>5. Pending(n, d) \subseteq Pending(m, d)
  BY <1>2, <1>3 DEF Pending
<1> QED
  BY <1>4, <1>5

\* A host that stops forgets what it recorded.
LEMMA StopAccounted ==
  ASSUME RoutingInv, RoundsInv, NEW h \in Hosts, StopRouter(h)
  PROVE  RoundsInv'
<1>1. /\ up' = [up EXCEPT ![h] = FALSE] /\ record' = [record EXCEPT ![h] = <<>>]
      /\ wire' = [d \in Devices |-> IF Owner(d) = h THEN <<>> ELSE wire[d]]
      /\ UNCHANGED <<requestId, phase, world, restarts, late>>
  BY DEF StopRouter
<1>2. RoundsTypeOK /\ DownEmpty
  BY DEF RoundsInv
<1>3. PICK m, r : Accounts(m, r)
  BY DEF RoundsInv
<1>4. /\ Marked(wire, m) /\ m \in Wires(Marks) /\ Ranked(r)
      /\ \A e \in Devices : InOrder(m, e) /\ PendingOK(m, r, e)
  BY <1>3 DEF Accounts, Marked
<1>5. PICK n, s : /\ n = [d \in Devices |-> IF Owner(d) = h THEN <<>> ELSE m[d]]
                  /\ s = [r EXCEPT ![h] = <<>>]
  OBVIOUS
<1>6. n \in Wires(Marks) /\ \A e \in Devices : n[e] = m[e] \/ n[e] = <<>>
  <2>1. \A e \in Devices : n[e] \in Seq(Marks)
    BY <1>4, <1>5 DEF Wires
  <2> QED
    BY <1>5, <2>1 DEF Wires
<1>7. Marked(wire', n)
  <2>1. ASSUME NEW e \in Devices
        PROVE  /\ Len(n[e]) = Len(wire'[e])
               /\ \A i \in DOMAIN n[e] : n[e][i].op = wire'[e][i].op /\ n[e][i].id = wire'[e][i].id
    <3>1. CASE Owner(e) = h
      <4>1. n[e] = <<>> /\ wire'[e] = <<>>
        BY <1>1, <1>5, <3>1
      <4> QED
        BY <4>1
    <3>2. CASE Owner(e) # h
      BY <1>1, <1>4, <1>5, <3>2 DEF Marked
    <3> QED
      BY <3>1, <3>2
  <2> QED
    BY <1>6, <2>1 DEF Marked
<1>8. \A e \in Devices : InOrder(n, e) /\ Pending(n, e) \subseteq Pending(m, e)
  BY <1>4, <1>6, LostInOrder
<1>9. /\ r \in [Hosts -> Seq(Nat)] /\ s \in [Hosts -> Seq(Nat)]
      /\ record'[h] = <<>> /\ s[h] = <<>>
      /\ \A g \in Hosts \ {h} : record'[g] = record[g] /\ s[g] = r[g]
  <2>1. r \in [Hosts -> Seq(Nat)] /\ record = [g \in Hosts |-> record[g]]
    BY <1>4 DEF Ranked, RoutingInv, RecordsTrue
  <2> QED
    BY <1>1, <1>5, <2>1
<1>10. Ranked(s)'
  <2>1. ASSUME NEW g \in Hosts
        PROVE  /\ Len(s[g]) = Len(record'[g])
               /\ \A i, j \in DOMAIN record'[g] :
                      i < j /\ record'[g][i].to = record'[g][j].to => s[g][i] < s[g][j]
               /\ \A i \in DOMAIN record'[g] :
                      s[g][i] <= restarts' + (IF phase'[g] = "waiting" THEN 1 ELSE 0)
    <3>1. CASE g = h
      BY <1>9, <3>1
    <3>2. CASE g # h
      BY <1>1, <1>4, <1>9, <3>2 DEF Ranked
    <3> QED
      BY <3>1, <3>2
  <2> QED
    BY <1>9, <2>1 DEF Ranked
<1>11. ASSUME NEW e \in Devices, NEW x \in Pending(n, e) PROVE MarkOK(s, e, x)'
  <2>1. MarkOK(r, e, x) /\ Owner(e) \in Hosts
    BY <1>4, <1>8, OwnerIsHost DEF PendingOK
  <2>2. RecentRequest(Owner(e), x) => RecentRequest(Owner(e), x)'
    BY <1>1 DEF RecentRequest, Age
  <2>3. \A k : RanksAbove(Owner(e), k, x) => RanksAbove(Owner(e), k, x)'
    BY <1>1 DEF RanksAbove
  <2>4. ASSUME NEW i \in DOMAIN record'[Owner(e)], record'[Owner(e)][i].to = e
        PROVE  RanksAbove(Owner(e), s[Owner(e)][i], x)
    <3>1. Owner(e) # h
      BY <1>9, <2>4
    <3> QED
      BY <1>9, <2>1, <2>4, <3>1 DEF MarkOK
  <2> QED
    BY <1>1, <2>1, <2>2, <2>3, <2>4 DEF MarkOK
<1>12. DownEmpty'
  <2>1. ASSUME NEW k \in Hosts, ~up'[k] PROVE record'[k] = <<>>
    BY <1>1, <1>2, <1>9, <2>1 DEF DownEmpty, RoundsTypeOK
  <2>2. ASSUME NEW k \in Hosts, ~up'[k], NEW e \in ToSet(DevicesOf[k]) PROVE wire'[e] = <<>>
    <3>1. e \in Devices /\ Owner(e) = k
      BY OwnerIsHost
    <3>2. k # h => wire[e] = <<>>
      BY <1>1, <1>2, <2>2 DEF DownEmpty, RoundsTypeOK
    <3> QED
      BY <1>1, <3>1, <3>2
  <2> QED
    BY <2>1, <2>2 DEF DownEmpty
<1>13. RoundsTypeOK'
  BY <1>1, <1>2 DEF RoundsTypeOK
<1>14. Accounts(n, s)'
  BY <1>7, <1>8, <1>10, <1>11 DEF Accounts, PendingOK
<1> QED
  BY <1>12, <1>13, <1>14 DEF RoundsInv

\* A host that starts again asks from id 0: what it asked for before is older.
LEMMA StartAccounted ==
  ASSUME RoutingInv, RoundsInv, NEW h \in Hosts, StartRouter(h)
  PROVE  RoundsInv'
<1>1. /\ ~up[h] /\ up' = [up EXCEPT ![h] = TRUE] /\ restarts' = restarts + 1
      /\ requestId' = [requestId EXCEPT ![h] = 0] /\ phase' = [phase EXCEPT ![h] = "asking"]
      /\ UNCHANGED <<record, wire, world, late>>
  BY DEF StartRouter
<1>2. RoundsTypeOK /\ DownEmpty
  BY DEF RoundsInv
<1>3. PICK m, r : Accounts(m, r)
  BY DEF RoundsInv
<1>4. /\ Marked(wire, m) /\ m \in Wires(Marks) /\ Ranked(r)
      /\ \A e \in Devices : InOrder(m, e) /\ PendingOK(m, r, e)
  BY <1>3 DEF Accounts, Marked
<1>5. record[h] = <<>> /\ restarts \in Nat
  BY <1>1, <1>2 DEF DownEmpty, RoundsTypeOK
<1>6. \A g \in Hosts \ {h} : phase'[g] = phase[g] /\ requestId'[g] = requestId[g]
  BY <1>1, <1>2 DEF RoundsTypeOK
<1>7. Ranked(r)'
  <2>1. ASSUME NEW g \in Hosts, NEW i \in DOMAIN record[g]
        PROVE  r[g][i] <= restarts' + (IF phase'[g] = "waiting" THEN 1 ELSE 0)
    <3>1. g # h
      BY <1>5, <2>1
    <3>2. r[g][i] <= restarts + (IF phase[g] = "waiting" THEN 1 ELSE 0)
      BY <1>4, <2>1 DEF Ranked
    <3>3. r[g][i] \in Nat
      <4>1. r[g] \in Seq(Nat) /\ Len(r[g]) = Len(record[g])
        BY <1>4 DEF Ranked
      <4>2. record[g] \in Seq(TrueRecords(g))
        BY DEF RoutingInv, RecordsTrue
      <4> QED
        BY <2>1, <4>1, <4>2
    <3>4. phase'[g] = phase[g]
      BY <1>6, <3>1
    <3> QED
      BY <1>1, <1>5, <3>2, <3>3, <3>4
  <2> QED
    BY <1>1, <1>4, <2>1 DEF Ranked
<1>8. ASSUME NEW e \in Devices, NEW x \in Pending(m, e) PROVE MarkOK(r, e, x)'
  <2>1. MarkOK(r, e, x) /\ Owner(e) \in Hosts /\ x \in Marks
    BY <1>4, OwnerIsHost, PendingMarks DEF PendingOK
  <2>2. x.label \in Nat /\ x.label <= restarts
    BY <2>1 DEF Marks, MarkOK
  <2>3. x.label <= restarts' /\ x.label # restarts'
    BY <1>1, <1>5, <2>2
  <2>4. ASSUME NEW i \in DOMAIN record[Owner(e)], record[Owner(e)][i].to = e
        PROVE  RanksAbove(Owner(e), r[Owner(e)][i], x)'
    <3>1. Owner(e) # h
      BY <1>5, <2>4
    <3>2. RanksAbove(Owner(e), r[Owner(e)][i], x)
      BY <2>1, <2>4 DEF MarkOK
    <3>3. phase'[Owner(e)] = phase[Owner(e)] /\ requestId'[Owner(e)] = requestId[Owner(e)]
      BY <1>6, <2>1, <3>1
    <3> QED
      BY <3>2, <3>3 DEF RanksAbove
  <2> QED
    BY <1>1, <2>3, <2>4 DEF MarkOK
<1>9. DownEmpty'
  BY <1>1, <1>2 DEF DownEmpty, RoundsTypeOK
<1>10. RoundsTypeOK'
  <2>1. 0 \in Ids
    BY RoutingAssumption DEF Ids
  <2> QED
    BY <1>1, <1>2, <1>5, <2>1 DEF RoundsTypeOK, Phases
<1>11. Accounts(m, r)'
  BY <1>1, <1>4, <1>7, <1>8 DEF Accounts, PendingOK
<1> QED
  BY <1>9, <1>10, <1>11 DEF RoundsInv

\* At first nothing is on its way and nothing recorded.
LEMMA RoundsStart ==
  RoutingInit => RoundsInv
<1> SUFFICES ASSUME RoutingInit PROVE RoundsInv
  OBVIOUS
<1>1. RoundsTypeOK
  BY RoutingAssumption DEF RoutingInit, RoundsTypeOK, Ids, Phases
<1>2. DownEmpty
  BY OwnerIsHost DEF RoutingInit, DownEmpty
<1>3. PICK m, r : m = [d \in Devices |-> <<>>] /\ r = [h \in Hosts |-> <<>>]
  OBVIOUS
<1>4. m \in Wires(Marks) /\ \A d \in Devices : m[d] = <<>>
  BY <1>3 DEF Wires
<1>5. Marked(wire, m)
  BY <1>4 DEF RoutingInit, Marked
<1>6. Ranked(r)
  <2>1. r \in [Hosts -> Seq(Nat)] /\ \A h \in Hosts : r[h] = <<>> /\ record[h] = <<>>
    BY <1>3 DEF RoutingInit
  <2> QED
    BY <2>1 DEF Ranked
<1>7. \A d \in Devices : AnswersTo(m, d) = {} /\ RequestsOf(m, d) = {}
  BY <1>4 DEF AnswersTo, RequestsOf
<1>8. \A d \in Devices : InOrder(m, d) /\ PendingOK(m, r, d)
  BY <1>7 DEF InOrder, PendingOK, Pending
<1> QED
  BY <1>1, <1>2, <1>5, <1>6, <1>8 DEF RoundsInv, Accounts

\* Products grow with their factors.
LEMMA LargerProduct ==
  ASSUME NEW a \in Nat, NEW b \in Nat, NEW c \in Nat, a <= b
  PROVE  a * c <= c * b
<1>1. PICK k \in Nat : b = a + k
  <2>1. b - a \in Nat /\ b = a + (b - a)
    OBVIOUS
  <2> QED
    BY <2>1
<1>2. c * b = a * c + c * k
  BY <1>1
<1>3. c * k >= 0
  OBVIOUS
<1> QED
  BY <1>2, <1>3

\* Per device there is at most one answer of each rank.
LEMMA RanksCount ==
  ASSUME RoutingInv, RoundsInv, NEW h \in Hosts
  PROVE  Len(record[h]) <= (2 + restarts) * Len(DevicesOf[h])
<1>1. PICK m, r : Accounts(m, r)
  BY DEF RoundsInv
<1>2. /\ restarts \in Nat /\ Ranked(r) /\ record[h] \in Seq(TrueRecords(h))
      /\ r[h] \in Seq(Nat) /\ Len(r[h]) = Len(record[h])
      /\ DevicesOf[h] \in Seq(ToSet(DevicesOf[h]))
  BY <1>1, RoutingAssumption DEF Accounts, RoundsInv, RoundsTypeOK, RoutingInv, RecordsTrue, Ranked
<1> DEFINE ds == ToSet(DevicesOf[h])
           count == Len(record[h])
           slots == ds \X (0 .. restarts + 1)
           slot == [i \in 1 .. count |-> <<record[h][i].to, r[h][i]>>]
<1>3. count \in Nat /\ DOMAIN record[h] = 1 .. count /\ Len(DevicesOf[h]) \in Nat
  BY <1>2
<1>4. ASSUME NEW i \in 1 .. count
      PROVE  record[h][i].to \in ds /\ r[h][i] \in 0 .. restarts + 1
  <2>1. record[h][i] \in TrueRecords(h) /\ r[h][i] \in Nat
    BY <1>2, <1>4
  <2>2. r[h][i] <= restarts + (IF phase[h] = "waiting" THEN 1 ELSE 0)
    BY <1>2, <1>3, <1>4 DEF Ranked
  <2>3. record[h][i].to \in ds
    BY <2>1 DEF TrueRecords, TrueAnswers
  <2> QED
    BY <1>2, <2>1, <2>2, <2>3
<1>5. ASSUME NEW i \in 1 .. count, NEW j \in 1 .. count, slot[i] = slot[j]
      PROVE  i = j
  <2>1. record[h][i].to = record[h][j].to /\ r[h][i] = r[h][j]
    BY <1>5
  <2>2. r[h][i] \in Nat
    BY <1>2, <1>5
  <2>3. ASSUME NEW k \in 1 .. count, NEW l \in 1 .. count, record[h][k].to = record[h][l].to, k < l
        PROVE  r[h][k] < r[h][l]
    BY <1>2, <1>3, <2>3 DEF Ranked
  <2>4. i \in Int /\ j \in Int /\ ~(i < j) /\ ~(j < i)
    BY <2>1, <2>2, <2>3
  <2> QED
    BY <2>4
<1>6. slot \in Injection(1 .. count, slots)
  <2>1. slot \in [1 .. count -> slots]
    BY <1>4
  <2>2. DOMAIN slot = 1 .. count
    OBVIOUS
  <2> HIDE DEF slot, slots, count
  <2> QED
    BY <1>5, <2>1, <2>2 DEF Injection, IsInjective
<1>7. IsFiniteSet(ds) /\ Cardinality(ds) <= Len(DevicesOf[h]) /\ Cardinality(ds) \in Nat
  <2> DEFINE n == Len(DevicesOf[h])
  <2>1. DevicesOf[h] \in Surjection(1 .. n, ds)
    <3>1. DevicesOf[h] \in [1 .. n -> ds]
      BY <1>2
    <3>2. \A d \in ds : \E i \in 1 .. n : DevicesOf[h][i] = d
      BY <1>2 DEF ToSet
    <3> QED
      BY <3>1, <3>2 DEF Surjection
  <2>n. n \in Nat
    BY <1>3
  <2> HIDE DEF n
  <2>2. IsFiniteSet(1 .. n) /\ Cardinality(1 .. n) = n
    BY <2>n, FS_Interval
  <2>3. IsFiniteSet(ds) /\ Cardinality(ds) <= n
    BY <2>1, <2>2, FS_Surjection
  <2> QED
    BY <2>3, FS_CardinalityType DEF n
<1>8. /\ IsFiniteSet(0 .. restarts + 1)
      /\ Cardinality(0 .. restarts + 1) = restarts + 2
  <2>1. restarts + 1 \in Int /\ ~(0 > restarts + 1) /\ restarts + 1 - 0 + 1 = restarts + 2
    BY <1>2
  <2> QED
    BY <2>1, FS_Interval
<1>9. IsFiniteSet(slots) /\ Cardinality(slots) = Cardinality(ds) * (restarts + 2)
  BY <1>7, <1>8, FS_Product
<1>10. count <= Cardinality(slots)
  <2>n. count \in Nat
    BY <1>3
  <2> HIDE DEF slots, slot, count
  <2>1. IsFiniteSet(1 .. count) /\ Cardinality(1 .. count) = count
    BY <2>n, FS_Interval
  <2> QED
    BY <1>6, <1>9, <2>1, FS_Injection
<1>11. Cardinality(ds) * (restarts + 2) <= (restarts + 2) * Len(DevicesOf[h])
  <2>1. restarts + 2 \in Nat
    BY <1>2
  <2> QED
    BY <1>3, <1>7, <2>1, LargerProduct
<1>12. restarts + 2 = 2 + restarts
  BY <1>2
<1> HIDE DEF slots
<1>13. Cardinality(ds) * (restarts + 2) \in Int /\ (restarts + 2) * Len(DevicesOf[h]) \in Int
  BY <1>2, <1>3, <1>7
<1> QED
  BY <1>3, <1>9, <1>10, <1>11, <1>12, <1>13

\* For any hosts, however they are linked, however often they stop and start
\* again, and as long as fewer rounds are late than there are request ids:
\* between two rebuilds no device is answered more than twice, or once more
\* per restart.  This is all the room the record array of route_frame_handler
\* needs, which network/routing.c never checks.
THEOREM RecordsStayBounded ==
  RoutingSpec => []RecordsBounded
<1>1. RoutingInv /\ RoundsInv /\ [RoutingNext]_RoutingVars => RoundsInv'
  <2> SUFFICES ASSUME RoutingInv, RoundsInv, [RoutingNext]_RoutingVars PROVE RoundsInv'
    OBVIOUS
  <2>1. CASE UNCHANGED RoutingVars
    BY <2>1, RoundsUnchanged DEF RoutingVars
  <2>2. ASSUME NEW h \in Hosts,
               RoutingRoutine(h) \/ UserAddRoutingEntry(h) \/ StopRouter(h) \/ StartRouter(h)
        PROVE  RoundsInv'
    BY <2>2, RequestsAccounted, UpdateAccounted, NextRoundAccounted, UserRouteAccounted,
       StopAccounted, StartAccounted
       DEF RoutingRoutine
  <2>3. ASSUME NEW d \in Devices, RouteFrameHandler(d) PROVE RoundsInv'
    BY <2>3, RequestArrivalAccounted, ReplyArrivalAccounted DEF RouteFrameHandler
  <2> QED
    BY <2>1, <2>2, <2>3 DEF RoutingNext
<1>2. RoutingInv /\ RoundsInv => RecordsBounded
  BY RanksCount DEF RecordsBounded
<1> QED
  BY <1>1, <1>2, RoutingStarts, RoundsStart, RoutingKeeps, PTL DEF RoutingSpec

-----------------------------------------------------------------------------
(***************************************************************************)
(* IP packets                                                              *)
(***************************************************************************)

\* Do the offsets, which count units, say where a fragment begins?
Aligned == FragSize % Unit = 0

\* Where the pieces of a packet begin
Starts == {k * FragSize : k \in Nat}

\* The piece of packet q that begins after b blocks
PiecesOf(q) ==
    {p \in [id : {q}, dst : {q.dst}, off : Nat, mf : BOOLEAN, ttl : Int, data : Seq({q} \X Nat)] :
        \E b \in Starts :
            /\ b < q.size /\ p.off = b \div Unit /\ p.mf = (b + FragSize < q.size)
            /\ Len(p.data) = Smaller(b + FragSize, q.size) - b
            /\ \A i \in DOMAIN p.data : p.data[i] = <<q, b + i>>}

AllPieces == UNION {PiecesOf(q) : q \in Packets}

\* A device belongs to one host of the network.
LEMMA HostOfDevice ==
  /\ \A d \in AllDevs : HostOf(d) \in IpHosts /\ d \in ToSet(DevsOf[HostOf(d)])
  /\ \A h \in IpHosts : \A d \in ToSet(DevsOf[h]) : d \in AllDevs /\ HostOf(d) = h
<1>1. ASSUME NEW d \in AllDevs PROVE HostOf(d) \in IpHosts /\ d \in ToSet(DevsOf[HostOf(d)])
  <2>1. \E h \in IpHosts : d \in ToSet(DevsOf[h])
    BY DEF AllDevs
  <2> QED
    BY <2>1 DEF HostOf
<1>2. ASSUME NEW h \in IpHosts, NEW d \in ToSet(DevsOf[h]) PROVE d \in AllDevs /\ HostOf(d) = h
  <2>1. d \in AllDevs
    BY DEF AllDevs
  <2>2. HostOf(d) \in IpHosts /\ d \in ToSet(DevsOf[HostOf(d)])
    BY <1>1, <2>1
  <2>3. \A a, b \in IpHosts : a # b => ToSet(DevsOf[a]) \cap ToSet(DevsOf[b]) = {}
    BY IpAssumption
  <2> QED
    BY <2>1, <2>2, <2>3
<1> QED
  BY <1>1, <1>2

\* The sizes are positive numbers.
LEMMA IpNumbers ==
  /\ FragSize \in Nat /\ FragSize >= 1 /\ Unit \in Nat /\ Unit >= 1
  /\ MaxPayload \in Nat /\ HeaderSize \in Nat /\ InitialTTL \in Nat
  /\ \A q \in Packets : q.size \in Nat /\ q.size >= 1
BY IpAssumption

\* Products keep the order.
LEMMA TimesMonotone ==
  ASSUME NEW a \in Nat, NEW b \in Nat, a <= b, NEW f \in Nat
  PROVE  a * f <= b * f
OBVIOUS

\* The quotient of a number by another, and what is left
LEMMA Quotient ==
  ASSUME NEW a \in Nat, NEW u \in Nat, u >= 1
  PROVE  /\ a \div u \in Nat /\ a % u \in 0 .. u - 1
         /\ a = u * (a \div u) + (a % u)
<1>1. a \div u \in Nat
  OBVIOUS
<1>2. a % u \in 0 .. u - 1
  OBVIOUS
<1>3. a = u * (a \div u) + (a % u)
  OBVIOUS
<1> QED
  BY <1>1, <1>2, <1>3

\* A multiple of whole units is counted by its units.
LEMMA QuotientOfMultiple ==
  ASSUME NEW c \in Nat, NEW u \in Nat, u >= 1
  PROVE  (c * u) \div u = c
<1>1. c * u \in Nat
  OBVIOUS
<1>2. /\ (c * u) \div u \in Nat /\ (c * u) % u \in 0 .. u - 1
      /\ c * u = u * ((c * u) \div u) + ((c * u) % u)
  BY <1>1, Quotient
<1> DEFINE x == (c * u) \div u
           r == (c * u) % u
<1>3. x \in Nat /\ r \in 0 .. u - 1 /\ c * u = u * x + r
  BY <1>2
<1> HIDE DEF x, r
<1>4. ~(x < c)
  <2> SUFFICES ASSUME x < c PROVE FALSE
    OBVIOUS
  <2>1. u * (x + 1) <= u * c
    BY <1>3
  <2> QED
    BY <1>3, <2>1
<1>5. ~(c < x)
  <2> SUFFICES ASSUME c < x PROVE FALSE
    OBVIOUS
  <2>1. u * (c + 1) <= u * x
    BY <1>3
  <2> QED
    BY <1>3, <2>1
<1>6. x = c
  BY <1>3, <1>4, <1>5
<1> QED
  BY <1>6 DEF x

\* Quotients keep the order.
LEMMA QuotientMonotone ==
  ASSUME NEW a \in Nat, NEW b \in Nat, a <= b, NEW u \in Nat, u >= 1
  PROVE  u * (a \div u) <= u * (b \div u)
<1> DEFINE x == a \div u
           y == b \div u
           r == a % u
           s == b % u
<1>1. x \in Nat /\ y \in Nat /\ r \in 0 .. u - 1 /\ s \in 0 .. u - 1 /\ a = u * x + r /\ b = u * y + s
  BY Quotient
<1> HIDE DEF x, y, r, s
<1>2. ~(y < x)
  <2> SUFFICES ASSUME y < x PROVE FALSE
    OBVIOUS
  <2>1. u * (y + 1) <= u * x
    BY <1>1
  <2> QED
    BY <1>1, <2>1
<1>3. x <= y
  BY <1>1, <1>2
<1>4. u * x <= u * y
  BY <1>1, <1>3
<1> QED
  BY <1>4 DEF x, y

\* The offset of a piece that is not the first says where it begins, or is out
\* of reach of what fits a frame.
LEMMA OffsetsOfStarts ==
  ASSUME NEW b \in Starts
  PROVE  /\ b \in Nat /\ b \div Unit \in Nat
         /\ b = 0 => b \div Unit = 0
         /\ b # 0 => b >= FragSize
         /\ b # 0 => \/ Aligned /\ (b \div Unit) * Unit = b
                     \/ ~Aligned /\ (b \div Unit) * Unit + HeaderSize > MaxPayload
<1>1. PICK k \in Nat : b = k * FragSize
  BY DEF Starts
<1>2. b \in Nat
  BY <1>1, IpNumbers
<1>3. b \div Unit \in Nat /\ b % Unit \in 0 .. Unit - 1 /\ b = Unit * (b \div Unit) + (b % Unit)
  BY <1>2, IpNumbers, Quotient
<1>4. b = 0 => b \div Unit = 0
  <2> SUFFICES ASSUME b = 0 PROVE b \div Unit = 0
    OBVIOUS
  <2>1. (0 * Unit) \div Unit = 0
    BY IpNumbers, QuotientOfMultiple
  <2>2. 0 * Unit = 0
    BY IpNumbers
  <2> QED
    BY <2>1, <2>2
<1>5. b # 0 => b >= FragSize
  <2> SUFFICES ASSUME k # 0 PROVE k * FragSize >= FragSize
    BY <1>1, IpNumbers
  <2> QED
    BY IpNumbers
<1>6. FragSize = Unit * (FragSize \div Unit) + (FragSize % Unit) /\ FragSize \div Unit \in Nat
      /\ FragSize % Unit \in Nat
  BY IpNumbers, Quotient
<1>7. ASSUME Aligned PROVE (b \div Unit) * Unit = b
  <2> DEFINE c == FragSize \div Unit
  <2>1. FragSize = Unit * c /\ c \in Nat
    <3>1. FragSize % Unit = 0
      BY <1>7 DEF Aligned
    <3>2. FragSize = Unit * c + 0 /\ Unit * c \in Nat /\ c \in Nat
      BY <1>6, <3>1, IpNumbers
    <3> DEFINE y == Unit * c
    <3> HIDE DEF y
    <3>3. FragSize = y + 0 /\ y \in Nat
      BY <3>2 DEF y
    <3> QED
      BY <3>2, <3>3 DEF y
  <2> HIDE DEF c
  <2>2. b = (k * c) * Unit /\ k * c \in Nat
    BY <1>1, <2>1, IpNumbers
  <2> DEFINE m == k * c
  <2> HIDE DEF m
  <2>3. b = m * Unit /\ m \in Nat
    BY <2>2 DEF m
  <2>4. b \div Unit = m
    BY <2>3, QuotientOfMultiple, IpNumbers
  <2> QED
    BY <2>3, <2>4
<1>8. ASSUME ~Aligned, b # 0 PROVE (b \div Unit) * Unit + HeaderSize > MaxPayload
  <2>1. (FragSize - (FragSize % Unit)) + HeaderSize > MaxPayload
    BY <1>8, IpAssumption DEF Aligned
  <2>2. Unit * (FragSize \div Unit) <= Unit * (b \div Unit)
    BY <1>2, <1>5, <1>8, IpNumbers, QuotientMonotone
  <2> DEFINE x == Unit * (FragSize \div Unit)
             y == Unit * (b \div Unit)
  <2>3. x \in Nat /\ y \in Nat /\ y = (b \div Unit) * Unit
    BY <1>3, <1>6, IpNumbers
  <2>4. FragSize = x + (FragSize % Unit) /\ x <= y
    BY <1>6, <2>2
  <2> HIDE DEF x, y
  <2>5. y + HeaderSize > MaxPayload
    BY <1>6, <2>1, <2>3, <2>4, IpNumbers
  <2> QED
    BY <2>3, <2>5
<1> QED
  BY <1>2, <1>3, <1>4, <1>5, <1>7, <1>8

\* A piece has no more blocks than IP_FRAG_SIZE, and at least one.
LEMMA PieceLength ==
  ASSUME NEW q \in Packets, NEW p \in PiecesOf(q)
  PROVE  /\ Len(p.data) \in Nat /\ 1 <= Len(p.data) /\ Len(p.data) <= FragSize
         /\ p.id = q /\ p.dst = q.dst
<1>1. PICK b \in Starts : b < q.size /\ Len(p.data) = Smaller(b + FragSize, q.size) - b
  BY DEF PiecesOf
<1>2. b \in Nat /\ q.size \in Nat
  BY OffsetsOfStarts, IpNumbers
<1>3. 1 <= Len(p.data) /\ Len(p.data) <= FragSize /\ Len(p.data) \in Nat
  BY <1>1, <1>2, IpNumbers DEF Smaller
<1> QED
  BY <1>3 DEF PiecesOf

\* What is forwarded is a piece already: it is not cut again.
LEMMA PieceIsWhole ==
  ASSUME NEW q \in Packets, NEW p \in PiecesOf(q), NEW ttl \in Int
  PROVE  /\ [p EXCEPT !.ttl = ttl] \in PiecesOf(q)
         /\ Pieces([p EXCEPT !.ttl = ttl]) = <<[p EXCEPT !.ttl = ttl]>>
<1> DEFINE r == [p EXCEPT !.ttl = ttl]
<1>1. /\ r \in [id : {q}, dst : {q.dst}, off : Nat, mf : BOOLEAN, ttl : Int, data : Seq({q} \X Nat)]
      /\ r.off = p.off /\ r.mf = p.mf /\ r.data = p.data
  BY DEF PiecesOf
<1> HIDE DEF r
<1>2. PICK b \in Starts :
        /\ b < q.size /\ p.off = b \div Unit /\ p.mf = (b + FragSize < q.size)
        /\ Len(p.data) = Smaller(b + FragSize, q.size) - b
        /\ \A i \in DOMAIN p.data : p.data[i] = <<q, b + i>>
  BY DEF PiecesOf
<1>3. r \in PiecesOf(q)
  BY <1>1, <1>2 DEF PiecesOf
<1>4. Len(r.data) <= FragSize
  BY <1>1, PieceLength
<1>5. Pieces(r) = <<r>>
  BY <1>4 DEF Pieces
<1> QED
  BY <1>3, <1>5 DEF r

\* A packet is cut into its pieces, and only the last of them says so.
LEMMA CutPieces ==
  ASSUME NEW q \in Packets, NEW ttl \in Int, NEW p,
         p = [id |-> q, dst |-> q.dst, off |-> 0, mf |-> FALSE, ttl |-> ttl,
              data |-> [k \in 1 .. q.size |-> <<q, k>>]]
  PROVE  /\ Pieces(p) \in Seq(PiecesOf(q)) /\ Pieces(p) # <<>>
         /\ \A i \in DOMAIN Pieces(p) : ~Pieces(p)[i].mf => i = Len(Pieces(p))
<1> DEFINE size == q.size
<1>1. size \in Nat /\ size >= 1
  BY IpNumbers
<1>2. /\ p.data = [k \in 1 .. size |-> <<q, k>>] /\ p.data \in Seq({q} \X Nat)
      /\ Len(p.data) = size /\ p.id = q /\ p.dst = q.dst /\ p.off = 0 /\ p.mf = FALSE /\ p.ttl = ttl
  <2> DEFINE blocks == {q} \X Nat
             all == [k \in 1 .. size |-> <<q, k>>]
  <2>1. \A k \in 1 .. size : <<q, k>> \in blocks
    BY <1>1
  <2>2. p.data = all /\ p.id = q /\ p.dst = q.dst /\ p.off = 0 /\ p.mf = FALSE /\ p.ttl = ttl
    OBVIOUS
  <2> HIDE DEF size, blocks
  <2>3. all \in Seq(blocks) /\ Len(all) = size
    BY <1>1, <2>1
  <2> QED
    BY <2>2, <2>3 DEF blocks
<1> HIDE DEF size
<1>3. CASE size <= FragSize
  <2>1. Pieces(p) = <<p>>
    BY <1>2, <1>3 DEF Pieces
  <2>2. 0 \in Starts /\ 0 \div Unit = 0
    <3>1. 0 * FragSize = 0
      BY IpNumbers
    <3>2. 0 \in Starts
      BY <3>1 DEF Starts
    <3> QED
      BY <3>2, OffsetsOfStarts
  <2>3. p \in PiecesOf(q)
    <3>1. p \in [id : {q}, dst : {q.dst}, off : Nat, mf : BOOLEAN, ttl : Int, data : Seq({q} \X Nat)]
      BY <1>2
    <3>2. /\ 0 < size /\ p.mf = (0 + FragSize < size) /\ Len(p.data) = Smaller(0 + FragSize, size) - 0
      <4>1. 0 < size /\ ~(0 + FragSize < size) /\ Len(p.data) = Smaller(0 + FragSize, size) - 0
        BY <1>1, <1>2, <1>3, IpNumbers DEF Smaller
      <4> DEFINE more == (0 + FragSize < size)
      <4>2. p.mf = FALSE /\ more = FALSE
        BY <1>2, <4>1
      <4>3. p.mf = more
        BY ONLY <4>2
      <4> QED
        BY <4>1, <4>3
    <3>3. \A i \in DOMAIN p.data : p.data[i] = <<q, 0 + i>>
      BY <1>1, <1>2
    <3> QED
      BY <1>2, <2>2, <3>1, <3>2, <3>3 DEF PiecesOf, size
  <2> DEFINE ps == Pieces(p)
             Pq == PiecesOf(q)
  <2>4. ps = <<p>> /\ p \in Pq
    BY <2>1, <2>3
  <2> HIDE DEF ps, Pq
  <2>5. ps \in Seq(Pq) /\ ps # <<>> /\ DOMAIN ps = {1} /\ Len(ps) = 1
    BY ONLY <2>4
  <2> QED
    BY <2>5 DEF ps, Pq
<1>4. CASE ~(size <= FragSize)
  <2> DEFINE n == (size + FragSize - 1) \div FragSize
             piece(k) == [p EXCEPT !.off = @ + ((k - 1) * FragSize) \div Unit,
                                   !.mf = @ \/ k * FragSize < size,
                                   !.data = SubSeq(p.data, (k - 1) * FragSize + 1,
                                                   Smaller(k * FragSize, size))]
  <2>1. Pieces(p) = [k \in 1 .. n |-> piece(k)]
    BY <1>2, <1>4 DEF Pieces
  <2>2. n \in Nat /\ n >= 1 /\ (n - 1) * FragSize < size /\ size <= n * FragSize
    <3>1. size + FragSize - 1 \in Nat /\ FragSize >= 1
      BY <1>1, IpNumbers
    <3>2. /\ n \in Nat /\ (size + FragSize - 1) % FragSize \in 0 .. FragSize - 1
          /\ size + FragSize - 1 = FragSize * n + ((size + FragSize - 1) % FragSize)
      BY <3>1, IpNumbers, Quotient
    <3> DEFINE r == (size + FragSize - 1) % FragSize
    <3>3. r \in 0 .. FragSize - 1 /\ size + FragSize - 1 = FragSize * n + r
      BY <3>2
    <3> HIDE DEF n, r
    <3>4. n # 0
      BY <1>1, <3>2, <3>3, IpNumbers
    <3>5. (n - 1) * FragSize = FragSize * n - FragSize /\ n * FragSize = FragSize * n
      BY <3>2, IpNumbers
    <3> QED
      BY <1>1, <3>2, <3>3, <3>4, <3>5, IpNumbers
  <2> HIDE DEF n
  <2>3. ASSUME NEW k \in 1 .. n
        PROVE  piece(k) \in PiecesOf(q) /\ (~piece(k).mf => k = n)
    <3> DEFINE b == (k - 1) * FragSize
    <3>1. b \in Nat /\ b < size /\ k * FragSize = b + FragSize
      <4>1. k - 1 \in Nat /\ k - 1 <= n - 1
        BY <2>2
      <4>2. (k - 1) * FragSize <= (n - 1) * FragSize
        BY <2>2, <4>1, IpNumbers, TimesMonotone
      <4>3. b \in Nat /\ (n - 1) * FragSize \in Nat
        BY <2>2, <4>1, IpNumbers
      <4>4. k * FragSize = b + FragSize
        BY <4>1, IpNumbers
      <4> DEFINE bound == (n - 1) * FragSize
      <4>5. b <= bound /\ bound < size /\ bound \in Nat
        BY <2>2, <4>2, <4>3
      <4> HIDE DEF b, bound
      <4> QED
        BY <1>1, <4>3, <4>4, <4>5
    <3>2. b \in Starts
      BY <2>2 DEF Starts
    <3> HIDE DEF b
    <3>3. b \div Unit \in Nat
      BY <3>2, OffsetsOfStarts
    <3>4. piece(k) = [p EXCEPT !.off = 0 + b \div Unit, !.mf = FALSE \/ b + FragSize < size,
                               !.data = SubSeq(p.data, b + 1, Smaller(b + FragSize, size))]
      BY <1>2, <3>1 DEF b
    <3> DEFINE data == SubSeq(p.data, b + 1, Smaller(b + FragSize, size))
               last == Smaller(b + FragSize, size)
    <3>5. last \in Nat /\ b + 1 <= last /\ last <= size
      BY <1>1, <3>1, IpNumbers DEF Smaller
    <3>6. /\ data \in Seq({q} \X Nat) /\ Len(data) = last - b
          /\ \A i \in DOMAIN data : data[i] = <<q, b + i>>
      <4> HIDE DEF last
      <4> HIDE DEF last
      <4>0. b \in Nat /\ last \in Nat /\ size \in Nat /\ b + 1 <= last /\ last <= size
        BY ONLY <1>1, <3>1, <3>5
      <4>1. p.data \in Seq({q} \X Nat) /\ Len(p.data) = size
        BY <1>2
      <4> DEFINE whole == p.data
      <4> HIDE DEF whole
      <4>2. whole \in Seq({q} \X Nat) /\ Len(whole) = size /\ data = SubSeq(whole, b + 1, last)
        BY <4>1 DEF whole, last
      <4> HIDE DEF data
      <4>3. /\ data \in Seq({q} \X Nat) /\ Len(data) = last - b
            /\ \A i \in 1 .. Len(data) : data[i] = whole[b + i]
        <5> DEFINE blocks == {q} \X Nat
        <5>1. whole \in Seq(blocks) /\ Len(whole) = size /\ data = SubSeq(whole, b + 1, last)
          BY <4>2
        <5> HIDE DEF blocks
        <5>2. data \in Seq(blocks)
          BY ONLY <4>0, <5>1
        <5>3. Len(data) = last - b
          BY ONLY <4>0, <5>1
        <5>4. \A i \in 1 .. Len(data) : data[i] = whole[b + i]
          BY ONLY <4>0, <5>1
        <5> QED
          BY <5>2, <5>3, <5>4 DEF blocks
      <4>4. ASSUME NEW i \in 1 .. Len(data) PROVE whole[b + i] = <<q, b + i>>
        <5>1. b + i \in 1 .. size
          BY ONLY <4>0, <4>3, i \in 1 .. Len(data)
        <5> QED
          BY <1>2, <5>1 DEF whole
      <4> QED
        BY <4>3, <4>4
    <3> HIDE DEF data, last, piece
    <3>7. piece(k) = [p EXCEPT !.off = b \div Unit, !.mf = (b + FragSize < size), !.data = data]
      <4>1. 0 + b \div Unit = b \div Unit
        BY <3>3
      <4>2. (FALSE \/ b + FragSize < size) = (b + FragSize < size)
        OBVIOUS
      <4> QED
        BY <3>4, <4>1, <4>2, Zenon DEF data, last
    <3>8. piece(k) = [id |-> q, dst |-> q.dst, off |-> b \div Unit, mf |-> (b + FragSize < size),
                      ttl |-> ttl, data |-> data]
      BY <1>2, <3>7
    <3> DEFINE off == b \div Unit
               more == (b + FragSize < size)
    <3>9. off \in Nat /\ more \in BOOLEAN
      BY <3>3
    <3>10. /\ b < q.size /\ off = b \div Unit /\ more = (b + FragSize < q.size)
           /\ Len(data) = Smaller(b + FragSize, q.size) - b
      BY <3>1, <3>6 DEF size, last
    <3> HIDE DEF off, more
    <3>11. piece(k) = [id |-> q, dst |-> q.dst, off |-> off, mf |-> more, ttl |-> ttl, data |-> data]
      BY <3>8 DEF off, more
    <3>12. piece(k) \in [id : {q}, dst : {q.dst}, off : Nat, mf : BOOLEAN, ttl : Int, data : Seq({q} \X Nat)]
      BY <3>6, <3>9, <3>11
    <3>13. piece(k).off = off /\ piece(k).mf = more /\ piece(k).data = data
      BY <3>11
    <3>14. piece(k) \in PiecesOf(q)
      BY <3>2, <3>6, <3>10, <3>12, <3>13 DEF PiecesOf
    <3>15. ~more => k = n
      <4> SUFFICES ASSUME k # n PROVE b + FragSize < size
        BY DEF more
      <4>1. k \in Nat /\ k <= n - 1 /\ n - 1 \in Nat
        BY <2>2
      <4> DEFINE bound == (n - 1) * FragSize
      <4>2. k * FragSize <= bound
        BY <4>1, IpNumbers, TimesMonotone
      <4>3. bound < size /\ bound \in Nat
        BY <2>2, <4>1, IpNumbers
      <4>4. k * FragSize = b + FragSize /\ b + FragSize \in Nat
        BY <3>1, IpNumbers
      <4> HIDE DEF bound
      <4> QED
        BY <1>1, <4>2, <4>3, <4>4
    <3> QED
      BY <3>13, <3>14, <3>15
  <2> HIDE DEF piece
  <2> DEFINE ps == Pieces(p)
             Pq == PiecesOf(q)
  <2>4. ps = [k \in 1 .. n |-> piece(k)] /\ \A k \in 1 .. n : piece(k) \in Pq /\ (~piece(k).mf => k = n)
    BY <2>1, <2>3
  <2> HIDE DEF ps, Pq
  <2>5. /\ ps \in Seq(Pq) /\ Len(ps) = n /\ DOMAIN ps = 1 .. n
        /\ \A k \in 1 .. n : ps[k] = piece(k)
    BY <2>2, <2>4
  <2>6. ps # <<>>
    BY <2>2, <2>5
  <2> QED
    BY <2>4, <2>5, <2>6 DEF ps, Pq
<1> QED
  BY <1>3, <1>4

-----------------------------------------------------------------------------
(***************************************************************************)
(* The invariant of the packets on their way and in the buffers            *)
(***************************************************************************)

\* What the wire carries: pieces that fit a frame.
Frames == [mac : AllDevs \cup {BroadcastAddr}, ip : {p \in AllPieces : FitsFrame(p)}]

\* What ip_callback is called with.
Deliveries == [at : IpHosts, id : Packets, data : Seq(Packets \X Nat)]

\* A call of forwardPacket in progress: it has pieces of one packet left, and
\* none but the last of them is the end of the packet.
IsCall(c) ==
    /\ c = [host |-> c.host, callback |-> c.callback, pieces |-> c.pieces, mac |-> c.mac,
            dev |-> c.dev]
    /\ \E q \in sent : c.pieces \in Seq(PiecesOf(q)) /\ c.pieces # <<>>
    /\ \A i \in DOMAIN c.pieces : ~c.pieces[i].mf => i = Len(c.pieces)

IpTypeOK ==
    /\ toSend \subseteq Packets /\ sent \subseteq Packets /\ toSend \cap sent = {}
    /\ net \in [AllDevs -> Seq(Frames)]
    /\ fragBuf \in [AllDevs -> Seq(Packets \X Nat)]
    /\ delivered \in Seq(Deliveries)
    /\ \A c \in sending : IsCall(c)

\* What is on its way or was delivered was sent.
AllSent ==
    /\ \A d \in AllDevs : \A i \in DOMAIN net[d] : net[d][i].ip.id \in sent
    /\ \A i \in DOMAIN delivered : delivered[i].id \in sent

\* The packets to the address of device t, or a broadcast address of its
\* network, that fill a fragment
Filling(t) ==
    {r \in sent : r.size >= FragSize /\ \E h \in IpHosts : t \in Addressed(h, r.dst)}

\* A buffer has no gaps; where something can follow, it is made of packets
\* that fill a fragment; if the offsets do not count the blocks nothing can.
BuffersSound ==
    \A t \in AllDevs :
        /\ \A k \in DOMAIN fragBuf[t] : fragBuf[t][k][2] = k
        /\ Len(fragBuf[t]) >= FragSize => \A k \in DOMAIN fragBuf[t] : fragBuf[t][k][1] \in Filling(t)
        /\ ~Aligned /\ fragBuf[t] # <<>> => Len(fragBuf[t]) + HeaderSize <= MaxPayload

\* Is the piece the end of packet q?
Ends(p, q) == p.id = q /\ ~p.mf

EndInCall(c, q) == \E i \in DOMAIN c.pieces : Ends(c.pieces[i], q)

\* The ends of a packet on their way in w: several only if they were broadcast,
\* each to another device of one segment.
EndsApart(w) ==
    \A q \in Packets : \A d, e \in AllDevs : \A i \in DOMAIN w[d], j \in DOMAIN w[e] :
        Ends(w[d][i].ip, q) /\ Ends(w[e][j].ip, q)
            => \/ d = e /\ i = j
               \/ /\ d # e /\ SegmentOf[d] = SegmentOf[e]
                  /\ w[d][i].mac = BroadcastAddr /\ w[e][j].mac = BroadcastAddr

\* Once a packet was delivered its ends are on their way to other hosts only.
EndsElsewhere(w, dl) ==
    \A k \in DOMAIN dl : \A d \in AllDevs : \A i \in DOMAIN w[d] :
        Ends(w[d][i].ip, dl[k].id) => w[d][i].mac = BroadcastAddr /\ HostOf(d) # dl[k].at

\* While a call has the end of a packet, nobody else has it or had it.
EndsInCalls(calls, w, dl) ==
    \A c \in calls : \A q \in Packets : EndInCall(c, q) =>
        /\ \A b \in calls : EndInCall(b, q) => b = c
        /\ \A d \in AllDevs : \A i \in DOMAIN w[d] : ~Ends(w[d][i].ip, q)
        /\ \A k \in DOMAIN dl : dl[k].id # q

EndsOnce ==
    /\ EndsApart(net) /\ EndsElsewhere(net, delivered)
    /\ EndsInCalls(sending, net, delivered) /\ AtMostOnce

\* All that is said of the packets on their way and what became of them
IpInv ==
    /\ IpTypeOK /\ AllSent /\ BuffersSound
    /\ NoGaps /\ IntactUnlessMixed
    /\ EndsOnce

\* A frame that is on its way
LEMMA FrameOnWay ==
  ASSUME IpTypeOK, AllSent, NEW d \in AllDevs, NEW i \in DOMAIN net[d]
  PROVE  /\ net[d] \in Seq(Frames) /\ net[d][i] \in Frames
         /\ net[d][i].mac \in AllDevs \cup {BroadcastAddr}
         /\ net[d][i].ip.id \in sent /\ net[d][i].ip.id \in Packets
         /\ net[d][i].ip \in PiecesOf(net[d][i].ip.id) /\ FitsFrame(net[d][i].ip)
<1>1. net[d] \in Seq(Frames) /\ net[d][i] \in Frames /\ net[d][i].ip.id \in sent
  BY DEF IpTypeOK, AllSent
<1>2. net[d][i].mac \in AllDevs \cup {BroadcastAddr} /\ net[d][i].ip \in AllPieces
      /\ FitsFrame(net[d][i].ip)
  BY <1>1 DEF Frames
<1>3. PICK q \in Packets : net[d][i].ip \in PiecesOf(q)
  BY <1>2 DEF AllPieces
<1>4. net[d][i].ip.id = q
  BY <1>3 DEF PiecesOf
<1> QED
  BY <1>1, <1>2, <1>3, <1>4

\* The frames behind the first one move up.
LEMMA FirstTaken ==
  ASSUME NEW w, w \in [AllDevs -> Seq(Frames)], NEW d \in AllDevs, w[d] # <<>>,
         NEW v, v = [w EXCEPT ![d] = Tail(@)]
  PROVE  /\ v \in [AllDevs -> Seq(Frames)]
         /\ \A e \in AllDevs : \A j \in DOMAIN v[e] : \E i \in DOMAIN w[e] :
              /\ v[e][j] = w[e][i] /\ i = IF e = d THEN j + 1 ELSE j
<1>1. w[d] \in Seq(Frames) /\ Tail(w[d]) \in Seq(Frames) /\ Len(w[d]) \in Nat
      /\ Len(Tail(w[d])) = Len(w[d]) - 1
      /\ \A j \in 1 .. Len(w[d]) - 1 : Tail(w[d])[j] = w[d][j + 1]
  OBVIOUS
<1>2. v[d] = Tail(w[d]) /\ \A e \in AllDevs \ {d} : v[e] = w[e]
  OBVIOUS
<1>3. v \in [AllDevs -> Seq(Frames)]
  BY <1>1
<1>4. ASSUME NEW e \in AllDevs, NEW j \in DOMAIN v[e]
      PROVE  \E i \in DOMAIN w[e] : v[e][j] = w[e][i] /\ i = IF e = d THEN j + 1 ELSE j
  <2>1. CASE e = d
    <3>1. j \in 1 .. Len(w[d]) - 1
      BY <1>1, <1>2, <2>1
    <3>2. v[d][j] = w[d][j + 1] /\ j + 1 \in DOMAIN w[d]
      BY <1>1, <1>2, <3>1
    <3> QED
      BY <2>1, <3>2
  <2>2. CASE e # d
    BY <1>2, <2>2
  <2> QED
    BY <2>1, <2>2
<1> QED
  BY <1>3, <1>4

\* A frame that is sent comes behind those on their way, or does not come.
LEMMA FrameAdded ==
  ASSUME net \in [AllDevs -> Seq(Frames)], NEW p \in AllPieces, FitsFrame(p), NEW mac, NEW dev,
         NEW v, v = Transmitted(p, mac, dev)
  PROVE  /\ v \in [AllDevs -> Seq(Frames)]
         /\ \A e \in AllDevs : \A j \in DOMAIN v[e] :
              \/ j \in DOMAIN net[e] /\ v[e][j] = net[e][j]
              \/ /\ j = Len(net[e]) + 1 /\ v[e][j].ip = p /\ v[e][j].mac = mac
                 /\ SegmentOf[e] = SegmentOf[dev] /\ mac \in {e, BroadcastAddr}
<1> DEFINE f == [mac |-> mac, ip |-> p]
           hears(e) == e # dev /\ SegmentOf[e] = SegmentOf[dev] /\ mac \in {e, BroadcastAddr}
<1>1. v = [e \in AllDevs |-> IF hears(e) THEN Append(net[e], f) ELSE net[e]]
  BY DEF Transmitted
<1>2. f.mac = mac /\ f.ip = p
  OBVIOUS
<1>3. ASSUME NEW e \in AllDevs, hears(e) PROVE f \in Frames
  BY <1>3 DEF Frames
<1> HIDE DEF f
<1>4. ASSUME NEW e \in AllDevs
      PROVE  /\ v[e] \in Seq(Frames)
             /\ \A j \in DOMAIN v[e] :
                  \/ j \in DOMAIN net[e] /\ v[e][j] = net[e][j]
                  \/ /\ j = Len(net[e]) + 1 /\ v[e][j] = f /\ hears(e)
  <2>1. net[e] \in Seq(Frames)
    OBVIOUS
  <2>2. CASE hears(e)
    <3>1. v[e] = Append(net[e], f) /\ f \in Frames
      BY <1>1, <1>3, <2>2
    <3> HIDE DEF hears
    <3> QED
      BY <2>1, <2>2, <3>1
  <2>3. CASE ~hears(e)
    <3>1. v[e] = net[e]
      BY <1>1, <2>3
    <3> QED
      BY <2>1, <3>1
  <2> QED
    BY <2>2, <2>3
<1>5. v \in [AllDevs -> Seq(Frames)]
  <2> HIDE DEF hears
  <2> QED
    BY <1>1, <1>4
<1> QED
  BY <1>2, <1>4, <1>5

\* Fewer frames: what is said of ends stays true.
LEMMA EndsOfFewer ==
  ASSUME net \in [AllDevs -> Seq(Frames)], NEW d \in AllDevs, net[d] # <<>>,
         NEW v, v = [net EXCEPT ![d] = Tail(@)],
         EndsApart(net), EndsElsewhere(net, delivered), EndsInCalls(sending, net, delivered)
  PROVE  EndsApart(v) /\ EndsElsewhere(v, delivered) /\ EndsInCalls(sending, v, delivered)
<1>1. \A e \in AllDevs : \A j \in DOMAIN v[e] : \E i \in DOMAIN net[e] :
        v[e][j] = net[e][i] /\ i = IF e = d THEN j + 1 ELSE j
  BY FirstTaken
<1>2. EndsApart(v)
  <2> SUFFICES ASSUME NEW q \in Packets, NEW e \in AllDevs, NEW g \in AllDevs,
                      NEW i \in DOMAIN v[e], NEW j \in DOMAIN v[g],
                      Ends(v[e][i].ip, q), Ends(v[g][j].ip, q)
               PROVE  \/ e = g /\ i = j
                      \/ /\ e # g /\ SegmentOf[e] = SegmentOf[g]
                         /\ v[e][i].mac = BroadcastAddr /\ v[g][j].mac = BroadcastAddr
    BY DEF EndsApart
  <2>1. PICK m \in DOMAIN net[e] : v[e][i] = net[e][m] /\ m = IF e = d THEN i + 1 ELSE i
    BY <1>1
  <2>2. PICK n \in DOMAIN net[g] : v[g][j] = net[g][n] /\ n = IF g = d THEN j + 1 ELSE j
    BY <1>1
  <2>3. \/ e = g /\ m = n
        \/ /\ e # g /\ SegmentOf[e] = SegmentOf[g]
           /\ net[e][m].mac = BroadcastAddr /\ net[g][n].mac = BroadcastAddr
    BY <2>1, <2>2 DEF EndsApart
  <2>4. e = g /\ m = n => i = j
    <3>1. i \in Nat /\ j \in Nat
      <4>1. v[e] \in Seq(Frames) /\ v[g] \in Seq(Frames)
        BY FirstTaken
      <4> QED
        BY <4>1
    <3> QED
      BY <2>1, <2>2, <3>1
  <2> QED
    BY <2>1, <2>2, <2>3, <2>4
<1>3. EndsElsewhere(v, delivered)
  BY <1>1 DEF EndsElsewhere
<1>4. EndsInCalls(sending, v, delivered)
  BY <1>1 DEF EndsInCalls
<1> QED
  BY <1>2, <1>3, <1>4

\* A call of forwardPacket begins with all the pieces.
LEMMA CallBegins ==
  ASSUME NEW h, NEW p, NEW callback, NEW c \in ForwardPacket(h, p, callback)
  PROVE  /\ c.pieces = Pieces(p)
         /\ c = [host |-> c.host, callback |-> c.callback, pieces |-> c.pieces, mac |-> c.mac,
                 dev |-> c.dev]
<1>1. PICK e \in RoutingQuery(h, p.dst) : \E mac \in NextHops(e, p.dst) :
        c = [host |-> h, callback |-> callback, pieces |-> Pieces(p), mac |-> mac, dev |-> e.dev]
  BY Zenon DEF ForwardPacket
<1> QED
  BY <1>1

\* The pieces of a call are of one packet, which was sent.
LEMMA CallOfPacket ==
  ASSUME IpTypeOK, NEW c \in sending
  PROVE  /\ c.pieces # <<>> /\ Len(c.pieces) \in Nat /\ DOMAIN c.pieces = 1 .. Len(c.pieces)
         /\ \E q \in sent : /\ q \in Packets /\ c.pieces \in Seq(PiecesOf(q))
                            /\ \A i \in DOMAIN c.pieces :
                                 c.pieces[i] \in PiecesOf(q) /\ c.pieces[i].id = q
         /\ \A i \in DOMAIN c.pieces : ~c.pieces[i].mf => i = Len(c.pieces)
<1>1. IsCall(c)
  BY DEF IpTypeOK
<1>2. PICK q \in sent : c.pieces \in Seq(PiecesOf(q)) /\ c.pieces # <<>>
  BY <1>1 DEF IsCall
<1>3. q \in Packets
  BY DEF IpTypeOK
<1>4. \A i \in DOMAIN c.pieces : c.pieces[i] \in PiecesOf(q) /\ c.pieces[i].id = q
  BY <1>2, <1>3, PieceLength
<1>5. Len(c.pieces) \in Nat /\ DOMAIN c.pieces = 1 .. Len(c.pieces)
  BY <1>2
<1>6. \A i \in DOMAIN c.pieces : ~c.pieces[i].mf => i = Len(c.pieces)
  BY <1>1 DEF IsCall
<1> QED
  BY <1>2, <1>3, <1>4, <1>5, <1>6

\* sendIPPacket: a new packet, of which nothing is on its way
LEMMA SendKeeps ==
  ASSUME IpInv, NEW q \in toSend, SendIPPacket(q)
  PROVE  IpInv'
<1> DEFINE p == [id |-> q, dst |-> q.dst, off |-> 0, mf |-> FALSE, ttl |-> InitialTTL,
                 data |-> [k \in 1 .. q.size |-> <<q, k>>]]
           calls == ForwardPacket(HostOf(q.src), p, FALSE)
<1>1. /\ UNCHANGED <<net, fragBuf, delivered>>
      /\ toSend' = toSend \ {q} /\ sent' = sent \cup {q}
      /\ sending' = sending \/ \E c \in calls : sending' = sending \cup {c}
  BY DEF SendIPPacket, Begins
<1>2. /\ q \in Packets /\ q \notin sent /\ IpTypeOK /\ AllSent
  BY DEF IpInv, IpTypeOK
<1>3. ASSUME NEW c \in calls
      PROVE  /\ IsCall(c)'
             /\ \A r : EndInCall(c, r) => r = q
  <2>1. c.pieces = Pieces(p) /\ c = [host |-> c.host, callback |-> c.callback,
                                     pieces |-> c.pieces, mac |-> c.mac, dev |-> c.dev]
    <3>1. c \in ForwardPacket(HostOf(q.src), p, FALSE)
      BY <1>3
    <3> HIDE DEF p, calls
    <3> QED
      BY <3>1, CallBegins
  <2>2. /\ c.pieces \in Seq(PiecesOf(q)) /\ c.pieces # <<>>
        /\ \A i \in DOMAIN c.pieces : ~c.pieces[i].mf => i = Len(c.pieces)
    BY <1>2, <2>1, CutPieces, IpNumbers
  <2>3. \A i \in DOMAIN c.pieces : c.pieces[i].id = q
    BY <2>2, <1>2, PieceLength
  <2> QED
    BY <1>1, <2>1, <2>2, <2>3 DEF IsCall, EndInCall, Ends
<1> HIDE DEF calls, p
<1>4. \A c \in sending : IsCall(c)'
  BY <1>1, <1>2 DEF IpTypeOK, IsCall
<1>5. \A c \in sending' : IsCall(c)'
  BY <1>1, <1>3, <1>4
<1>6. IpTypeOK'
  BY <1>1, <1>2, <1>5 DEF IpTypeOK
<1>7. AllSent'
  BY <1>1, <1>2 DEF AllSent
<1>8. BuffersSound'
  <2>1. \A t : Filling(t) \subseteq Filling(t)'
    BY <1>1 DEF Filling
  <2> QED
    BY <1>1, <2>1 DEF IpInv, BuffersSound
<1>9. NoGaps' /\ AtMostOnce'
  BY <1>1 DEF IpInv, EndsOnce, NoGaps, AtMostOnce
<1>10. IntactUnlessMixed'
  <2>1. \A h, r : MayMix(h, r) \subseteq MayMix(h, r)'
    BY <1>1 DEF MayMix, Sharing
  <2> QED
    BY <1>1, <2>1 DEF IpInv, IntactUnlessMixed
<1>11. EndsApart(net') /\ EndsElsewhere(net', delivered')
  BY <1>1 DEF IpInv, EndsOnce
<1>12. EndsInCalls(sending', net', delivered')
  <2>1. CASE sending' = sending
    BY <1>1, <2>1 DEF IpInv, EndsOnce
  <2>2. ASSUME NEW c \in calls, sending' = sending \cup {c}
        PROVE  EndsInCalls(sending', net, delivered)
    <3>1. \A b \in sending : ~EndInCall(b, q)
      <4> SUFFICES ASSUME NEW b \in sending, EndInCall(b, q) PROVE FALSE
        OBVIOUS
      <4>1. PICK r \in sent : \A i \in DOMAIN b.pieces : b.pieces[i].id = r
        BY <1>2, CallOfPacket
      <4> QED
        BY <1>2, <4>1 DEF EndInCall, Ends
    <3>2. \A d \in AllDevs : \A i \in DOMAIN net[d] : ~Ends(net[d][i].ip, q)
      BY <1>2 DEF AllSent, Ends
    <3>3. \A k \in DOMAIN delivered : delivered[k].id # q
      BY <1>2 DEF AllSent
    <3>4. EndsInCalls(sending, net, delivered)
      BY DEF IpInv, EndsOnce
    <3> SUFFICES ASSUME NEW b \in sending', NEW r \in Packets, EndInCall(b, r)
                 PROVE  /\ \A g \in sending' : EndInCall(g, r) => g = b
                        /\ \A d \in AllDevs : \A i \in DOMAIN net[d] : ~Ends(net[d][i].ip, r)
                        /\ \A k \in DOMAIN delivered : delivered[k].id # r
      BY DEF EndsInCalls
    <3>5. CASE r = q
      BY <2>2, <3>1, <3>2, <3>3, <3>5
    <3>6. CASE r # q
      <4>1. \A g \in sending' : EndInCall(g, r) => g \in sending
        BY <1>3, <2>2, <3>6
      <4> QED
        BY <3>4, <4>1 DEF EndsInCalls
    <3> QED
      BY <3>5, <3>6
  <2> QED
    BY <1>1, <2>1, <2>2
<1> QED
  BY <1>6, <1>7, <1>8, <1>9, <1>10, <1>11, <1>12 DEF IpInv, EndsOnce

\* A frame is lost: all that is said of the others stays true.
LEMMA FrameLossKeeps ==
  ASSUME IpInv, NEW d \in AllDevs, FrameLost(d)
  PROVE  IpInv'
<1>1. /\ UNCHANGED <<toSend, sending, fragBuf, delivered, sent>>
      /\ net' = [net EXCEPT ![d] = Tail(@)] /\ net[d] # <<>>
  BY DEF FrameLost
<1>2. IpTypeOK /\ AllSent
  BY DEF IpInv
<1>3. net \in [AllDevs -> Seq(Frames)]
  BY <1>2 DEF IpTypeOK
<1>4. /\ net' \in [AllDevs -> Seq(Frames)]
      /\ \A e \in AllDevs : \A j \in DOMAIN net'[e] : \E i \in DOMAIN net[e] : net'[e][j] = net[e][i]
  BY <1>1, <1>3, FirstTaken
<1>5. IpTypeOK'
  BY <1>1, <1>2, <1>4 DEF IpTypeOK, IsCall
<1>6. AllSent'
  BY <1>1, <1>2, <1>4 DEF AllSent
<1>7. EndsApart(net') /\ EndsElsewhere(net', delivered) /\ EndsInCalls(sending, net', delivered)
  <2>1. EndsApart(net) /\ EndsElsewhere(net, delivered) /\ EndsInCalls(sending, net, delivered)
    BY DEF IpInv, EndsOnce
  <2>2. ASSUME NEW v, v = [net EXCEPT ![d] = Tail(@)]
        PROVE  EndsApart(v) /\ EndsElsewhere(v, delivered) /\ EndsInCalls(sending, v, delivered)
    <3>1. net[d] # <<>>
      BY <1>1
    <3> QED
      BY <1>3, <2>1, <2>2, <3>1, EndsOfFewer
  <2> QED
    BY <1>1, <2>2
<1>8. BuffersSound' /\ NoGaps' /\ IntactUnlessMixed' /\ AtMostOnce'
  BY <1>1 DEF IpInv, EndsOnce, BuffersSound, Filling, NoGaps, IntactUnlessMixed, MayMix, Sharing,
              AtMostOnce
<1> QED
  BY <1>1, <1>5, <1>6, <1>7, <1>8 DEF IpInv, EndsOnce

\* The next piece of a call is sent or refused.
LEMMA FrameSentKeeps ==
  ASSUME IpInv, NEW c \in sending, SendFrame(c)
  PROVE  IpInv'
<1> DEFINE p == c.pieces[1]
           n == Len(c.pieces)
           rest == [c EXCEPT !.pieces = Tail(@)]
<1>0. IpTypeOK /\ AllSent /\ EndsApart(net) /\ EndsElsewhere(net, delivered)
      /\ EndsInCalls(sending, net, delivered)
  BY DEF IpInv, EndsOnce
<1>1. PICK q \in sent :
        /\ q \in Packets /\ c.pieces \in Seq(PiecesOf(q)) /\ c.pieces # <<>>
        /\ n \in Nat /\ n >= 1 /\ DOMAIN c.pieces = 1 .. n
        /\ \A i \in 1 .. n : c.pieces[i] \in PiecesOf(q) /\ c.pieces[i].id = q
        /\ \A i \in 1 .. n : ~c.pieces[i].mf => i = n
  BY <1>0, CallOfPacket
<1>2. /\ UNCHANGED <<toSend, fragBuf, delivered, sent>>
      /\ net' = IF FitsFrame(p) THEN Transmitted(p, c.mac, c.dev) ELSE net
      /\ sending' = (sending \ {c}) \cup (IF n = 1 THEN {} ELSE {rest})
  <2>1. Head(c.pieces) = p
    BY <1>1
  <2> QED
    BY <2>1 DEF SendFrame
<1>3. p \in PiecesOf(q) /\ p \in AllPieces /\ p.id = q
  BY <1>1 DEF AllPieces
<1>4. net \in [AllDevs -> Seq(Frames)]
  BY <1>0 DEF IpTypeOK
<1>5. /\ net' \in [AllDevs -> Seq(Frames)]
      /\ \A e \in AllDevs : \A j \in DOMAIN net'[e] :
           \/ j \in DOMAIN net[e] /\ net'[e][j] = net[e][j]
           \/ /\ j = Len(net[e]) + 1 /\ net'[e][j].ip = p /\ net'[e][j].mac = c.mac
              /\ SegmentOf[e] = SegmentOf[c.dev] /\ c.mac \in {e, BroadcastAddr}
  <2>1. CASE FitsFrame(p)
    <3> HIDE DEF p
    <3>1. ASSUME NEW v, v = Transmitted(p, c.mac, c.dev)
          PROVE  /\ v \in [AllDevs -> Seq(Frames)]
                 /\ \A e \in AllDevs : \A j \in DOMAIN v[e] :
                      \/ j \in DOMAIN net[e] /\ v[e][j] = net[e][j]
                      \/ /\ j = Len(net[e]) + 1 /\ v[e][j].ip = p /\ v[e][j].mac = c.mac
                         /\ SegmentOf[e] = SegmentOf[c.dev] /\ c.mac \in {e, BroadcastAddr}
      BY <1>3, <1>4, <2>1, <3>1, FrameAdded
    <3> QED
      BY <1>2, <2>1, <3>1
  <2>2. CASE ~FitsFrame(p)
    BY <1>2, <1>4, <2>2
  <2> QED
    BY <2>1, <2>2
<1>6. ASSUME n # 1
      PROVE  /\ IsCall(rest)
             /\ \A r : EndInCall(rest, r) => EndInCall(c, r)
             /\ p.mf
  <2>1. IsCall(c)
    BY <1>0 DEF IpTypeOK
  <2>2. rest = [host |-> c.host, callback |-> c.callback, pieces |-> Tail(c.pieces), mac |-> c.mac,
                dev |-> c.dev]
    <3>1. PICK h, k, ps, m, v : c = [host |-> h, callback |-> k, pieces |-> ps, mac |-> m, dev |-> v]
      BY <2>1, Zenon DEF IsCall
    <3>2. c.host = h /\ c.callback = k /\ c.pieces = ps /\ c.mac = m /\ c.dev = v
      BY <3>1
    <3>3. rest = [[host |-> h, callback |-> k, pieces |-> ps, mac |-> m, dev |-> v]
                    EXCEPT !.pieces = Tail(ps)]
      BY <3>1, <3>2, Zenon
    <3>4. rest = [host |-> h, callback |-> k, pieces |-> Tail(ps), mac |-> m, dev |-> v]
      <4> HIDE DEF rest
      <4> QED
        BY <3>3
    <3> QED
      BY <3>2, <3>4, Zenon
  <2>3. /\ rest.pieces = Tail(c.pieces)
        /\ rest = [host |-> rest.host, callback |-> rest.callback, pieces |-> rest.pieces,
                   mac |-> rest.mac, dev |-> rest.dev]
    BY <2>2
  <2> HIDE DEF rest
  <2> DEFINE ps == c.pieces
             Pq == PiecesOf(q)
             ts == Tail(ps)
  <2>4. ps \in Seq(Pq) /\ n = Len(ps) /\ n \in Nat /\ n >= 2
    <3>1. n \in Nat /\ n >= 1 /\ n # 1
      BY <1>1, <1>6
    <3>2. n >= 2
      <4> HIDE DEF n
      <4> QED
        BY ONLY <3>1
    <3> QED
      BY <1>1, <3>2
  <2> HIDE DEF ps, Pq, n
  <2>5. ts \in Seq(Pq) /\ Len(ts) = n - 1 /\ DOMAIN ts = 1 .. n - 1 /\ \A i \in 1 .. n - 1 : ts[i] = ps[i + 1]
    BY <2>4
  <2> HIDE DEF ts
  <2>6. ts # <<>>
    BY <2>4, <2>5
  <2>7. \A i \in DOMAIN ts : i \in Nat /\ i + 1 \in 1 .. n /\ ts[i] = ps[i + 1]
    BY <2>4, <2>5
  <2>8. \A i \in DOMAIN ts : ~ts[i].mf => i = Len(ts)
    <3> SUFFICES ASSUME NEW i \in DOMAIN ts, ~ts[i].mf PROVE i = Len(ts)
      OBVIOUS
    <3>1. i + 1 \in 1 .. n /\ ~ps[i + 1].mf /\ i \in Nat
      BY <2>7
    <3>2. i + 1 = n
      BY <1>1, <3>1 DEF ps
    <3> QED
      BY <2>4, <2>5, <3>1, <3>2
  <2>9. rest.pieces = ts
    BY <2>3 DEF ts, ps
  <2>10. IsCall(rest)
    BY <2>3, <2>5, <2>6, <2>8, <2>9 DEF IsCall, Pq
  <2>11. ASSUME NEW r, EndInCall(rest, r) PROVE EndInCall(c, r)
    <3>1. PICK i \in DOMAIN ts : Ends(ts[i], r)
      BY <2>9, <2>11 DEF EndInCall
    <3>2. i + 1 \in 1 .. n /\ Ends(ps[i + 1], r)
      BY <2>7, <3>1
    <3> QED
      BY <1>1, <3>2 DEF EndInCall, ps
  <2>12. p.mf
    <3>1. 1 \in 1 .. n /\ 1 # n
      BY <2>4
    <3> QED
      BY <1>1, <3>1
  <2> QED
    BY <2>10, <2>11, <2>12
<1>7. IpTypeOK'
  <2>1. \A b \in sending' : IsCall(b)
    BY <1>0, <1>2, <1>6 DEF IpTypeOK
  <2>2. \A b \in sending' : IsCall(b)'
    BY <1>2, <2>1 DEF IsCall
  <2> QED
    BY <1>0, <1>2, <1>5, <2>2 DEF IpTypeOK
<1> HIDE DEF p, rest, n
<1>8. AllSent'
  BY <1>0, <1>2, <1>3, <1>5 DEF AllSent
<1>9. BuffersSound' /\ NoGaps' /\ IntactUnlessMixed' /\ AtMostOnce'
  BY <1>2 DEF IpInv, EndsOnce, BuffersSound, Filling, NoGaps, IntactUnlessMixed, MayMix, Sharing,
              AtMostOnce
<1>10. CASE p.mf
  <2>1. ASSUME NEW e \in AllDevs, NEW j \in DOMAIN net'[e], NEW r, Ends(net'[e][j].ip, r)
        PROVE  j \in DOMAIN net[e] /\ net'[e][j] = net[e][j]
    BY <1>5, <1>10, <2>1 DEF Ends
  <2>2. EndsApart(net')
    <3> SUFFICES ASSUME NEW r \in Packets, NEW d \in AllDevs, NEW e \in AllDevs,
                        NEW i \in DOMAIN net'[d], NEW j \in DOMAIN net'[e],
                        Ends(net'[d][i].ip, r), Ends(net'[e][j].ip, r)
                 PROVE  \/ d = e /\ i = j
                        \/ /\ d # e /\ SegmentOf[d] = SegmentOf[e]
                           /\ net'[d][i].mac = BroadcastAddr /\ net'[e][j].mac = BroadcastAddr
      BY DEF EndsApart
    <3>1. i \in DOMAIN net[d] /\ net'[d][i] = net[d][i] /\ j \in DOMAIN net[e] /\ net'[e][j] = net[e][j]
      BY <2>1
    <3> QED
      BY <1>0, <3>1 DEF EndsApart
  <2>3. EndsElsewhere(net', delivered)
    BY <1>0, <2>1 DEF EndsElsewhere
  <2>4. EndsInCalls(sending', net', delivered)
    <3> SUFFICES ASSUME NEW b \in sending', NEW r \in Packets, EndInCall(b, r)
                 PROVE  /\ \A g \in sending' : EndInCall(g, r) => g = b
                        /\ \A d \in AllDevs : \A i \in DOMAIN net'[d] : ~Ends(net'[d][i].ip, r)
                        /\ \A k \in DOMAIN delivered : delivered[k].id # r
      BY DEF EndsInCalls
    <3>1. PICK a \in sending : EndInCall(a, r) /\ (a = b \/ (a = c /\ b = rest))
      BY <1>2, <1>6
    <3>2. /\ \A g \in sending : EndInCall(g, r) => g = a
          /\ \A d \in AllDevs : \A i \in DOMAIN net[d] : ~Ends(net[d][i].ip, r)
          /\ \A k \in DOMAIN delivered : delivered[k].id # r
      BY <1>0, <3>1 DEF EndsInCalls
    <3>3. ASSUME NEW g \in sending', EndInCall(g, r) PROVE g = b
      <4>1. g = a \/ (g = rest /\ a = c)
        BY <1>2, <1>6, <3>2, <3>3
      <4> QED
        BY <1>2, <3>1, <3>3, <4>1
    <3> QED
      BY <2>1, <3>2, <3>3
  <2> QED
    BY <1>2, <1>7, <1>8, <1>9, <2>2, <2>3, <2>4 DEF IpInv, EndsOnce
<1>11. CASE ~p.mf
  <2>1. n = 1 /\ EndInCall(c, q)
    BY <1>1, <1>3, <1>11 DEF p, EndInCall, Ends
  <2>2. /\ \A b \in sending : EndInCall(b, q) => b = c
        /\ \A d \in AllDevs : \A i \in DOMAIN net[d] : ~Ends(net[d][i].ip, q)
        /\ \A k \in DOMAIN delivered : delivered[k].id # q
    BY <1>0, <1>1, <2>1 DEF EndsInCalls
  <2>3. ASSUME NEW e \in AllDevs, NEW j \in DOMAIN net'[e], NEW r \in Packets, Ends(net'[e][j].ip, r)
        PROVE  IF r = q THEN /\ j = Len(net[e]) + 1 /\ net'[e][j].mac = c.mac
                             /\ SegmentOf[e] = SegmentOf[c.dev] /\ c.mac \in {e, BroadcastAddr}
               ELSE j \in DOMAIN net[e] /\ net'[e][j] = net[e][j]
    BY <1>3, <1>5, <2>2, <2>3 DEF Ends
  <2>4. EndsApart(net')
    <3> SUFFICES ASSUME NEW r \in Packets, NEW d \in AllDevs, NEW e \in AllDevs,
                        NEW i \in DOMAIN net'[d], NEW j \in DOMAIN net'[e],
                        Ends(net'[d][i].ip, r), Ends(net'[e][j].ip, r)
                 PROVE  \/ d = e /\ i = j
                        \/ /\ d # e /\ SegmentOf[d] = SegmentOf[e]
                           /\ net'[d][i].mac = BroadcastAddr /\ net'[e][j].mac = BroadcastAddr
      BY DEF EndsApart
    <3>1. CASE r = q
      <4>1. /\ i = Len(net[d]) + 1 /\ net'[d][i].mac = c.mac
            /\ SegmentOf[d] = SegmentOf[c.dev] /\ c.mac \in {d, BroadcastAddr}
        BY <2>3, <3>1
      <4>2. /\ j = Len(net[e]) + 1 /\ net'[e][j].mac = c.mac
            /\ SegmentOf[e] = SegmentOf[c.dev] /\ c.mac \in {e, BroadcastAddr}
        BY <2>3, <3>1
      <4> QED
        BY <4>1, <4>2
    <3>2. CASE r # q
      BY <1>0, <2>3, <3>2 DEF EndsApart
    <3> QED
      BY <3>1, <3>2
  <2>5. EndsElsewhere(net', delivered)
    <3> SUFFICES ASSUME NEW k \in DOMAIN delivered, NEW d \in AllDevs, NEW i \in DOMAIN net'[d],
                        Ends(net'[d][i].ip, delivered[k].id)
                 PROVE  net'[d][i].mac = BroadcastAddr /\ HostOf(d) # delivered[k].at
      BY DEF EndsElsewhere
    <3>1. delivered[k].id \in Packets /\ delivered[k].id # q
      BY <1>0, <2>2 DEF AllSent, IpTypeOK
    <3> QED
      BY <1>0, <2>3, <3>1 DEF EndsElsewhere
  <2>6. EndsInCalls(sending', net', delivered)
    <3> SUFFICES ASSUME NEW b \in sending', NEW r \in Packets, EndInCall(b, r)
                 PROVE  /\ \A g \in sending' : EndInCall(g, r) => g = b
                        /\ \A d \in AllDevs : \A i \in DOMAIN net'[d] : ~Ends(net'[d][i].ip, r)
                        /\ \A k \in DOMAIN delivered : delivered[k].id # r
      BY DEF EndsInCalls
    <3>1. sending' = sending \ {c} /\ r # q
      BY <1>2, <2>1, <2>2
    <3>2. /\ \A g \in sending : EndInCall(g, r) => g = b
          /\ \A d \in AllDevs : \A i \in DOMAIN net[d] : ~Ends(net[d][i].ip, r)
          /\ \A k \in DOMAIN delivered : delivered[k].id # r
      BY <1>0, <3>1 DEF EndsInCalls
    <3>3. \A d \in AllDevs : \A i \in DOMAIN net'[d] : ~Ends(net'[d][i].ip, r)
      BY <2>3, <3>1, <3>2
    <3> QED
      BY <3>1, <3>2, <3>3
  <2> QED
    BY <1>2, <1>7, <1>8, <1>9, <2>4, <2>5, <2>6 DEF IpInv, EndsOnce
<1> QED
  BY <1>10, <1>11

\* A packet is forwarded: its frame goes, and a call begins with what it held.
LEMMA ForwardKeeps ==
  ASSUME IpInv, NEW d \in AllDevs, net[d] # <<>>, net' = [net EXCEPT ![d] = Tail(@)],
         ForwardOn(d, HostOf(d)), UNCHANGED <<toSend, lostFrames, sent>>
  PROVE  IpInv'
<1> DEFINE f == net[d][1]
           p == f.ip
           q == p.id
           calls == IF MayForward(f) THEN IPForwarding(HostOf(d), p) ELSE {}
           only == p.ttl - 1
           r == [p EXCEPT !.ttl = only]
<1>0. IpTypeOK /\ AllSent /\ EndsApart(net) /\ EndsElsewhere(net, delivered)
      /\ EndsInCalls(sending, net, delivered) /\ net \in [AllDevs -> Seq(Frames)]
  BY DEF IpInv, EndsOnce, IpTypeOK
<1>1. net[d] \in Seq(Frames) /\ Head(net[d]) = f /\ 1 \in DOMAIN net[d]
  BY <1>0
<1>2. /\ UNCHANGED <<fragBuf, delivered>>
      /\ sending' = sending \/ \E c \in calls : sending' = sending \cup {c}
  BY <1>1 DEF ForwardOn, Begins
<1>3. f.mac \in AllDevs \cup {BroadcastAddr} /\ q \in sent /\ q \in Packets /\ p \in PiecesOf(q)
  BY <1>0, <1>1, FrameOnWay
<1>4. ASSUME NEW c \in calls
      PROVE  /\ IsCall(c) /\ f.mac # BroadcastAddr
             /\ \A x : EndInCall(c, x) => Ends(p, x)
  <2>1. MayForward(f) /\ c \in IPForwarding(HostOf(d), p)
    OBVIOUS
  <2>2. c \in ForwardPacket(HostOf(d), r, TRUE)
    BY <2>1 DEF IPForwarding, NextTTL
  <2>3. p.ttl \in Int /\ only \in Int
    BY <1>3 DEF PiecesOf
  <2>4. r \in PiecesOf(q) /\ Pieces(r) = <<r>> /\ r.id = p.id /\ r.mf = p.mf
    <3> HIDE DEF p, only
    <3>1. r \in PiecesOf(q) /\ Pieces(r) = <<r>>
      BY <1>3, <2>3, PieceIsWhole
    <3>2. r.id = p.id /\ r.mf = p.mf
      BY <1>3 DEF PiecesOf
    <3> QED
      BY <3>1, <3>2
  <2> HIDE DEF r
  <2>5. c.pieces = <<r>> /\ c = [host |-> c.host, callback |-> c.callback, pieces |-> c.pieces,
                                 mac |-> c.mac, dev |-> c.dev]
    <3>1. c.pieces = Pieces(r) /\ c = [host |-> c.host, callback |-> c.callback, pieces |-> c.pieces,
                                       mac |-> c.mac, dev |-> c.dev]
      BY ONLY <2>2, CallBegins, Zenon
    <3> QED
      BY <2>4, <3>1
  <2> DEFINE ps == c.pieces
             Pq == PiecesOf(q)
  <2>6. ps = <<r>> /\ r \in Pq
    BY <2>4, <2>5
  <2> HIDE DEF ps, Pq
  <2>7. ps \in Seq(Pq) /\ ps # <<>> /\ DOMAIN ps = {1} /\ Len(ps) = 1 /\ ps[1] = r
    BY ONLY <2>6
  <2>8. IsCall(c)
    BY <1>3, <2>5, <2>7 DEF IsCall, ps, Pq
  <2>9. \A x : EndInCall(c, x) => Ends(p, x)
    BY <2>4, <2>7 DEF EndInCall, Ends, ps
  <2>10. f.mac # BroadcastAddr
    BY <2>1 DEF MayForward
  <2> QED
    BY <2>8, <2>9, <2>10
<1> HIDE DEF calls
<1>5. /\ net' \in [AllDevs -> Seq(Frames)]
      /\ \A e \in AllDevs : \A j \in DOMAIN net'[e] : \E i \in DOMAIN net[e] :
           net'[e][j] = net[e][i] /\ i = IF e = d THEN j + 1 ELSE j
  BY <1>0, FirstTaken
<1>6. EndsApart(net') /\ EndsElsewhere(net', delivered) /\ EndsInCalls(sending, net', delivered)
  <2>1. ASSUME NEW v, v = [net EXCEPT ![d] = Tail(@)]
        PROVE  EndsApart(v) /\ EndsElsewhere(v, delivered) /\ EndsInCalls(sending, v, delivered)
    BY <1>0, <2>1, EndsOfFewer
  <2> QED
    BY <2>1
<1>7. IpTypeOK'
  <2>1. \A c \in sending' : IsCall(c)
    BY <1>0, <1>2, <1>4 DEF IpTypeOK
  <2>2. \A c \in sending' : IsCall(c)'
    BY <2>1 DEF IsCall
  <2> QED
    BY <1>0, <1>2, <1>5, <2>2 DEF IpTypeOK
<1>8. AllSent'
  BY <1>0, <1>2, <1>5 DEF AllSent
<1>9. BuffersSound' /\ NoGaps' /\ IntactUnlessMixed' /\ AtMostOnce'
  BY <1>2 DEF IpInv, EndsOnce, BuffersSound, Filling, NoGaps, IntactUnlessMixed, MayMix, Sharing,
              AtMostOnce
<1>10. EndsInCalls(sending', net', delivered)
  <2>1. CASE sending' = sending
    BY <1>6, <2>1
  <2>2. ASSUME NEW c \in calls, sending' = sending \cup {c}
        PROVE  EndsInCalls(sending', net', delivered)
    <3>1. f.mac # BroadcastAddr /\ \A x : EndInCall(c, x) => Ends(p, x)
      BY <1>4
    <3>2. ASSUME NEW x \in Packets, Ends(p, x)
          PROVE  /\ \A b \in sending : ~EndInCall(b, x)
                 /\ \A e \in AllDevs : \A j \in DOMAIN net'[e] : ~Ends(net'[e][j].ip, x)
                 /\ \A k \in DOMAIN delivered : delivered[k].id # x
      <4>1. \A b \in sending : ~EndInCall(b, x)
        BY <1>0, <1>1, <3>2 DEF EndsInCalls
      <4>2. \A k \in DOMAIN delivered : delivered[k].id # x
        BY <1>0, <1>1, <3>1, <3>2 DEF EndsElsewhere
      <4>3. ASSUME NEW e \in AllDevs, NEW j \in DOMAIN net'[e], Ends(net'[e][j].ip, x)
            PROVE  FALSE
        <5>1. PICK i \in DOMAIN net[e] : net'[e][j] = net[e][i] /\ i = IF e = d THEN j + 1 ELSE j
          BY <1>5
        <5>2. e = d /\ i = 1
          BY <1>0, <1>1, <3>1, <3>2, <4>3, <5>1 DEF EndsApart
        <5>3. j \in Nat /\ j >= 1
          BY <1>5
        <5> QED
          BY <5>1, <5>2, <5>3
      <4> QED
        BY <4>1, <4>2, <4>3
    <3> HIDE DEF p, f
    <3> SUFFICES ASSUME NEW b \in sending', NEW x \in Packets, EndInCall(b, x)
                 PROVE  /\ \A g \in sending' : EndInCall(g, x) => g = b
                        /\ \A e \in AllDevs : \A j \in DOMAIN net'[e] : ~Ends(net'[e][j].ip, x)
                        /\ \A k \in DOMAIN delivered : delivered[k].id # x
      BY DEF EndsInCalls
    <3>3. CASE Ends(p, x)
      BY <2>2, <3>2, <3>3
    <3>4. CASE ~Ends(p, x)
      <4>1. \A g \in sending' : EndInCall(g, x) => g \in sending
        BY <2>2, <3>1, <3>4
      <4> QED
        BY <1>6, <4>1 DEF EndsInCalls
    <3> QED
      BY <3>3, <3>4
  <2> QED
    BY <1>2, <2>1, <2>2
<1> QED
  BY <1>2, <1>6, <1>7, <1>8, <1>9, <1>10 DEF IpInv, EndsOnce

\* A piece is the first of its packet and says so, or it begins where whole
\* fragments end and either says where, or points beyond what fits a frame.
LEMMA PiecesPlaced ==
  ASSUME NEW q \in Packets, NEW p \in PiecesOf(q), FitsFrame(p)
  PROVE  \E b \in Nat :
           /\ b < q.size /\ Len(p.data) = Smaller(b + FragSize, q.size) - b
           /\ ~p.mf => q.size <= b + FragSize
           /\ \A i \in DOMAIN p.data : p.data[i] = <<q, b + i>>
           /\ b = 0 => p.off = 0
           /\ b # 0 => p.off # 0 /\ b >= FragSize
           /\ b # 0 => \/ Aligned /\ p.off * Unit = b
                       \/ ~Aligned /\ p.off * Unit + HeaderSize > MaxPayload
<1>1. PICK b \in Starts :
        /\ b < q.size /\ p.off = b \div Unit /\ p.mf = (b + FragSize < q.size)
        /\ Len(p.data) = Smaller(b + FragSize, q.size) - b
        /\ \A i \in DOMAIN p.data : p.data[i] = <<q, b + i>>
  BY DEF PiecesOf
<1>2. /\ b \in Nat /\ p.off \in Nat
      /\ b = 0 => p.off = 0
      /\ b # 0 => b >= FragSize
      /\ b # 0 => \/ Aligned /\ p.off * Unit = b
                  \/ ~Aligned /\ p.off * Unit + HeaderSize > MaxPayload
  BY <1>1, OffsetsOfStarts
<1>3. b # 0 => p.off # 0
  <2> SUFFICES ASSUME b # 0, p.off = 0 PROVE FALSE
    OBVIOUS
  <2>1. p.off * Unit = 0
    BY IpNumbers
  <2>2. HeaderSize > MaxPayload
    BY <1>2, <2>1, IpNumbers
  <2>3. Len(p.data) \in Nat /\ Len(p.data) + HeaderSize <= MaxPayload
    BY PieceLength DEF FitsFrame
  <2> QED
    BY <2>2, <2>3, IpNumbers
<1>4. ~p.mf => q.size <= b + FragSize
  <2>1. q.size \in Nat /\ FragSize \in Nat
    BY IpNumbers
  <2>2. ~(b + FragSize < q.size) => q.size <= b + FragSize
    BY <1>2, <2>1
  <2> QED
    BY <1>1, <2>2
<1> QED
  BY <1>1, <1>2, <1>3, <1>4

\* The device a packet is for is one of the host that takes it.
LEMMA AddressedDevice ==
  ASSUME NEW h \in IpHosts, NEW a, NEW t \in Addressed(h, a)
  PROVE  t \in AllDevs /\ HostOf(t) = h
<1>1. \E i \in DOMAIN DevsOf[h] : t = DevsOf[h][i]
  BY DEF Addressed
<1>2. t \in ToSet(DevsOf[h])
  BY <1>1 DEF ToSet
<1> QED
  BY <1>2, HostOfDevice

\* A buffer after a piece, and the packet it makes
LEMMA BufferAfter ==
  ASSUME IpInv, NEW q \in sent, NEW p \in PiecesOf(q), FitsFrame(p),
         NEW h \in IpHosts, NEW t \in Addressed(h, q.dst), NEW new, new = Buffered(fragBuf[t], p)
  PROVE  /\ new \in Seq(Packets \X Nat)
         /\ \A k \in DOMAIN new : new[k][2] = k
         /\ Len(new) >= FragSize => \A k \in DOMAIN new : new[k][1] \in Filling(t)
         /\ ~Aligned /\ new # <<>> => Len(new) + HeaderSize <= MaxPayload
         /\ Completes(fragBuf[t], p) =>
              /\ new # <<>> /\ Len(new) = q.size
              /\ \A k \in DOMAIN new : new[k][1] \in {q} \cup Filling(t)
<1> DEFINE buf == fragBuf[t]
           Blocks == Packets \X Nat
<1>0. q \in Packets /\ q.size \in Nat /\ q.size >= 1 /\ t \in AllDevs
  BY AddressedDevice, IpNumbers DEF IpInv, IpTypeOK
<1>1. /\ buf \in Seq(Blocks) /\ \A k \in DOMAIN buf : buf[k][2] = k
      /\ Len(buf) >= FragSize => \A k \in DOMAIN buf : buf[k][1] \in Filling(t)
      /\ ~Aligned /\ buf # <<>> => Len(buf) + HeaderSize <= MaxPayload
  BY <1>0 DEF IpInv, IpTypeOK, BuffersSound
<1>2. PICK b \in Nat :
        /\ b < q.size /\ Len(p.data) = Smaller(b + FragSize, q.size) - b
        /\ ~p.mf => q.size <= b + FragSize
        /\ \A i \in DOMAIN p.data : p.data[i] = <<q, b + i>>
        /\ b = 0 => p.off = 0
        /\ b # 0 => p.off # 0 /\ b >= FragSize
        /\ b # 0 => \/ Aligned /\ p.off * Unit = b
                    \/ ~Aligned /\ p.off * Unit + HeaderSize > MaxPayload
  BY <1>0, PiecesPlaced
<1> DEFINE data == p.data
           n == Len(data)
<1>3. /\ data \in Seq({q} \X Nat) /\ n \in Nat /\ n >= 1 /\ n <= FragSize
      /\ n + HeaderSize <= MaxPayload
  BY <1>0, PieceLength DEF FitsFrame, PiecesOf
<1>4. data \in Seq(Blocks) /\ DOMAIN data = 1 .. n
  <2>1. {q} \X Nat \subseteq Blocks
    BY <1>0
  <2> HIDE DEF Blocks
  <2> QED
    BY <1>3, <2>1
<1>5. /\ n = Smaller(b + FragSize, q.size) - b /\ b < q.size
      /\ \A i \in 1 .. n : data[i] = <<q, b + i>>
  BY <1>2, <1>4
<1>6. q.size >= FragSize => q \in Filling(t)
  BY DEF Filling
<1> HIDE DEF buf, Blocks, data, n
<1>7. ~p.mf => b + n = q.size
  BY <1>0, <1>2, <1>5, IpNumbers DEF Smaller
<1>8. CASE p.off = 0
  <2>1. new = data /\ b = 0
    BY <1>2, <1>8 DEF Buffered, data
  <2>2. \A k \in DOMAIN new : new[k][2] = k /\ new[k][1] = q
    <3> SUFFICES ASSUME NEW k \in 1 .. n PROVE data[k][2] = k /\ data[k][1] = q
      BY <1>4, <2>1
    <3>1. data[k] = <<q, 0 + k>> /\ 0 + k = k
      BY <1>5, <2>1
    <3> QED
      BY <3>1
  <2>3. Len(new) >= FragSize => q \in Filling(t)
    <3>1. Len(new) <= q.size
      BY <1>0, <1>3, <1>5, <2>1, IpNumbers DEF Smaller, n
    <3> QED
      BY <1>0, <1>3, <1>6, <2>1, <3>1, IpNumbers DEF n
  <2>4. new \in Seq(Packets \X Nat) /\ Len(new) = n /\ n # 0 /\ n + HeaderSize <= MaxPayload
    BY <1>3, <1>4, <2>1 DEF Blocks, n
  <2>5. Completes(fragBuf[t], p) => n = q.size
    BY <1>0, <1>7, <2>1, <2>4 DEF Completes
  <2>6. new # <<>>
    BY <2>4
  <2> QED
    BY <2>2, <2>3, <2>4, <2>5, <2>6
<1>9. CASE p.off # 0 /\ p.off * Unit = Len(buf)
  <2>1. new = buf \o data /\ b # 0 /\ b >= FragSize
    BY <1>2, <1>9 DEF Buffered, Continues, data, buf
  <2>2. Aligned /\ Len(buf) = b
    <3>1. CASE Aligned
      BY <1>2, <1>9, <2>1, <3>1
    <3>2. CASE ~Aligned
      <4>1. Len(buf) + HeaderSize > MaxPayload
        BY <1>2, <1>9, <2>1, <3>2
      <4>2. buf = <<>>
        BY <1>1, <3>2, <4>1, IpNumbers
      <4>3. p.off * Unit = 0 /\ p.off \in Nat
        BY <1>9, <4>2 DEF PiecesOf
      <4>4. p.off = 0
        BY <4>3, IpNumbers
      <4> QED
        BY <1>9, <4>4
    <3> QED
      BY <3>1, <3>2
  <2>3. q \in Filling(t)
    BY <1>0, <1>2, <1>6, <2>1, IpNumbers
  <2>4. \A k \in DOMAIN buf : buf[k][2] = k /\ buf[k][1] \in Filling(t)
    BY <1>1, <2>1, <2>2
  <2>5. /\ new \in Seq(Blocks) /\ Len(new) = b + n /\ DOMAIN new = 1 .. b + n
        /\ \A k \in 1 .. b + n : new[k] = IF k <= b THEN buf[k] ELSE data[k - b]
    <3>1. buf \in Seq(Blocks) /\ data \in Seq(Blocks) /\ Len(buf) = b /\ Len(data) = n /\ b \in Nat /\ n \in Nat
      BY <1>1, <1>3, <1>4, <2>2 DEF n
    <3>2. new = buf \o data
      BY <2>1
    <3>3. new \in Seq(Blocks) /\ Len(new) = b + n
      <4>1. Len(buf \o data) = Len(buf) + Len(data)
        BY ONLY <3>1
      <4>2. buf \o data \in Seq(Blocks)
        BY ONLY <3>1
      <4> QED
        BY ONLY <3>1, <3>2, <4>1, <4>2
    <3>4. DOMAIN new = 1 .. b + n
      BY ONLY <3>1, <3>3
    <3>5. \A k \in 1 .. b + n : new[k] = IF k <= b THEN buf[k] ELSE data[k - b]
      BY ONLY <3>1, <3>2
    <3> QED
      BY <3>3, <3>4, <3>5
  <2>6. ASSUME NEW k \in 1 .. b + n PROVE new[k][2] = k /\ new[k][1] \in Filling(t)
    <3>1. CASE k <= b
      <4>1. k \in DOMAIN buf
        BY <1>1, <2>2, <3>1
      <4> QED
        BY <2>4, <2>5, <3>1, <4>1
    <3>2. CASE ~(k <= b)
      <4>1. k - b \in 1 .. n /\ b + (k - b) = k
        BY <1>3, <3>2
      <4>2. data[k - b] = <<q, k>>
        BY <1>5, <4>1
      <4>3. new[k] = <<q, k>>
        BY <2>5, <3>2, <4>2
      <4> QED
        BY <2>3, <4>3
    <3> QED
      BY <3>1, <3>2
  <2>7. new # <<>>
    BY <1>3, <2>5
  <2>8. Completes(fragBuf[t], p) => Len(new) = q.size
    BY <1>7, <2>5 DEF Completes
  <2> QED
    BY <2>2, <2>5, <2>6, <2>7, <2>8 DEF Blocks
<1>10. CASE p.off # 0 /\ p.off * Unit # Len(buf)
  <2>1. new = <<>> /\ ~Completes(fragBuf[t], p)
    BY <1>10 DEF Buffered, Continues, Completes, buf
  <2>2. Len(new) = 0 /\ DOMAIN new = {} /\ new \in Seq(Packets \X Nat)
    BY <2>1
  <2> QED
    BY <2>1, <2>2
<1> QED
  BY <1>8, <1>9, <1>10

\* A packet is taken by the host it is for: its buffer changes, and if it is
\* complete it is delivered.
LEMMA DeliveryKeeps ==
  ASSUME IpInv, NEW d \in AllDevs, net[d] # <<>>, net' = [net EXCEPT ![d] = Tail(@)],
         DeliverLocally(d, HostOf(d)), UNCHANGED <<toSend, lostFrames, sent>>
  PROVE  IpInv'
<1> DEFINE f == net[d][1]
           p == f.ip
           q == p.id
           h == HostOf(d)
<1>0. IpTypeOK /\ AllSent /\ EndsApart(net) /\ EndsElsewhere(net, delivered)
      /\ EndsInCalls(sending, net, delivered) /\ net \in [AllDevs -> Seq(Frames)]
      /\ BuffersSound /\ NoGaps /\ IntactUnlessMixed /\ AtMostOnce
      /\ delivered \in Seq(Deliveries)
  BY DEF IpInv, EndsOnce, IpTypeOK
<1>1. net[d] \in Seq(Frames) /\ Head(net[d]) = f /\ 1 \in DOMAIN net[d]
  BY <1>0
<1>2. /\ q \in sent /\ q \in Packets /\ p \in PiecesOf(q) /\ FitsFrame(p) /\ p.dst = q.dst
      /\ h \in IpHosts
  BY <1>0, <1>1, FrameOnWay, PieceLength, HostOfDevice
<1>3. PICK t \in Addressed(h, p.dst) :
        /\ fragBuf' = [fragBuf EXCEPT ![t] = Buffered(@, p)]
        /\ delivered' = IF Completes(fragBuf[t], p)
                        THEN Append(delivered, [at |-> h, id |-> q, data |-> Buffered(fragBuf[t], p)])
                        ELSE delivered
        /\ UNCHANGED sending
  BY <1>1 DEF DeliverLocally
<1> HIDE DEF p, f, h, q
<1>4. t \in AllDevs /\ HostOf(t) = h /\ t \in Addressed(h, q.dst)
  BY <1>2, <1>3, AddressedDevice
<1>5. PICK new : new = Buffered(fragBuf[t], p)
  OBVIOUS
<1>6. /\ new \in Seq(Packets \X Nat)
      /\ \A k \in DOMAIN new : new[k][2] = k
      /\ Len(new) >= FragSize => \A k \in DOMAIN new : new[k][1] \in Filling(t)
      /\ ~Aligned /\ new # <<>> => Len(new) + HeaderSize <= MaxPayload
      /\ Completes(fragBuf[t], p) =>
           /\ new # <<>> /\ Len(new) = q.size
           /\ \A k \in DOMAIN new : new[k][1] \in {q} \cup Filling(t)
  BY <1>2, <1>4, <1>5, BufferAfter
<1>7. fragBuf' = [fragBuf EXCEPT ![t] = new]
  BY <1>3, <1>5
<1>8. fragBuf' \in [AllDevs -> Seq(Packets \X Nat)]
  BY <1>0, <1>4, <1>6, <1>7 DEF IpTypeOK
<1>9. BuffersSound'
  <2>1. \A s \in AllDevs : Filling(s)' = Filling(s)
    BY DEF Filling
  <2>2. \A s \in AllDevs : fragBuf'[s] = IF s = t THEN new ELSE fragBuf[s]
    BY <1>0, <1>7 DEF IpTypeOK
  <2> QED
    BY <1>0, <1>6, <2>1, <2>2 DEF BuffersSound
<1>10. /\ net' \in [AllDevs -> Seq(Frames)]
       /\ \A e \in AllDevs : \A j \in DOMAIN net'[e] : \E i \in DOMAIN net[e] :
            net'[e][j] = net[e][i] /\ i = IF e = d THEN j + 1 ELSE j
  BY <1>0, FirstTaken
<1>11. EndsApart(net') /\ EndsElsewhere(net', delivered) /\ EndsInCalls(sending, net', delivered)
  <2>1. ASSUME NEW v, v = [net EXCEPT ![d] = Tail(@)]
        PROVE  EndsApart(v) /\ EndsElsewhere(v, delivered) /\ EndsInCalls(sending, v, delivered)
    BY <1>0, <2>1, EndsOfFewer
  <2> QED
    BY <2>1
<1>12. \A c \in sending : IsCall(c)'
  BY <1>0 DEF IpTypeOK, IsCall
<1>13. \A g, r : MayMix(g, r)' = MayMix(g, r)
  BY DEF MayMix, Sharing
<1>14. CASE ~Completes(fragBuf[t], p)
  <2>1. delivered' = delivered
    BY <1>3, <1>14
  <2>2. IpTypeOK' /\ AllSent'
    BY <1>0, <1>3, <1>8, <1>10, <1>12, <2>1 DEF IpTypeOK, AllSent
  <2>3. NoGaps' /\ IntactUnlessMixed' /\ AtMostOnce'
    BY <1>0, <1>13, <2>1 DEF NoGaps, IntactUnlessMixed, AtMostOnce
  <2> QED
    BY <1>3, <1>9, <1>11, <2>1, <2>2, <2>3 DEF IpInv, EndsOnce
<1>15. CASE Completes(fragBuf[t], p)
  <2> DEFINE it == [at |-> h, id |-> q, data |-> new]
             m == Len(delivered)
  <2>1. delivered' = Append(delivered, it) /\ Ends(p, q)
    BY <1>3, <1>5, <1>15 DEF Completes, Ends, q
  <2>2. it \in Deliveries /\ it.at = h /\ it.id = q /\ it.data = new
    BY <1>2, <1>6 DEF Deliveries
  <2> HIDE DEF it
  <2>3. /\ delivered' \in Seq(Deliveries) /\ m \in Nat /\ DOMAIN delivered' = 1 .. m + 1
        /\ DOMAIN delivered = 1 .. m
        /\ \A k \in 1 .. m : delivered'[k] = delivered[k]
        /\ delivered'[m + 1] = it
    BY <1>0, <2>1, <2>2
  <2> HIDE DEF m
  <2>4. \A k \in DOMAIN delivered' : (k \in DOMAIN delivered /\ delivered'[k] = delivered[k])
                                     \/ (k = m + 1 /\ delivered'[k] = it)
    BY <2>3
  <2>5. IpTypeOK'
    BY <1>0, <1>3, <1>8, <1>10, <1>12, <2>3 DEF IpTypeOK
  <2>6. AllSent'
    <3>1. \A e \in AllDevs : \A j \in DOMAIN net'[e] : net'[e][j].ip.id \in sent
      BY <1>0, <1>10 DEF AllSent
    <3>2. \A k \in DOMAIN delivered' : delivered'[k].id \in sent
      BY <1>0, <1>2, <2>2, <2>4 DEF AllSent
    <3> QED
      BY <3>1, <3>2 DEF AllSent
  <2>7. NoGaps'
    BY <1>0, <1>6, <1>15, <2>2, <2>4 DEF NoGaps
  <2>8. IntactUnlessMixed'
    <3>1. Filling(t) \subseteq {q} \cup MayMix(h, q)
      <4> SUFFICES ASSUME NEW r \in Filling(t), r # q PROVE r \in MayMix(h, q)
        OBVIOUS
      <4>1. PICK g \in IpHosts : t \in Addressed(g, r.dst)
        BY DEF Filling
      <4>2. g = h
        BY <1>4, <4>1, AddressedDevice
      <4> QED
        BY <1>4, <4>1, <4>2 DEF Filling, MayMix, Sharing
    <3>2. Len(new) = q.size /\ \A k \in DOMAIN new : new[k][1] \in {q} \cup MayMix(h, q)
      BY <1>6, <1>15, <3>1
    <3> QED
      BY <1>0, <1>13, <2>2, <2>4, <3>2 DEF IntactUnlessMixed
  <2>9. ASSUME NEW e \in AllDevs, NEW j \in DOMAIN net'[e], Ends(net'[e][j].ip, q)
        PROVE  net'[e][j].mac = BroadcastAddr /\ HostOf(e) # h
    <3>1. PICK i \in DOMAIN net[e] : net'[e][j] = net[e][i] /\ i = IF e = d THEN j + 1 ELSE j
      BY <1>10
    <3>2. j \in Nat /\ j >= 1
      BY <1>10
    <3>3. ~(e = d /\ i = 1)
      BY <3>1, <3>2
    <3>4. Ends(net[d][1].ip, q)
      BY <2>1 DEF p, f
    <3>5. e # d /\ SegmentOf[e] = SegmentOf[d] /\ net[e][i].mac = BroadcastAddr
      BY <1>0, <1>1, <1>2, <2>9, <3>1, <3>3, <3>4 DEF EndsApart
    <3>6. HostOf(e) # h
      <4>1. e \in ToSet(DevsOf[HostOf(e)]) /\ d \in ToSet(DevsOf[HostOf(d)]) /\ HostOf(d) \in IpHosts
        BY HostOfDevice
      <4>2. \A a, b \in ToSet(DevsOf[HostOf(d)]) : a # b => SegmentOf[a] # SegmentOf[b]
        BY <4>1, IpAssumption
      <4> QED
        BY <3>5, <4>1, <4>2 DEF h
    <3> QED
      BY <3>1, <3>5, <3>6
  <2>10. EndsElsewhere(net', delivered')
    <3> SUFFICES ASSUME NEW k \in DOMAIN delivered', NEW e \in AllDevs, NEW j \in DOMAIN net'[e],
                        Ends(net'[e][j].ip, delivered'[k].id)
                 PROVE  net'[e][j].mac = BroadcastAddr /\ HostOf(e) # delivered'[k].at
      BY DEF EndsElsewhere
    <3>1. CASE k \in DOMAIN delivered /\ delivered'[k] = delivered[k]
      BY <1>11, <3>1 DEF EndsElsewhere
    <3>2. CASE delivered'[k] = it
      BY <2>2, <2>9, <3>2
    <3> QED
      BY <2>4, <3>1, <3>2
  <2>11. EndsInCalls(sending, net', delivered')
    <3>1. \A c \in sending : ~EndInCall(c, q)
      BY <1>0, <1>1, <1>2, <2>1 DEF EndsInCalls, p, f
    <3> SUFFICES ASSUME NEW b \in sending, NEW x \in Packets, EndInCall(b, x)
                 PROVE  /\ \A g \in sending : EndInCall(g, x) => g = b
                        /\ \A e \in AllDevs : \A j \in DOMAIN net'[e] : ~Ends(net'[e][j].ip, x)
                        /\ \A k \in DOMAIN delivered' : delivered'[k].id # x
      BY DEF EndsInCalls
    <3>2. x # q
      BY <3>1
    <3>3. /\ \A g \in sending : EndInCall(g, x) => g = b
          /\ \A e \in AllDevs : \A j \in DOMAIN net'[e] : ~Ends(net'[e][j].ip, x)
          /\ \A k \in DOMAIN delivered : delivered[k].id # x
      BY <1>11 DEF EndsInCalls
    <3> QED
      BY <2>2, <2>4, <3>2, <3>3
  <2>12. AtMostOnce'
    <3>1. \A k \in DOMAIN delivered : delivered[k].id = q => delivered[k].at # h
      BY <1>0, <1>1, <2>1 DEF EndsElsewhere, h, p, f
    <3> QED
      BY <1>0, <2>2, <2>4, <3>1 DEF AtMostOnce
  <2> QED
    BY <1>3, <1>9, <1>11, <2>5, <2>6, <2>7, <2>8, <2>10, <2>11, <2>12 DEF IpInv, EndsOnce
<1> QED
  BY <1>14, <1>15

\* At first nothing was sent.
LEMMA IpStarts ==
  IpInit => IpInv
<1> SUFFICES ASSUME IpInit PROVE IpInv
  OBVIOUS
<1>1. toSend \subseteq Packets
  BY DEF IpInit, Packets
<1>2. IpTypeOK
  BY <1>1 DEF IpInit, IpTypeOK
<1>3. AllSent /\ NoGaps /\ IntactUnlessMixed /\ AtMostOnce
  BY DEF IpInit, AllSent, NoGaps, IntactUnlessMixed, AtMostOnce
<1>4. BuffersSound
  BY IpNumbers DEF IpInit, BuffersSound
<1>5. EndsApart(net) /\ EndsElsewhere(net, delivered) /\ EndsInCalls(sending, net, delivered)
  BY DEF IpInit, EndsApart, EndsElsewhere, EndsInCalls
<1> QED
  BY <1>2, <1>3, <1>4, <1>5 DEF IpInv, EndsOnce

\* For any network whose hosts have their devices on different segments, any
\* routes, any packets, and any sizes of fragments and frames of which the
\* fragments count whole units or never fit: what reaches ip_callback has no
\* gaps and the length of the packet that was sent, it is that packet unless
\* others that fill a fragment share its buffer, and a host gets it once;
\* whatever is lost, and however the pieces of several packets interleave.
THEOREM ReassemblySound ==
  IpSpec => []DeliveriesSound
<1>1. IpInit => IpInv
  BY IpStarts
<1>2. IpInv /\ [IpNext]_IpVars => IpInv'
  <2> SUFFICES ASSUME IpInv, [IpNext]_IpVars PROVE IpInv'
    OBVIOUS
  <2>1. CASE UNCHANGED IpVars
    BY <2>1 DEF IpVars, IpInv, IpTypeOK, IsCall, AllSent, BuffersSound, Filling, NoGaps,
                IntactUnlessMixed, MayMix, Sharing, EndsOnce, AtMostOnce
  <2>2. ASSUME NEW q \in toSend, SendIPPacket(q) PROVE IpInv'
    BY <2>2, SendKeeps
  <2>3. ASSUME NEW h \in IpHosts, SendsFrame(h) PROVE IpInv'
    BY <2>3, FrameSentKeeps DEF SendsFrame
  <2>4. ASSUME NEW d \in AllDevs, IPEthCallback(d) PROVE IpInv'
    BY <2>4, DeliveryKeeps, ForwardKeeps DEF IPEthCallback
  <2>5. ASSUME NEW d \in AllDevs, FrameLost(d) PROVE IpInv'
    BY <2>5, FrameLossKeeps
  <2> QED
    BY <2>1, <2>2, <2>3, <2>4, <2>5 DEF IpNext
<1>3. IpInv => DeliveriesSound
  BY DEF IpInv, EndsOnce, DeliveriesSound
<1> QED
  BY <1>1, <1>2, <1>3, PTL DEF IpSpec
=============================================================================
