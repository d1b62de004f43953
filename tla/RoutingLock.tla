----------------------------- MODULE RoutingLock -----------------------------
(***************************************************************************)
(* The four mutexes of network/routing.c and the threads that take them:   *)
(* readers (routing_query, print_routing_table), the thread of             *)
(* routing_routine (update_routing_table), the capture threads             *)
(* (route_frame_handler, one at a time because of callback_mutex) and a    *)
(* user who adds routes.  The first reader locks routing_table_mutex for   *)
(* all, the last one unlocks it, often another thread than the one that    *)
(* locked it: POSIX leaves that undefined, the default mutex of the        *)
(* platform unlocks.                                                       *)
(***************************************************************************)
EXTENDS Integers, FiniteSets

CONSTANTS Readers, Updater, Handler, User, Nobody

ASSUME RoutingLockAssumption ==
    /\ IsFiniteSet(Readers)
    /\ {Updater, Handler, User, Nobody} \cap Readers = {}
    /\ Cardinality({Updater, Handler, User, Nobody}) = 4

VARIABLES
    readerMutex,    \* routing_reader_mutex: who holds it
    tableMutex,     \* routing_table_mutex: who locked it
    recordMutex,    \* routing_record_mutex
    userMutex,      \* user_routing_entry_mutex
    readerCnt,      \* routing_reader_cnt
    at              \* thread -> where it is

RoutingLockVars == <<readerMutex, tableMutex, recordMutex, userMutex, readerCnt, at>>

Threads == Readers \cup {Updater, Handler, User}

RoutingLockInit ==
    /\ readerMutex = Nobody /\ tableMutex = Nobody
    /\ recordMutex = Nobody /\ userMutex = Nobody
    /\ readerCnt = 0
    /\ at = [t \in Threads |-> "outside"]

Goes(t, from, to) == at[t] = from /\ at' = [at EXCEPT ![t] = to]

-----------------------------------------------------------------------------
\* routing_query: count oneself in
ReaderEnters(r) ==
    /\ Goes(r, "outside", "entering")
    /\ readerMutex = Nobody /\ readerMutex' = r
    /\ readerCnt' = readerCnt + 1
    /\ UNCHANGED <<tableMutex, recordMutex, userMutex>>

\* Mutant: the count is not looked at, only whether the mutex is taken.
TakeTableIfFree(r) == tableMutex' = IF tableMutex = Nobody THEN r ELSE tableMutex

\* The first reader locks the table, waiting for it with the reader mutex held.
TakeTableIfFirst(r) ==
    IF readerCnt = 1 THEN tableMutex = Nobody /\ tableMutex' = r
    ELSE UNCHANGED tableMutex

ReaderReads(r) ==
    /\ Goes(r, "entering", "reading")
    /\ TakeTableIfFirst(r)
    /\ readerMutex' = Nobody
    /\ UNCHANGED <<recordMutex, userMutex, readerCnt>>

\* The entries have been looked through: count oneself out
ReaderLeaves(r) ==
    /\ Goes(r, "reading", "leaving")
    /\ readerMutex = Nobody /\ readerMutex' = r
    /\ readerCnt' = readerCnt - 1
    /\ UNCHANGED <<tableMutex, recordMutex, userMutex>>

\* Mutant: the last reader forgets to unlock.
KeepTable == UNCHANGED tableMutex

\* The last reader unlocks the table.
GiveTableIfLast == tableMutex' = IF readerCnt = 0 THEN Nobody ELSE tableMutex

ReaderIsOut(r) ==
    /\ Goes(r, "leaving", "outside")
    /\ GiveTableIfLast
    /\ readerMutex' = Nobody
    /\ UNCHANGED <<recordMutex, userMutex, readerCnt>>

-----------------------------------------------------------------------------
\* update_routing_table: the records and the user's routes are locked first
UpdaterLocksRecords ==
    /\ Goes(Updater, "outside", "records locked")
    /\ recordMutex = Nobody /\ recordMutex' = Updater
    /\ UNCHANGED <<readerMutex, tableMutex, userMutex, readerCnt>>

UpdaterLocksUserRoutes ==
    /\ Goes(Updater, "records locked", "user routes locked")
    /\ userMutex = Nobody /\ userMutex' = Updater
    /\ UNCHANGED <<readerMutex, tableMutex, recordMutex, readerCnt>>

UpdaterUnlocksUserRoutes ==
    /\ Goes(Updater, "user routes locked", "learning")
    /\ userMutex' = Nobody
    /\ UNCHANGED <<readerMutex, tableMutex, recordMutex, readerCnt>>

\* The new table is ready: routing_entries is freed and made anew
UpdaterLocksTable ==
    /\ Goes(Updater, "learning", "swapping")
    /\ tableMutex = Nobody /\ tableMutex' = Updater
    /\ UNCHANGED <<readerMutex, recordMutex, userMutex, readerCnt>>

UpdaterUnlocksTable ==
    /\ Goes(Updater, "swapping", "swapped")
    /\ tableMutex' = Nobody
    /\ UNCHANGED <<readerMutex, recordMutex, userMutex, readerCnt>>

\* record[i].entry is freed and the records are unlocked
UpdaterUnlocksRecords ==
    /\ Goes(Updater, "swapped", "outside")
    /\ recordMutex' = Nobody
    /\ UNCHANGED <<readerMutex, tableMutex, userMutex, readerCnt>>

\* route_frame_handler: a request is answered from the locked table
HandlerLocksTable ==
    /\ Goes(Handler, "outside", "answering")
    /\ tableMutex = Nobody /\ tableMutex' = Handler
    /\ UNCHANGED <<readerMutex, recordMutex, userMutex, readerCnt>>

HandlerUnlocksTable ==
    /\ Goes(Handler, "answering", "outside")
    /\ tableMutex' = Nobody
    /\ UNCHANGED <<readerMutex, recordMutex, userMutex, readerCnt>>

\* ... and an answer is recorded
HandlerLocksRecords ==
    /\ Goes(Handler, "outside", "recording")
    /\ recordMutex = Nobody /\ recordMutex' = Handler
    /\ UNCHANGED <<readerMutex, tableMutex, userMutex, readerCnt>>

HandlerUnlocksRecords ==
    /\ Goes(Handler, "recording", "outside")
    /\ recordMutex' = Nobody
    /\ UNCHANGED <<readerMutex, tableMutex, userMutex, readerCnt>>

\* user_add_routing_entry
UserLocksRoutes ==
    /\ Goes(User, "outside", "adding")
    /\ userMutex = Nobody /\ userMutex' = User
    /\ UNCHANGED <<readerMutex, tableMutex, recordMutex, readerCnt>>

UserUnlocksRoutes ==
    /\ Goes(User, "adding", "outside")
    /\ userMutex' = Nobody
    /\ UNCHANGED <<readerMutex, tableMutex, recordMutex, readerCnt>>

UpdateWaits == UpdaterLocksUserRoutes \/ UpdaterLocksTable
UpdateGoesOn ==
    UpdaterUnlocksUserRoutes \/ UpdaterUnlocksTable \/ UpdaterUnlocksRecords
HandlerGoesOn == HandlerUnlocksTable \/ HandlerUnlocksRecords

RoutingLockNext ==
    \/ \E r \in Readers :
        ReaderEnters(r) \/ ReaderReads(r) \/ ReaderLeaves(r) \/ ReaderIsOut(r)
    \/ UpdaterLocksRecords \/ UpdateWaits \/ UpdateGoesOn
    \/ HandlerLocksTable \/ HandlerLocksRecords \/ HandlerGoesOn
    \/ UserLocksRoutes \/ UserUnlocksRoutes

\* A thread that holds a mutex goes on; one that waits for a mutex gets it
\* when it is free again and again (hence strong fairness).  Nobody has to
\* begin anything.
RoutingLockFairness ==
    /\ \A r \in Readers :
        /\ SF_RoutingLockVars(ReaderReads(r) \/ ReaderLeaves(r))
        /\ WF_RoutingLockVars(ReaderIsOut(r))
    /\ SF_RoutingLockVars(UpdateWaits)
    /\ WF_RoutingLockVars(UpdateGoesOn)
    /\ WF_RoutingLockVars(HandlerGoesOn)
    /\ WF_RoutingLockVars(UserUnlocksRoutes)

RoutingLockSpec ==
    RoutingLockInit /\ [][RoutingLockNext]_RoutingLockVars /\ RoutingLockFairness

-----------------------------------------------------------------------------
Reading == {r \in Readers : at[r] = "reading"}

\* While a reader looks through routing_entries nobody replaces or sends the
\* table, update_routing_table and route_frame_handler of network/routing.c.
ReadersExcludeWriters ==
    /\ Reading # {} => at[Updater] # "swapping" /\ at[Handler] # "answering"
    /\ ~(at[Updater] = "swapping" /\ at[Handler] = "answering")

\* A lookup that has begun ends, whatever updates and requests go on beside
\* it: routing_query is called with TCP's locks held.
QueriesReturn ==
    \A r \in Readers : []<>(at[r] = "outside")
=============================================================================
