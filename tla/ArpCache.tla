------------------------------ MODULE ArpCache ------------------------------
(***************************************************************************)
(* The ARP table of network/arp.c on one host: announcements of the        *)
(* neighbours come in (each sends one every five seconds, and others when  *)
(* it does not know a MAC itself), arp_frame_handler writes the table      *)
(* field by field without a lock, and forwardPacket of                     *)
(* network/forwarding.c looks an address up and copies the MAC.            *)
(*                                                                         *)
(* Time is the age of records, in ticks; a record of FreeAge is one never  *)
(* written, or so old that it does not matter how old.  A MAC stands for   *)
(* two halves, since memcpy does not copy six bytes at once.               *)
(***************************************************************************)
EXTENDS Integers, Sequences

CONSTANTS
    Neighbours,     \* their IP addresses
    MaxRecords,     \* MAX_ARP_RECORD
    Timeout,        \* ARP_TIMEOUT_MS
    Period,         \* the sleep of arp_routine
    Losses,         \* bound: announcements that get lost
    SearchTicks,    \* bound: ticks between reading the time and searching
    NoIp, NoSlot

ASSUME ArpAssumption ==
    /\ MaxRecords \in Nat \ {0}
    /\ Period \in Nat \ {0} /\ Timeout \in Nat \ {0} /\ {Losses, SearchTicks} \subseteq Nat
    /\ NoIp \notin Neighbours
    /\ NoSlot \notin 1 .. MaxRecords

VARIABLES
    arp,        \* arprecord
    writer,     \* arp_frame_handler: the announced ip, the slot, the fields
                \* still to be written
    reader,     \* forwardPacket: ip, slot, the MAC copied so far
    nextSend,   \* neighbour -> ticks to its next announcement
    heard,      \* the neighbours that announced themselves
    lost        \* announcements lost so far

ArpVars == <<arp, writer, reader, nextSend, heard, lost>>

Slots == 1 .. MaxRecords
FreeAge == Timeout + SearchTicks
Ages == 0 .. FreeAge

Older(n) == IF n < FreeAge THEN n + 1 ELSE n

MacOf(ip) == [left |-> ip, right |-> ip]
NoMac == MacOf(NoIp)

IdleWriter == [ip |-> NoIp, slot |-> NoSlot, todo |-> <<>>]
IdleReader == [at |-> "idle", ip |-> NoIp, slot |-> NoSlot, since |-> 0,
               left |-> NoIp, right |-> NoIp]

ArpInit ==
    /\ arp = [s \in Slots |-> [ip |-> NoIp, mac |-> NoMac, age |-> FreeAge]]
    /\ writer = IdleWriter
    /\ reader = IdleReader
    /\ nextSend = [n \in Neighbours |-> Period]
    /\ heard = {}
    /\ lost = 0

-----------------------------------------------------------------------------
\* current_time - timestamp < ARP_TIMEOUT_MS, unsigned: a record younger than
\* current_time does not count as fresh.  lag is the age of current_time.
Fresh(s, lag) == arp[s].age - lag \in 0 .. Timeout - 1

Matching(ip, lag) == {s \in Slots : arp[s].ip = ip /\ Fresh(s, lag)}

\* find_arp_record: the first fresh record of the address
FindArpRecord(ip, lag) ==
    IF Matching(ip, lag) = {} THEN NoSlot
    ELSE CHOOSE s \in Matching(ip, lag) : \A o \in Matching(ip, lag) : s <= o

\* find_evict_arp_record: the first of the oldest records
FindEvictArpRecord ==
    CHOOSE s \in Slots : \A o \in Slots :
        arp[s].age > arp[o].age \/ (arp[s].age = arp[o].age /\ s <= o)

\* Mutant: the record is found fresh before it is written.
TimestampFirst(known) ==
    IF known THEN <<"timestamp", "left", "right">>
    ELSE <<"timestamp", "ip", "left", "right">>

\* The fields arp_frame_handler writes, in this order, the timestamp last
FieldsToWrite(known) ==
    IF known THEN <<"left", "right", "timestamp">>
    ELSE <<"ip", "left", "right", "timestamp">>

\* Which record an announcement goes to, and what is written to it
RecordFor(ip) ==
    LET known == FindArpRecord(ip, 0) # NoSlot
    IN  [ip |-> ip,
         slot |-> IF known THEN FindArpRecord(ip, 0) ELSE FindEvictArpRecord,
         todo |-> FieldsToWrite(known)]

\* arp_frame_handler begins: an announcement of ip has come.
AnnouncementArrives(ip) ==
    /\ writer = IdleWriter
    /\ writer' = RecordFor(ip)
    /\ UNCHANGED <<arp, reader, lost>>

\* The record rec after the first field on the writer's list is written
Written(rec, field) ==
    CASE field = "ip"        -> [rec EXCEPT !.ip = writer.ip]
      [] field = "left"      -> [rec EXCEPT !.mac.left = writer.ip]
      [] field = "right"     -> [rec EXCEPT !.mac.right = writer.ip]
      [] field = "timestamp" -> [rec EXCEPT !.age = 0]

\* arp_frame_handler writes one field more.
WriteField ==
    /\ writer # IdleWriter
    /\ arp' = [arp EXCEPT ![writer.slot] = Written(@, Head(writer.todo))]
    /\ IF Len(writer.todo) = 1
       THEN writer' = IdleWriter /\ heard' = heard \cup {writer.ip}
       ELSE writer' = [writer EXCEPT !.todo = Tail(@)] /\ UNCHANGED heard
    /\ UNCHANGED <<reader, nextSend, lost>>

-----------------------------------------------------------------------------
\* forwardPacket, find_arp_record: the time is read ...
BeginLookup(ip) ==
    /\ reader.at = "idle"
    /\ reader' = [IdleReader EXCEPT !.at = "searching", !.ip = ip]
    /\ UNCHANGED <<arp, writer, nextSend, heard, lost>>

\* ... and the table searched.  Without a record the packet is broadcast.
Search ==
    /\ reader.at = "searching"
    /\ LET s == FindArpRecord(reader.ip, reader.since) IN
       reader' = IF s = NoSlot THEN IdleReader
                 ELSE [reader EXCEPT !.at = "copying", !.slot = s,
                                     !.since = arp[s].age]
    /\ UNCHANGED <<arp, writer, nextSend, heard, lost>>

\* memcpy(nextHopMAC, rec->mac_addr, ETH_ALEN), from the table itself
CopyLeft ==
    /\ reader.at = "copying"
    /\ reader' = [reader EXCEPT !.at = "copying on", !.left = arp[reader.slot].mac.left]
    /\ UNCHANGED <<arp, writer, nextSend, heard, lost>>

CopyRight ==
    /\ reader.at = "copying on"
    /\ reader' = [reader EXCEPT !.at = "copied", !.right = arp[reader.slot].mac.right]
    /\ UNCHANGED <<arp, writer, nextSend, heard, lost>>

\* The frame is sent.
EndLookup ==
    /\ reader.at = "copied"
    /\ reader' = IdleReader
    /\ UNCHANGED <<arp, writer, nextSend, heard, lost>>

-----------------------------------------------------------------------------
\* arp_routine of a neighbour: one broadcast each period, which arrives ...
PeriodicAnnouncement(ip) ==
    /\ nextSend[ip] = 0
    /\ nextSend' = [nextSend EXCEPT ![ip] = Period]
    /\ AnnouncementArrives(ip)
    /\ UNCHANGED heard

\* ... or is lost.
AnnouncementLost(ip) ==
    /\ nextSend[ip] = 0 /\ lost < Losses
    /\ nextSend' = [nextSend EXCEPT ![ip] = Period]
    /\ lost' = lost + 1
    /\ UNCHANGED <<arp, writer, reader, heard>>

\* send_arp_broadcast from forwardPacket of a neighbour
ExtraAnnouncement(ip) ==
    /\ AnnouncementArrives(ip)
    /\ UNCHANGED <<nextSend, heard>>

\* Time goes on, but not past an announcement that is due, and not while the
\* handler writes: it takes less than a tick.
Tick ==
    /\ writer = IdleWriter
    /\ \A n \in Neighbours : nextSend[n] > 0
    /\ reader.at = "searching" => reader.since < SearchTicks
    /\ nextSend' = [n \in Neighbours |-> nextSend[n] - 1]
    /\ arp' = [s \in Slots |-> [arp[s] EXCEPT !.age = Older(@)]]
    /\ reader' = IF reader.at = "idle" THEN reader
                 ELSE [reader EXCEPT !.since = Older(@)]
    /\ UNCHANGED <<writer, heard, lost>>

ArpNext ==
    \/ WriteField
    \/ Search \/ CopyLeft \/ CopyRight \/ EndLookup
    \/ Tick
    \/ \E ip \in Neighbours :
        \/ PeriodicAnnouncement(ip) \/ AnnouncementLost(ip) \/ ExtraAnnouncement(ip)
        \/ BeginLookup(ip)

ArpSpec == ArpInit /\ [][ArpNext]_ArpVars

-----------------------------------------------------------------------------
\* arp_frame_handler: an address never has two records that find_arp_record
\* could both return, though expired records of it may lie about.
OneFreshRecord ==
    \A s, o \in Slots :
        arp[s].ip = arp[o].ip /\ Fresh(s, 0) /\ Fresh(o, 0) => s = o

\* The MAC forwardPacket copies without a lock is the one of the address it
\* asked for, whole, unless the copy is so late that the record expired
\* meanwhile: arp_frame_handler writes the timestamp last, so a half-written
\* record is not found.
WrongMacOnlyIfLate ==
    reader.at = "copied" /\ reader.since < Timeout
        => reader.left = reader.ip /\ reader.right = reader.ip

\* ARP_TIMEOUT_MS against the sleep of arp_routine: while no announcement is
\* lost, a neighbour once heard is always found; with losses it is unknown
\* for a while.
NeighbourStaysKnown ==
    lost = 0 => \A n \in heard : Matching(n, 0) # {}

\* What find_arp_record and the copies of its callers may rely on
LookupsSound == OneFreshRecord /\ WrongMacOnlyIfLate /\ NeighbourStaysKnown
=============================================================================
