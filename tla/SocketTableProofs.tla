------------------------- MODULE SocketTableProofs -------------------------
(***************************************************************************)
(* The tables of the daemon (src/test/tcp_protocol_stack.c and the lists   *)
(* of src/transport/tcp.c) stay consistent for any number of ids, devices, *)
(* ports, remotes and backlogs, under every order of requests, segments,   *)
(* timer ticks and clean-up threads.                                       *)
(***************************************************************************)
EXTENDS SocketTable, FiniteSetTheorems, SequenceTheorems, WellFoundedInduction, TLAPS

States == {"free"} \cup Unconnected \cup DataStates

\* An entry of a waiting list; of one that was never set only the remote counts.
EntryType == [remote : Remotes, dev : Devices, port : Ports, set : BOOLEAN]

SlotType ==
    [state : States, dev : Devices \cup {AllDevices, BadDevice}, port : Ports \cup {0},
     remote : Remotes \cup {NoRemote}, waiting : Seq(EntryType), count : Int,
     backlog : Nat, accepting : BOOLEAN, closing : BOOLEAN, timer : BOOLEAN]

TablesTyped ==
    /\ slot \in [Ids -> SlotType]
    /\ conn \in [Devices -> [Ports -> Ids \cup {NoSocket}]]
    /\ data \in [Devices -> [Ports -> Seq(Ids)]]
    /\ taken \subseteq Ids /\ held \subseteq Ids /\ leaving \subseteq Ids

-----------------------------------------------------------------------------
(***************************************************************************)
(* The ids                                                                 *)
(***************************************************************************)

\* An id is in use as long as its socket lives, an application has it open, or
\* freeSocket_pthread is about to free it.  That thread is about a socket that waits
\* for the peer's FIN, or was freed since, and that no application has open any more.
IdOK(i, s, T, H, L) ==
    /\ s.state # "free" \/ i \in H \/ i \in L => i \in T
    /\ i \in L => i \notin H /\ s.state \in {"free", "fin wait"}
    /\ s.state \in {"fin wait", "syn recv"} => i \notin H
    /\ s.closing => i \notin H /\ s.state \in {"established"} \cup Finishing

IdsOK(sl, T, H, L) == \A i \in Ids : IdOK(i, sl[i], T, H, L)

IdsInv == IdsOK(slot, taken, held, leaving)

-----------------------------------------------------------------------------
(***************************************************************************)
(* Ports and connections                                                   *)
(***************************************************************************)

\* The data sockets at a port.
Live(s, d, p) == s.state \in DataStates /\ s.dev = d /\ s.port = p

Bound(s) == s.state \in {"binded", "listen"}

\* These speak of tables sl, cn and dt, which stand for slot, conn and data, so that
\* a step can be taken apart into a change of one socket and another of its port.

\* The list of a port holds the data sockets at it, each once.
ListExact(sl, dt, d, p) ==
    /\ \A k, l \in DOMAIN dt[d][p] : dt[d][p][k] = dt[d][p][l] => k = l
    /\ \A i \in Ids : Live(sl[i], d, p) <=> \E k \in DOMAIN dt[d][p] : dt[d][p][k] = i

\* The owner of a port is bound to it or connects from it.
OwnerThere(sl, cn, d, p) ==
    cn[d][p] # NoSocket => Bound(sl[cn[d][p]]) \/ Live(sl[cn[d][p]], d, p)

\* Whoever is at a port owns it, or came by its listening owner.
CameByOwner(sl, cn, d, p) ==
    \A i \in Ids : Live(sl[i], d, p) =>
        /\ cn[d][p] # NoSocket
        /\ cn[d][p] # i => sl[cn[d][p]].state = "listen"

\* Data sockets at one port have different remotes.
RemotesDiffer(sl, d, p) ==
    \A i, j \in Ids : Live(sl[i], d, p) /\ Live(sl[j], d, p) /\ i # j
        => sl[i].remote # sl[j].remote

PortOK(sl, cn, dt, d, p) ==
    /\ ListExact(sl, dt, d, p) /\ OwnerThere(sl, cn, d, p)
    /\ CameByOwner(sl, cn, d, p) /\ RemotesDiffer(sl, d, p)

\* A remote that waits at a port has no data socket there yet.
WaitsAlone(sl, cn, i, e) ==
    e.set => /\ cn[e.dev][e.port] = i
             /\ \A j \in Ids : Live(sl[j], e.dev, e.port) => sl[j].remote # e.remote

AllWaitAlone(sl, cn, i, s) ==
    s.state \in Unconnected =>
        \A k \in DOMAIN s.waiting : WaitsAlone(sl, cn, i, s.waiting[k])

\* A data socket has its place, a timer runs only for one, and only a listening
\* socket has an accept that waits.
StateFits(s) ==
    /\ s.state \in DataStates => s.dev \in Devices /\ s.port \in Ports
    /\ s.timer => s.state \in DataStates
    /\ s.accepting => s.state = "listen"

Connections(sl, cn, dt) ==
    /\ \A d \in Devices, p \in Ports : PortOK(sl, cn, dt, d, p)
    /\ \A i \in Ids : StateFits(sl[i]) /\ AllWaitAlone(sl, cn, i, sl[i])

ConnectionsInv == Connections(slot, conn, data)

-----------------------------------------------------------------------------
(***************************************************************************)
(* Waiting lists                                                           *)
(***************************************************************************)

\* What is said of one waiting list: with a backlog of one it has one entry,
\* which was put into an empty list.
ListSound(s) ==
    /\ s.count = Len(s.waiting)
    /\ s.count <= (IF s.backlog > 1 THEN s.backlog ELSE 1)
    /\ \A k \in 2 .. Len(s.waiting) : ~s.waiting[k].set
    /\ s.backlog <= 1 => \A k \in DOMAIN s.waiting : s.waiting[k].set

\* A backlog comes with listen.
WaitingOK(s) == ListSound(s) /\ (s.state \in {"close", "binded"} => s.backlog = 0)

WaitingInv ==
    /\ \A i \in Ids : WaitingOK(slot[i])
    /\ (\A i \in Ids : slot[i].backlog <= 1) => halted # "unset fields"

TableInv ==
    /\ TablesTyped /\ WaitingInv
    /\ Up => IdsInv /\ ConnectionsInv

USE TableAssumption

-----------------------------------------------------------------------------
(***************************************************************************)
(* Least ids, places in a list, lists                                      *)
(***************************************************************************)

\* A set of numbers that is not empty has a least one.
LEMMA LeastExists ==
  ASSUME NEW S, S \subseteq Nat, S # {}
  PROVE  \E m \in S : \A k \in S : m <= k
<1>1. PICK m \in S : \A k \in S : <<k, m>> \notin OpToRel(<, Nat)
  BY WFMin, NatLessThanWellFounded, Zenon
<1>2. \A k \in S : k \in Nat /\ m \in Nat
  OBVIOUS
<1>3. \A k \in S : ~(k < m)
  BY <1>1, <1>2, Zenon DEF OpToRel
<1>4. \A k \in S : m <= k
  BY <1>2, <1>3
<1> QED
  BY <1>4

\* alloc_socket_id and alloc_port take a number of those that are left.
LEMMA LeastIsMember ==
  ASSUME NEW S, S \subseteq Nat, S # {}
  PROVE  Least(S) \in S
BY LeastExists DEF Least

\* An id that is given out was not in use.
LEMMA NewIdOK ==
  ASSUME taken \subseteq Ids, taken # Ids
  PROVE  NewId \in Ids /\ NewId \notin taken
<1>1. Ids \ taken \subseteq Nat /\ Ids \ taken # {}
  OBVIOUS
<1>2. Least(Ids \ taken) \in Ids \ taken
  BY <1>1, LeastIsMember
<1> QED
  BY <1>2 DEF NewId

\* A set of places is finite, and no larger than the last of them.
LEMMA PlacesFinite ==
  ASSUME NEW n \in Nat, NEW K, K \subseteq 1 .. n
  PROVE  IsFiniteSet(K) /\ Cardinality(K) \in Nat /\ Cardinality(K) <= n
<1>1. IsFiniteSet(1 .. n) /\ Cardinality(1 .. n) = n
  <2>1. 1 \in Int /\ n \in Int
    OBVIOUS
  <2>2. IsFiniteSet(1 .. n) /\ Cardinality(1 .. n) = IF 1 > n THEN 0 ELSE n - 1 + 1
    BY <2>1, FS_Interval, Zenon
  <2> QED
    BY <2>2
<1>2. K \in SUBSET (1 .. n)
  OBVIOUS
<1>3. IsFiniteSet(K) /\ Cardinality(K) <= Cardinality(1 .. n)
  BY <1>1, <1>2, FS_Subset, Zenon
<1>4. Cardinality(K) \in Nat
  BY <1>3, FS_CardinalityType, Zenon
<1> QED
  BY <1>1, <1>3, <1>4

Enumerates(f, K) ==
    /\ f \in [1 .. Cardinality(K) -> K]
    /\ \A j, k \in 1 .. Cardinality(K) : j < k => f[j] < f[k]

\* A last place can be put behind the others.
LEMMA LastPlaceJoins ==
  ASSUME NEW m \in Nat, NEW K, K \subseteq 1 .. m, m \in K,
         NEW f, Enumerates(f, K \ {m})
  PROVE  \E g : Enumerates(g, K)
<1> DEFINE c == Cardinality(K \ {m})
           g == [j \in 1 .. c + 1 |-> IF j = c + 1 THEN m ELSE f[j]]
<1>1. c \in Nat /\ Cardinality(K) = c + 1
  <2>1. IsFiniteSet(K) /\ Cardinality(K) \in Nat
    BY PlacesFinite
  <2>2. Cardinality(K \ {m}) = Cardinality(K) - 1
    BY <2>1, FS_RemoveElement, Zenon
  <2>3. IsFiniteSet(K \ {m})
    BY <2>1, FS_RemoveElement, Zenon
  <2>4. c \in Nat
    BY <2>3, FS_CardinalityType, Zenon
  <2> QED
    BY <2>1, <2>2, <2>4
<1>2. f \in [1 .. c -> K \ {m}] /\ \A j, k \in 1 .. c : j < k => f[j] < f[k]
  BY DEF Enumerates
<1> HIDE DEF c
<1>3. \A j \in 1 .. c : f[j] \in K /\ f[j] < m
  <2>1. \A x \in K \ {m} : x \in K /\ x < m
    OBVIOUS
  <2> QED
    BY <1>2, <2>1
<1>4. \A j \in 1 .. c + 1 : g[j] = (IF j = c + 1 THEN m ELSE f[j]) /\ g[j] \in K
  BY <1>1, <1>3
<1>5. g \in [1 .. c + 1 -> K]
  BY <1>4
<1>6. ASSUME NEW j \in 1 .. c + 1, NEW k \in 1 .. c + 1, j < k
      PROVE  g[j] < g[k]
  <2>1. j \in 1 .. c /\ j # c + 1
    BY <1>1, <1>6
  <2>2. g[j] = f[j]
    BY <1>4, <2>1
  <2>3. CASE k = c + 1
    BY <1>3, <1>4, <2>1, <2>2, <2>3
  <2>4. CASE k # c + 1
    <3>1. k \in 1 .. c /\ g[k] = f[k]
      BY <1>1, <1>4, <2>4
    <3> QED
      BY <1>2, <1>6, <2>1, <2>2, <3>1
  <2> QED
    BY <2>3, <2>4
<1>7. Enumerates(g, K)
  BY <1>1, <1>5, <1>6 DEF Enumerates
<1> QED
  BY <1>7

\* Numbers up to n can be put in order: take the first n for which some could not.
LEMMA OrderExists ==
  ASSUME NEW n \in Nat, NEW K, K \subseteq 1 .. n
  PROVE  \E f : Enumerates(f, K)
<1> DEFINE Bad == {m \in Nat : \E S \in SUBSET (1 .. m) : ~\E f : Enumerates(f, S)}
<1>1. SUFFICES ASSUME Bad # {} PROVE FALSE
  OBVIOUS
<1>2. PICK m \in Bad : \A k \in Bad : m <= k
  <2>1. Bad \subseteq Nat
    OBVIOUS
  <2> QED
    BY <1>1, <2>1, LeastExists
<1>3. m \in Nat
  OBVIOUS
<1>4. PICK S \in SUBSET (1 .. m) : ~\E f : Enumerates(f, S)
  OBVIOUS
<1>5. S # {}
  <2>1. SUFFICES ASSUME S = {} PROVE FALSE
    OBVIOUS
  <2>2. Cardinality(S) = 0
    BY <2>1, FS_EmptySet
  <2>3. <<>> \in [1 .. 0 -> S] /\ 1 .. 0 = {}
    OBVIOUS
  <2>4. Enumerates(<<>>, S)
    BY <2>2, <2>3 DEF Enumerates
  <2> QED
    BY <1>4, <2>4
<1>6. m # 0
  <2>1. 1 .. 0 = {}
    OBVIOUS
  <2> QED
    BY <1>5, <2>1
<1>7. m - 1 \in Nat /\ ~(m <= m - 1)
  BY <1>3, <1>6
<1>8. m - 1 \notin Bad
  BY <1>2, <1>7
<1>9. \A T \in SUBSET (1 .. m - 1) : \E f : Enumerates(f, T)
  BY <1>7, <1>8
<1>10. S \ {m} \in SUBSET (1 .. m - 1)
  BY <1>3
<1>11. PICK f : Enumerates(f, S \ {m})
  BY <1>9, <1>10, Zenon
<1>12. m \in S
  <2>1. SUFFICES ASSUME m \notin S PROVE FALSE
    OBVIOUS
  <2>2. S \ {m} = S
    BY <2>1
  <2> QED
    BY <1>4, <1>11, <2>2, Zenon
<1>13. S \subseteq 1 .. m
  OBVIOUS
<1> QED
  BY <1>3, <1>4, <1>11, <1>12, <1>13, LastPlaceJoins, Zenon

\* InOrder lists every place that is asked for, and none before its turn.
LEMMA InOrderOK ==
  ASSUME NEW n \in Nat, NEW K, K \subseteq 1 .. n
  PROVE  Cardinality(K) \in Nat /\ Cardinality(K) <= n /\ Enumerates(InOrder(K), K)
<1>1. Cardinality(K) \in Nat /\ Cardinality(K) <= n
  BY PlacesFinite
<1>2. PICK f : Enumerates(f, K)
  BY OrderExists
<1> DEFINE F == [1 .. Cardinality(K) -> K]
           O(g) == \A j, k \in DOMAIN g : j < k => g[j] < g[k]
<1>3. f \in F /\ O(f)
  BY <1>2 DEF Enumerates
<1>4. InOrder(K) = CHOOSE g \in F : O(g)
  BY DEF InOrder
<1> HIDE DEF F, O
<1>5. InOrder(K) \in F /\ O(InOrder(K))
  BY <1>3, <1>4, Zenon
<1> QED
  BY <1>1, <1>5 DEF F, O, Enumerates

\* insert_data_socket adds what was not there.
LEMMA InsertOK ==
  ASSUME NEW list \in Seq(Ids), NEW i \in Ids, ~\E k \in DOMAIN list : list[k] = i,
         \A k, l \in DOMAIN list : list[k] = list[l] => k = l
  PROVE  LET new == InsertDataSocket(list, i)
         IN  /\ new \in Seq(Ids)
             /\ \A k, l \in DOMAIN new : new[k] = new[l] => k = l
             /\ \A j \in Ids : (\E k \in DOMAIN new : new[k] = j)
                                  <=> j = i \/ \E k \in DOMAIN list : list[k] = j
<1> DEFINE n == Len(list)
           new == Append(list, i)
<1>1. InsertDataSocket(list, i) = new
  BY DEF InsertDataSocket, Contains
<1>2. /\ n \in Nat /\ DOMAIN list = 1 .. n /\ new \in Seq(Ids) /\ DOMAIN new = 1 .. n + 1
      /\ \A k \in 1 .. n : new[k] = list[k]
      /\ new[n + 1] = i
  OBVIOUS
<1> HIDE DEF n, new
<1>3. \A k \in 1 .. n + 1 : k = n + 1 \/ k \in 1 .. n
  BY <1>2
<1>4. n + 1 \in 1 .. n + 1 /\ \A k \in 1 .. n : k \in 1 .. n + 1
  BY <1>2
<1>5. ASSUME NEW k \in DOMAIN new, NEW l \in DOMAIN new, new[k] = new[l]
      PROVE  k = l
  BY <1>2, <1>3, <1>5
<1>6. ASSUME NEW j \in Ids
      PROVE  (\E k \in DOMAIN new : new[k] = j) <=> j = i \/ \E k \in DOMAIN list : list[k] = j
  BY <1>2, <1>3, <1>4
<1> QED
  BY <1>1, <1>2, <1>5, <1>6

\* Whatever is inserted, a list of sockets remains one.
LEMMA InsertType ==
  ASSUME NEW list \in Seq(Ids), NEW i \in Ids
  PROVE  InsertDataSocket(list, i) \in Seq(Ids)
BY DEF InsertDataSocket

\* delete_data_socket takes out the one it is asked for and leaves the others.
LEMMA DeleteOK ==
  ASSUME NEW list \in Seq(Ids), NEW i \in Ids,
         \A k, l \in DOMAIN list : list[k] = list[l] => k = l
  PROVE  LET new == DeleteDataSocket(list, i)
         IN  /\ new \in Seq(Ids)
             /\ \A k, l \in DOMAIN new : new[k] = new[l] => k = l
             /\ \A j \in Ids : (\E k \in DOMAIN new : new[k] = j)
                                  <=> j # i /\ \E k \in DOMAIN list : list[k] = j
<1>1. CASE ~\E k \in 1 .. Len(list) : list[k] = i
  <2>1. DeleteDataSocket(list, i) = list
    BY <1>1 DEF DeleteDataSocket, RemoveFirst
  <2> QED
    BY <1>1, <2>1
<1>2. CASE \E k \in 1 .. Len(list) : list[k] = i
  <2>1. PICK m \in 1 .. Len(list) : list[m] = i
    BY <1>2
  <2> DEFINE n == Len(list)
             I == {k \in 1 .. n : list[k] = i}
             new == RemoveAt(list, m)
  <2>2. I = {m}
    BY <2>1
  <2>3. Min(I) = m
    <3>1. \A x : x \in I <=> x = m
      BY <2>2
    <3>2. m <= m
      BY <2>1
    <3> HIDE DEF I
    <3> QED
      BY <3>1, <3>2, Zenon DEF Min
  <2>4. SelectInSeq(list, LAMBDA v : v = i) = Min(I)
    BY <2>1, <2>2 DEF SelectInSeq
  <2>5. DeleteDataSocket(list, i) = new
    BY <1>2, <2>3, <2>4 DEF DeleteDataSocket, RemoveFirst
  <2>6. n \in Nat /\ m \in 1 .. n /\ DOMAIN list = 1 .. n
    BY <2>1
  <2>a. \A k \in 1 .. n : list[k] \in Ids
    OBVIOUS
  <2> HIDE DEF n, new
  <2>7. /\ new \in Seq(Ids) /\ Len(new) = n - 1
        /\ \A k \in 1 .. n - 1 : new[k] = IF k < m THEN list[k] ELSE list[k + 1]
    <3> DEFINE a == SubSeq(list, 1, m - 1)
               b == SubSeq(list, m + 1, n)
    <3>1. /\ a \in Seq(Ids) /\ Len(a) = m - 1
          /\ \A k \in 1 .. m - 1 : a[k] = list[k]
      BY <2>6, <2>a
    <3>2. /\ b \in Seq(Ids) /\ Len(b) = n - m
          /\ \A k \in 1 .. n - m : b[k] = list[k + m]
      <4>1. /\ m + 1 \in Int /\ n \in Int /\ n - (m + 1) + 1 = n - m
            /\ \A l \in m + 1 .. n : list[l] \in Ids
            /\ \A k \in 1 .. n - m : m + 1 + k - 1 = k + m
        BY <2>6, <2>a
      <4>2. /\ b \in Seq(Ids) /\ Len(b) = IF m + 1 <= n THEN n - (m + 1) + 1 ELSE 0
            /\ \A k \in 1 .. n - (m + 1) + 1 : b[k] = list[m + 1 + k - 1]
        BY <4>1, SubSeqProperties
      <4> HIDE DEF b
      <4>3. Len(b) = n - m
        <5>1. CASE m = n
          BY <2>6, <4>2, <5>1
        <5>2. CASE m # n
          <6>1. m + 1 <= n
            BY <2>6, <5>2
          <6> QED
            BY <4>1, <4>2, <6>1
        <5> QED
          BY <5>1, <5>2
      <4>4. ASSUME NEW k \in 1 .. n - m PROVE b[k] = list[k + m]
        <5>1. k \in 1 .. n - (m + 1) + 1 /\ m + 1 + k - 1 = k + m
          BY <4>1
        <5> QED
          BY <4>2, <5>1
      <4> QED
        BY <4>2, <4>3, <4>4
    <3>3. new = a \o b
      BY DEF new, n, RemoveAt
    <3> HIDE DEF a, b
    <3>4. new \in Seq(Ids) /\ Len(new) = n - 1
      <4>1. a \in Seq(Ids) /\ b \in Seq(Ids)
        BY <3>1, <3>2
      <4>2. new \in Seq(Ids) /\ Len(new) = Len(a) + Len(b)
        BY <3>3, <4>1, ConcatProperties
      <4> QED
        BY <2>6, <3>1, <3>2, <4>2
    <3>5. ASSUME NEW k \in 1 .. n - 1
          PROVE  new[k] = IF k < m THEN list[k] ELSE list[k + 1]
      <4>1. CASE k < m
        <5>1. k \in 1 .. m - 1 /\ k \in 1 .. Len(a)
          BY <2>6, <3>1, <4>1
        <5> QED
          BY <3>1, <3>2, <3>3, <4>1, <5>1
      <4>2. CASE ~(k < m)
        <5>1. /\ k - (m - 1) \in 1 .. n - m /\ k - (m - 1) + m = k + 1
              /\ k > Len(a) /\ k <= Len(a) + Len(b) /\ k - Len(a) = k - (m - 1)
          BY <2>6, <3>1, <3>2, <4>2
        <5>2. new[k] = b[k - (m - 1)]
          BY <3>1, <3>2, <3>3, <5>1
        <5> QED
          BY <3>2, <4>2, <5>1, <5>2
      <4> QED
        BY <4>1, <4>2
    <3> QED
      BY <3>4, <3>5
  <2>8. DOMAIN new = 1 .. n - 1
    BY <2>7
  <2> DEFINE at(k) == IF k < m THEN k ELSE k + 1
  <2>9. \A k \in 1 .. n - 1 : at(k) \in 1 .. n /\ at(k) # m /\ new[k] = list[at(k)]
    BY <2>6, <2>7
  <2>10. \A k, l \in 1 .. n - 1 : at(k) = at(l) => k = l
    BY <2>6
  <2>11. \A l \in 1 .. n : l # m => \E k \in 1 .. n - 1 : at(k) = l
    <3>1. SUFFICES ASSUME NEW l \in 1 .. n, l # m PROVE \E k \in 1 .. n - 1 : at(k) = l
      OBVIOUS
    <3>2. CASE l < m
      BY <2>6, <3>2
    <3>3. CASE ~(l < m)
      <4>1. l - 1 \in 1 .. n - 1 /\ at(l - 1) = l
        BY <2>6, <3>1, <3>3
      <4> QED
        BY <4>1
    <3> QED
      BY <3>2, <3>3
  <2> HIDE DEF at
  <2>12. ASSUME NEW k \in DOMAIN new, NEW l \in DOMAIN new, new[k] = new[l]
         PROVE  k = l
    BY <2>6, <2>8, <2>9, <2>10, <2>12
  <2>13. ASSUME NEW j \in Ids
         PROVE  (\E k \in DOMAIN new : new[k] = j)
                   <=> j # i /\ \E k \in DOMAIN list : list[k] = j
    <3>1. ASSUME NEW k \in DOMAIN new, new[k] = j
          PROVE  j # i /\ \E l \in DOMAIN list : list[l] = j
      BY <2>1, <2>6, <2>8, <2>9, <3>1
    <3>2. ASSUME j # i, NEW l \in DOMAIN list, list[l] = j
          PROVE  \E k \in DOMAIN new : new[k] = j
      <4>1. l \in 1 .. n /\ l # m
        BY <2>1, <2>6, <3>2
      <4>2. PICK k \in 1 .. n - 1 : at(k) = l
        BY <2>11, <4>1
      <4> QED
        BY <2>8, <2>9, <3>2, <4>2
    <3> QED
      BY <3>1, <3>2
  <2> QED
    BY <2>5, <2>7, <2>12, <2>13
<1> QED
  BY <1>1, <1>2

-----------------------------------------------------------------------------
(***************************************************************************)
(* Waiting lists                                                           *)
(***************************************************************************)

\* What delete and insert leave alone of a socket
SameButList(t, s) ==
    /\ t.state = s.state /\ t.dev = s.dev /\ t.port = s.port /\ t.remote = s.remote
    /\ t.backlog = s.backlog /\ t.accepting = s.accepting /\ t.closing = s.closing
    /\ t.timer = s.timer

\* Every entry of list was in old, no earlier than it is now, and satisfies Keep.
Shortens(list, old, r) ==
    /\ Len(list) <= Len(old)
    /\ \A k \in DOMAIN list : \E l \in DOMAIN old :
         k <= l /\ list[k] = old[l] /\ old[l].remote # r

\* What is said of a waiting list holds of a part of it.
LEMMA ListSoundShortens ==
  ASSUME NEW s \in SlotType, NEW t \in SlotType, ListSound(s), NEW r,
         t.backlog = s.backlog, t.count = Len(t.waiting), Shortens(t.waiting, s.waiting, r)
  PROVE  ListSound(t)
<1>1. /\ s.waiting \in Seq(EntryType) /\ t.waiting \in Seq(EntryType) /\ s.backlog \in Nat
      /\ s.count = Len(s.waiting) /\ s.count <= (IF s.backlog > 1 THEN s.backlog ELSE 1)
      /\ \A k \in 2 .. Len(s.waiting) : ~s.waiting[k].set
      /\ s.backlog <= 1 => \A k \in DOMAIN s.waiting : s.waiting[k].set
  BY DEF SlotType, ListSound
<1>2. /\ Len(t.waiting) <= Len(s.waiting)
      /\ \A k \in DOMAIN t.waiting : \E l \in DOMAIN s.waiting :
           k <= l /\ t.waiting[k] = s.waiting[l]
  BY DEF Shortens
<1> DEFINE n == Len(t.waiting)
           m == Len(s.waiting)
<1>3. n \in Nat /\ m \in Nat /\ DOMAIN t.waiting = 1 .. n /\ DOMAIN s.waiting = 1 .. m
  BY <1>1
<1> HIDE DEF n, m
<1>4. t.count <= (IF t.backlog > 1 THEN t.backlog ELSE 1)
  <2>1. n <= m /\ m <= (IF s.backlog > 1 THEN s.backlog ELSE 1)
    BY <1>1, <1>2 DEF n, m
  <2>2. n <= (IF s.backlog > 1 THEN s.backlog ELSE 1)
    BY <1>1, <1>3, <2>1
  <2> QED
    BY <2>2 DEF n
<1>5. ASSUME NEW k \in 2 .. n
      PROVE  ~t.waiting[k].set
  <2>1. k \in 1 .. n /\ k \in Int /\ 2 <= k
    BY <1>3, <1>5
  <2>2. PICK l \in 1 .. m : k <= l /\ t.waiting[k] = s.waiting[l]
    BY <1>2, <1>3, <2>1
  <2>3. l \in 2 .. m
    BY <1>3, <2>1, <2>2
  <2> QED
    BY <1>1, <2>2, <2>3 DEF m
<1>6. s.backlog <= 1 => \A k \in DOMAIN t.waiting : t.waiting[k].set
  BY <1>1, <1>2
<1> QED
  BY <1>4, <1>5, <1>6 DEF ListSound, n

\* delete_waiting_connection, until there is none of r left
LEMMA DeleteWaitingOK ==
  ASSUME NEW s \in SlotType, ListSound(s), NEW r
  PROVE  LET t == DeleteWaiting(s, r)
         IN  /\ t \in SlotType /\ SameButList(t, s) /\ ListSound(t)
             /\ Shortens(t.waiting, s.waiting, r)
<1> DEFINE w == s.waiting
           n == Len(w)
           K == {k \in DOMAIN w : w[k].remote # r}
           f == InOrder(K)
           c == Cardinality(K)
           list == [k \in DOMAIN f |-> w[f[k]]]
           t == DeleteWaiting(s, r)
<1>1. w \in Seq(EntryType) /\ n \in Nat /\ DOMAIN w = 1 .. n /\ s.count = n
  BY DEF SlotType, ListSound
<1>2. K \subseteq 1 .. n
  BY <1>1
<1>3. c \in Nat /\ c <= n /\ Enumerates(f, K)
  BY <1>1, <1>2, InOrderOK
<1>4. f \in [1 .. c -> K] /\ \A j, k \in 1 .. c : j < k => f[j] < f[k]
  BY <1>3 DEF Enumerates
<1>5. t = [s EXCEPT !.waiting = list, !.count = @ - (Len(s.waiting) - Len(f))]
  BY DEF DeleteWaiting
<1> HIDE DEF f, c, t
<1>6. DOMAIN f = 1 .. c /\ Len(f) = c
  <2>1. f \in Seq(K)
    BY <1>3, <1>4
  <2> QED
    BY <1>3, <1>4, <2>1
<1>7. \A k \in 1 .. c : f[k] \in 1 .. n /\ w[f[k]].remote # r /\ w[f[k]] \in EntryType
  BY <1>1, <1>4
<1>8. list \in [1 .. c -> EntryType]
  BY <1>6, <1>7
<1>9. list \in Seq(EntryType) /\ Len(list) = c /\ DOMAIN list = 1 .. c
  BY <1>3, <1>8
<1>10. \A k \in 1 .. c : list[k] = w[f[k]]
  BY <1>6
<1> HIDE DEF list
<1>11. t = [s EXCEPT !.waiting = list, !.count = c]
  <2>1. n - (n - c) = c
    BY <1>1, <1>3
  <2> QED
    BY <1>1, <1>5, <1>6, <2>1
<1>12. c \in Int
  BY <1>3
<1>13. t \in SlotType /\ t.waiting = list /\ t.count = c /\ SameButList(t, s)
  BY <1>9, <1>11, <1>12 DEF SlotType, SameButList
<1>14. \A k \in 1 .. c : k <= f[k]
  <2> DEFINE Bad == {k \in 1 .. c : f[k] < k}
  <2>1. SUFFICES ASSUME Bad # {} PROVE FALSE
    BY <1>3, <1>7
  <2>2. Bad \subseteq Nat
    BY <1>3
  <2>3. PICK k \in Bad : \A l \in Bad : k <= l
    BY <2>1, <2>2, LeastExists
  <2>4. k \in 1 .. c /\ f[k] < k /\ f[k] \in 1 .. n
    BY <1>7
  <2>5. k - 1 \in 1 .. c /\ k - 1 < k
    BY <1>1, <1>3, <2>4
  <2>6. f[k - 1] < f[k] /\ f[k - 1] \in 1 .. n
    BY <1>4, <1>7, <2>4, <2>5
  <2>7. f[k - 1] < k - 1
    BY <1>1, <1>3, <2>4, <2>6
  <2>8. k - 1 \in Bad
    BY <2>5, <2>7
  <2> QED
    BY <1>3, <2>3, <2>4, <2>8
<1>15. Shortens(t.waiting, s.waiting, r)
  BY <1>1, <1>3, <1>7, <1>9, <1>10, <1>13, <1>14 DEF Shortens
<1>16. t.count = Len(t.waiting) /\ t.backlog = s.backlog
  BY <1>9, <1>13 DEF SameButList
<1>17. ListSound(t)
  BY <1>13, <1>15, <1>16, ListSoundShortens
<1> QED
  BY <1>13, <1>15, <1>17 DEF t

\* insert_waiting_connection: an empty list gets a first entry, another one grows
\* only below its backlog, and by an entry that is not set.
LEMMA InsertWaitingOK ==
  ASSUME NEW s \in SlotType, ListSound(s), NEW r \in Remotes, NEW d \in Devices,
         NEW p \in Ports
  PROVE  LET t == InsertWaiting(s, r, d, p)
         IN  /\ t \in SlotType /\ SameButList(t, s) /\ ListSound(t) /\ t.waiting # <<>>
             /\ \A k \in DOMAIN t.waiting : t.waiting[k].set =>
                  \/ \E l \in DOMAIN s.waiting : t.waiting[k] = s.waiting[l]
                  \/ t.waiting[k] = [remote |-> r, dev |-> d, port |-> p, set |-> TRUE]
<1> DEFINE t == InsertWaiting(s, r, d, p)
           w == s.waiting
           n == Len(w)
           e1 == [remote |-> r, dev |-> d, port |-> p, set |-> TRUE]
           e2 == [remote |-> r, dev |-> d, port |-> p, set |-> FALSE]
<1>1. w \in Seq(EntryType) /\ n \in Nat /\ DOMAIN w = 1 .. n /\ s.count = n /\ s.backlog \in Nat
  BY DEF SlotType, ListSound
<1>2. e1 \in EntryType /\ e2 \in EntryType
  BY DEF EntryType
<1>3. CASE w = <<>>
  <2>1. t = [s EXCEPT !.waiting = <<e1>>, !.count = 1]
    BY <1>3 DEF InsertWaiting
  <2>2. <<e1>> \in Seq(EntryType) /\ 1 \in Int
    BY <1>2
  <2>3. t \in SlotType /\ SameButList(t, s) /\ t.waiting = <<e1>> /\ t.count = 1
    BY <2>1, <2>2 DEF SlotType, SameButList
  <2>4. Len(<<e1>>) = 1 /\ DOMAIN <<e1>> = {1} /\ <<e1>>[1] = e1 /\ e1.set /\ <<e1>> # <<>>
    OBVIOUS
  <2> HIDE DEF t, e1
  <2>5. ListSound(t)
    <3>1. t.backlog = s.backlog
      BY <2>3 DEF SameButList
    <3>2. t.count <= (IF t.backlog > 1 THEN t.backlog ELSE 1)
      BY <1>1, <2>3, <3>1
    <3>3. 2 .. 1 = {}
      OBVIOUS
    <3> QED
      BY <2>3, <2>4, <3>2, <3>3 DEF ListSound
  <2> QED
    BY <2>3, <2>4, <2>5 DEF t, e1
<1>4. CASE w # <<>> /\ s.count >= s.backlog
  <2>1. t = s
    BY <1>4 DEF InsertWaiting
  <2>2. SameButList(s, s)
    BY DEF SameButList
  <2> QED
    BY <1>4, <2>1, <2>2
<1>5. CASE w # <<>> /\ ~(s.count >= s.backlog)
  <2>1. t = [s EXCEPT !.waiting = Append(w, e2), !.count = @ + 1]
    BY <1>5 DEF InsertWaiting
  <2> DEFINE v == Append(w, e2)
  <2>2. /\ v \in Seq(EntryType) /\ Len(v) = n + 1 /\ DOMAIN v = 1 .. n + 1
        /\ \A k \in 1 .. n : v[k] = w[k]
        /\ v[n + 1] = e2
    BY <1>1, <1>2
  <2>3. n + 1 \in Int /\ ~e2.set
    BY <1>1
  <2>a. t = [s EXCEPT !.waiting = v, !.count = n + 1]
    BY <1>1, <2>1 DEF v
  <2> HIDE DEF t, n, v, e2
  <2>4. t \in SlotType /\ SameButList(t, s) /\ t.waiting = v /\ t.count = n + 1
    BY <2>a, <2>2, <2>3 DEF SlotType, SameButList
  <2>5. n + 1 <= s.backlog /\ n >= 1 /\ s.backlog > 1 /\ ~(s.backlog <= 1)
    <3>1. n # 0
      BY <1>1, <1>5 DEF n
    <3>2. n \in Nat /\ s.backlog \in Nat /\ ~(n >= s.backlog)
      BY <1>1, <1>5
    <3> QED
      BY <3>1, <3>2
  <2>6. \A k \in 2 .. n : ~w[k].set
    BY DEF ListSound, n
  <2>7. ListSound(t)
    <3>1. t.backlog = s.backlog
      BY <2>4 DEF SameButList
    <3>2. t.count <= (IF t.backlog > 1 THEN t.backlog ELSE 1)
      BY <1>1, <2>4, <2>5, <3>1
    <3>3. \A k \in 2 .. n + 1 : k \in 2 .. n \/ k = n + 1
      BY <1>1
    <3>4. \A k \in 2 .. n : k \in 1 .. n
      BY <1>1
    <3>5. \A k \in 2 .. n + 1 : ~v[k].set
      BY <2>2, <2>3, <2>6, <3>3, <3>4
    <3> QED
      BY <2>2, <2>4, <2>5, <3>1, <3>2, <3>5 DEF ListSound
  <2>8. v # <<>>
    BY <1>1, <2>2
  <2>9. \A k \in 1 .. n + 1 : k \in 1 .. n \/ k = n + 1
    BY <1>1
  <2>10. \A k \in DOMAIN v : v[k].set => \E l \in DOMAIN w : v[k] = w[l]
    BY <1>1, <2>2, <2>3, <2>9
  <2> QED
    BY <2>4, <2>7, <2>8, <2>10 DEF t
<1> QED
  BY <1>3, <1>4, <1>5

-----------------------------------------------------------------------------
(***************************************************************************)
(* Ports: a socket changes, comes to a port, and leaves it                 *)
(***************************************************************************)

\* A socket that neither comes to a port nor leaves one
Turns(sl, cn, i, t) ==
    /\ StateFits(t) /\ AllWaitAlone(sl, cn, i, t)
    /\ \A d \in Devices, p \in Ports : Live(t, d, p) <=> Live(sl[i], d, p)
    /\ t.state \in DataStates => t.remote = sl[i].remote
    /\ Bound(sl[i]) => Bound(t)
    /\ sl[i].state = "listen" => t.state = "listen"

\* The entries of a waiting list name a port of a device.
LEMMA EntryPlace ==
  ASSUME NEW s \in SlotType, NEW k \in DOMAIN s.waiting
  PROVE  s.waiting[k].dev \in Devices /\ s.waiting[k].port \in Ports
<1>1. s.waiting \in Seq(EntryType)
  BY DEF SlotType
<1>2. s.waiting[k] \in EntryType
  BY <1>1
<1> QED
  BY <1>2 DEF EntryType

\* Such a change leaves the ports as they are.
LEMMA TurnKeeps ==
  ASSUME NEW sl \in [Ids -> SlotType], NEW cn, NEW dt, Connections(sl, cn, dt),
         cn \in [Devices -> [Ports -> Ids \cup {NoSocket}]],
         NEW i \in Ids, NEW t \in SlotType, Turns(sl, cn, i, t)
  PROVE  Connections([sl EXCEPT ![i] = t], cn, dt)
<1> DEFINE new == [sl EXCEPT ![i] = t]
<1>1. \A j \in Ids : new[j] = IF j = i THEN t ELSE sl[j]
  OBVIOUS
<1>2. \A j \in Ids : sl[j] \in SlotType
  OBVIOUS
<1>3. \A j \in Ids : new[j] \in SlotType
  BY <1>1, <1>2
<1> HIDE DEF new
<1>4. \A j \in Ids, d \in Devices, p \in Ports : Live(new[j], d, p) <=> Live(sl[j], d, p)
  BY <1>1 DEF Turns
<1>5. \A j \in Ids, d \in Devices, p \in Ports :
        Live(new[j], d, p) => new[j].remote = sl[j].remote
  BY <1>1 DEF Turns, Live
<1>6. \A j \in Ids : /\ Bound(sl[j]) => Bound(new[j])
                     /\ sl[j].state = "listen" => new[j].state = "listen"
  BY <1>1 DEF Turns
<1>7. ASSUME NEW d \in Devices, NEW p \in Ports
      PROVE  PortOK(new, cn, dt, d, p)
  <2>1. PortOK(sl, cn, dt, d, p) /\ cn[d][p] \in Ids \cup {NoSocket}
    BY DEF Connections
  <2>2. ListExact(new, dt, d, p)
    BY <1>4, <2>1 DEF ListExact, PortOK
  <2>3. OwnerThere(new, cn, d, p)
    BY <1>4, <1>6, <2>1 DEF OwnerThere, PortOK
  <2>4. CameByOwner(new, cn, d, p)
    BY <1>4, <1>6, <2>1 DEF CameByOwner, PortOK
  <2>5. RemotesDiffer(new, d, p)
    BY <1>4, <1>5, <2>1 DEF RemotesDiffer, PortOK
  <2> QED
    BY <2>2, <2>3, <2>4, <2>5 DEF PortOK
<1>8. ASSUME NEW j \in Ids
      PROVE  StateFits(new[j]) /\ AllWaitAlone(new, cn, j, new[j])
  <2>1. StateFits(new[j]) /\ AllWaitAlone(sl, cn, j, new[j])
    BY <1>1 DEF Connections, Turns
  <2>2. ASSUME new[j].state \in Unconnected, NEW k \in DOMAIN new[j].waiting
        PROVE  WaitsAlone(new, cn, j, new[j].waiting[k])
    <3> DEFINE e == new[j].waiting[k]
    <3>1. e.dev \in Devices /\ e.port \in Ports
      BY <1>3, EntryPlace
    <3>2. WaitsAlone(sl, cn, j, e)
      BY <2>1, <2>2 DEF AllWaitAlone
    <3> HIDE DEF e
    <3>3. WaitsAlone(new, cn, j, e)
      BY <1>4, <1>5, <3>1, <3>2 DEF WaitsAlone
    <3> QED
      BY <3>3 DEF e
  <2> QED
    BY <2>1, <2>2 DEF AllWaitAlone
<1> QED
  BY <1>7, <1>8 DEF Connections, new

\* The ports that bind gives to socket i
Owned(cn, D, p, i) ==
    [e \in Devices |-> IF e \in D THEN [cn[e] EXCEPT ![p] = i] ELSE cn[e]]

\* A bound socket may own more ports that were free: nobody is there.
LEMMA OwnKeeps ==
  ASSUME NEW sl \in [Ids -> SlotType], NEW cn, NEW dt, Connections(sl, cn, dt),
         cn \in [Devices -> [Ports -> Ids \cup {NoSocket}]],
         NEW i \in Ids, Bound(sl[i]), NEW D, NEW p \in Ports,
         \A e \in D : cn[e][p] = NoSocket
  PROVE  Connections(sl, Owned(cn, D, p, i), dt)
<1> DEFINE new == Owned(cn, D, p, i)
<1>1. \A d \in Devices, q \in Ports : cn[d][q] \in Ids \cup {NoSocket}
  OBVIOUS
<1>2. \A d \in Devices, q \in Ports :
        \/ new[d][q] = cn[d][q]
        \/ cn[d][q] = NoSocket /\ new[d][q] = i
  BY DEF Owned
<1> HIDE DEF new
<1>3. i # NoSocket
  BY DEF TableAssumption
<1>4. ASSUME NEW d \in Devices, NEW q \in Ports
      PROVE  PortOK(sl, new, dt, d, q)
  <2>1. PortOK(sl, cn, dt, d, q)
    BY DEF Connections
  <2>2. CASE new[d][q] = cn[d][q]
    BY <2>1, <2>2 DEF PortOK, OwnerThere, CameByOwner
  <2>3. CASE cn[d][q] = NoSocket /\ new[d][q] = i
    <3>1. \A j \in Ids : ~Live(sl[j], d, q)
      BY <2>1, <2>3 DEF PortOK, CameByOwner
    <3> QED
      BY <2>1, <2>3, <3>1 DEF PortOK, OwnerThere, CameByOwner
  <2> QED
    BY <1>2, <2>2, <2>3
<1>5. ASSUME NEW j \in Ids
      PROVE  StateFits(sl[j]) /\ AllWaitAlone(sl, new, j, sl[j])
  <2>1. StateFits(sl[j]) /\ AllWaitAlone(sl, cn, j, sl[j])
    BY DEF Connections
  <2>2. ASSUME sl[j].state \in Unconnected, NEW k \in DOMAIN sl[j].waiting
        PROVE  WaitsAlone(sl, new, j, sl[j].waiting[k])
    <3> DEFINE e == sl[j].waiting[k]
    <3>1. e.dev \in Devices /\ e.port \in Ports
      BY EntryPlace
    <3>2. WaitsAlone(sl, cn, j, e)
      BY <2>1, <2>2 DEF AllWaitAlone
    <3> HIDE DEF e
    <3>3. j # NoSocket
      BY DEF TableAssumption
    <3>4. WaitsAlone(sl, new, j, e)
      BY <1>2, <3>1, <3>2, <3>3 DEF WaitsAlone
    <3> QED
      BY <3>4 DEF e
  <2> QED
    BY <2>1, <2>2 DEF AllWaitAlone
<1> QED
  BY <1>4, <1>5 DEF Connections, new

\* A data socket may come to a port that was free, which it then owns, or to the port
\* of a listening socket where neither a data socket nor a waiting connection has its
\* remote.
MayCome(sl, cn, i, t, d, p) ==
    \/ cn[d][p] = NoSocket
    \/ /\ cn[d][p] \in Ids \ {i} /\ sl[cn[d][p]].state = "listen"
       /\ \A j \in Ids : Live(sl[j], d, p) => sl[j].remote # t.remote
       /\ LET s == sl[cn[d][p]]
          IN  \A k \in DOMAIN s.waiting :
                s.waiting[k].set /\ s.waiting[k].dev = d /\ s.waiting[k].port = p
                    => s.waiting[k].remote # t.remote

LEMMA ComesKeeps ==
  ASSUME NEW sl \in [Ids -> SlotType], NEW cn, NEW dt, Connections(sl, cn, dt),
         cn \in [Devices -> [Ports -> Ids \cup {NoSocket}]],
         dt \in [Devices -> [Ports -> Seq(Ids)]],
         NEW i \in Ids, ~Bound(sl[i]), sl[i].state \notin DataStates,
         NEW t \in SlotType, StateFits(t), NEW d \in Devices, NEW p \in Ports, Live(t, d, p),
         MayCome(sl, cn, i, t, d, p)
  PROVE  Connections([sl EXCEPT ![i] = t],
                     IF cn[d][p] = NoSocket THEN [cn EXCEPT ![d][p] = i] ELSE cn,
                     [dt EXCEPT ![d][p] = InsertDataSocket(@, i)])
<1> DEFINE sn == [sl EXCEPT ![i] = t]
           cx == IF cn[d][p] = NoSocket THEN [cn EXCEPT ![d][p] = i] ELSE cn
           list == InsertDataSocket(dt[d][p], i)
           dn == [dt EXCEPT ![d][p] = InsertDataSocket(@, i)]
<1>1. \A j \in Ids : sn[j] = IF j = i THEN t ELSE sl[j]
  OBVIOUS
<1>2. \A j \in Ids : sl[j] \in SlotType /\ sn[j] \in SlotType
  BY <1>1
<1>3. \A e \in Devices, q \in Ports :
        /\ cn[e][q] \in Ids \cup {NoSocket}
        /\ cx[e][q] = IF e = d /\ q = p /\ cn[e][q] = NoSocket THEN i ELSE cn[e][q]
  OBVIOUS
<1>4. \A e \in Devices, q \in Ports :
        /\ dt[e][q] \in Seq(Ids)
        /\ dn[e][q] = IF e = d /\ q = p THEN list ELSE dt[e][q]
  OBVIOUS
<1> HIDE DEF sn, cx, list, dn
<1>5. i # NoSocket
  BY DEF TableAssumption
<1>6. \A e \in Devices, q \in Ports : ~Live(sl[i], e, q) /\ cn[e][q] # i
  <2>1. \A e \in Devices, q \in Ports : ~Live(sl[i], e, q)
    BY DEF Live
  <2>2. \A e \in Devices, q \in Ports : OwnerThere(sl, cn, e, q)
    BY DEF Connections, PortOK
  <2> QED
    BY <1>5, <2>1, <2>2 DEF OwnerThere
<1>7. \A e \in Devices, q \in Ports : Live(t, e, q) <=> e = d /\ q = p
  BY DEF Live
<1>8. \A j \in Ids, e \in Devices, q \in Ports :
        Live(sn[j], e, q) <=> Live(sl[j], e, q) \/ (j = i /\ e = d /\ q = p)
  BY <1>1, <1>6, <1>7
<1>9. ASSUME NEW e \in Devices, NEW q \in Ports, ~(e = d /\ q = p)
      PROVE  PortOK(sn, cx, dn, e, q)
  <2>1. PortOK(sl, cn, dt, e, q)
    BY DEF Connections
  <2>2. cx[e][q] = cn[e][q] /\ dn[e][q] = dt[e][q]
    BY <1>3, <1>4, <1>9
  <2>3. \A j \in Ids : Live(sn[j], e, q) <=> Live(sl[j], e, q)
    BY <1>8, <1>9
  <2>4. \A j \in Ids : Live(sl[j], e, q) => sn[j] = sl[j]
    BY <1>1, <1>6
  <2>5. ListExact(sn, dn, e, q)
    BY <2>1, <2>2, <2>3 DEF ListExact, PortOK
  <2>6. OwnerThere(sn, cx, e, q)
    BY <1>1, <1>3, <1>6, <2>1, <2>2, <2>3 DEF OwnerThere, PortOK
  <2>7. CameByOwner(sn, cx, e, q)
    BY <1>1, <1>3, <1>6, <2>1, <2>2, <2>3 DEF CameByOwner, PortOK
  <2>8. RemotesDiffer(sn, e, q)
    BY <2>1, <2>3, <2>4 DEF RemotesDiffer, PortOK
  <2> QED
    BY <2>5, <2>6, <2>7, <2>8 DEF PortOK
<1>10. \A j \in Ids : Live(sl[j], d, p) => sl[j].remote # t.remote
  <2>1. CASE cn[d][p] = NoSocket
    BY <2>1 DEF Connections, PortOK, CameByOwner
  <2> QED
    BY <2>1 DEF MayCome
<1>11. PortOK(sn, cx, dn, d, p)
  <2>1. PortOK(sl, cn, dt, d, p)
    BY DEF Connections
  <2>2. dn[d][p] = list /\ dt[d][p] \in Seq(Ids)
    BY <1>4
  <2>3. /\ \A k, l \in DOMAIN dt[d][p] : dt[d][p][k] = dt[d][p][l] => k = l
        /\ \A j \in Ids : Live(sl[j], d, p) <=> \E k \in DOMAIN dt[d][p] : dt[d][p][k] = j
    BY <2>1 DEF PortOK, ListExact
  <2>4. ~\E k \in DOMAIN dt[d][p] : dt[d][p][k] = i
    BY <1>6, <2>3
  <2>5. /\ \A k, l \in DOMAIN list : list[k] = list[l] => k = l
        /\ \A j \in Ids : (\E k \in DOMAIN list : list[k] = j)
                             <=> j = i \/ \E k \in DOMAIN dt[d][p] : dt[d][p][k] = j
    BY <2>2, <2>3, <2>4, InsertOK DEF list
  <2>6. \A j \in Ids : Live(sn[j], d, p) <=> Live(sl[j], d, p) \/ j = i
    BY <1>8
  <2>7. ListExact(sn, dn, d, p)
    BY <2>2, <2>3, <2>5, <2>6 DEF ListExact
  <2>8. sn[i] = t /\ \A j \in Ids \ {i} : sn[j] = sl[j]
    BY <1>1
  <2>9. OwnerThere(sn, cx, d, p) /\ CameByOwner(sn, cx, d, p)
    <3>1. CASE cn[d][p] = NoSocket
      <4>1. cx[d][p] = i
        BY <1>3, <3>1
      <4>2. \A j \in Ids : Live(sn[j], d, p) => j = i
        BY <2>1, <2>6, <3>1 DEF PortOK, CameByOwner
      <4> QED
        BY <1>5, <2>6, <4>1, <4>2 DEF OwnerThere, CameByOwner
    <3>2. CASE cn[d][p] # NoSocket
      <4>1. cx[d][p] = cn[d][p] /\ cn[d][p] \in Ids \ {i} /\ sl[cn[d][p]].state = "listen"
        BY <1>3, <3>2 DEF MayCome
      <4>2. sn[cx[d][p]].state = "listen"
        BY <2>8, <4>1
      <4> QED
        BY <3>2, <4>1, <4>2 DEF OwnerThere, CameByOwner, Bound
    <3> QED
      BY <3>1, <3>2
  <2>10. RemotesDiffer(sn, d, p)
    BY <1>10, <2>1, <2>6, <2>8 DEF RemotesDiffer, PortOK
  <2> QED
    BY <2>7, <2>9, <2>10 DEF PortOK
<1>12. ASSUME NEW j \in Ids
       PROVE  StateFits(sn[j]) /\ AllWaitAlone(sn, cx, j, sn[j])
  <2>1. StateFits(sl[j]) /\ AllWaitAlone(sl, cn, j, sl[j])
    BY DEF Connections
  <2>2. t.state \notin Unconnected
    BY DEF Live, DataStates, Unconnected, Finishing
  <2>3. CASE j = i
    BY <1>1, <2>2, <2>3 DEF AllWaitAlone
  <2>4. CASE j # i
    <3>1. sn[j] = sl[j]
      BY <1>1, <2>4
    <3>2. ASSUME sl[j].state \in Unconnected, NEW k \in DOMAIN sl[j].waiting
          PROVE  WaitsAlone(sn, cx, j, sl[j].waiting[k])
      <4> DEFINE e == sl[j].waiting[k]
      <4>1. e.dev \in Devices /\ e.port \in Ports
        BY EntryPlace
      <4>2. WaitsAlone(sl, cn, j, e)
        BY <2>1, <3>2 DEF AllWaitAlone
      <4>3. e.set /\ e.dev = d /\ e.port = p => e.remote # t.remote
        <5>1. SUFFICES ASSUME e.set, e.dev = d, e.port = p PROVE e.remote # t.remote
          OBVIOUS
        <5>2. cn[d][p] = j
          BY <4>2, <5>1 DEF WaitsAlone
        <5>3. j # NoSocket
          BY DEF TableAssumption
        <5> QED
          BY <5>1, <5>2, <5>3 DEF MayCome
      <4> HIDE DEF e
      <4>4. j # NoSocket
        BY DEF TableAssumption
      <4>5. e.set => cx[e.dev][e.port] = j
        BY <1>3, <4>1, <4>2, <4>4 DEF WaitsAlone
      <4>6. ASSUME e.set, NEW l \in Ids, Live(sn[l], e.dev, e.port)
            PROVE  sn[l].remote # e.remote
        <5>1. CASE l = i /\ e.dev = d /\ e.port = p
          BY <1>1, <4>3, <4>6, <5>1
        <5>2. CASE Live(sl[l], e.dev, e.port)
          <6>1. sn[l] = sl[l]
            BY <1>1, <1>6, <4>1, <5>2
          <6> QED
            BY <4>2, <4>6, <5>2, <6>1 DEF WaitsAlone
        <5> QED
          BY <1>8, <4>1, <4>6, <5>1, <5>2
      <4>7. WaitsAlone(sn, cx, j, e)
        BY <4>5, <4>6 DEF WaitsAlone
      <4> QED
        BY <4>7 DEF e
    <3> QED
      BY <2>1, <3>1, <3>2 DEF AllWaitAlone
  <2> QED
    BY <2>3, <2>4
<1> QED
  BY <1>9, <1>11, <1>12 DEF Connections, sn, cx, dn

\* free_socket: a data socket leaves its port; if it owned it, it was alone there.
LEMMA LeavesKeeps ==
  ASSUME NEW sl \in [Ids -> SlotType], NEW cn, NEW dt, Connections(sl, cn, dt),
         cn \in [Devices -> [Ports -> Ids \cup {NoSocket}]],
         dt \in [Devices -> [Ports -> Seq(Ids)]],
         NEW i \in Ids, NEW d \in Devices, NEW p \in Ports, Live(sl[i], d, p)
  PROVE  Connections([sl EXCEPT ![i] = FreeSlot],
                     [cn EXCEPT ![d][p] = IF @ = i THEN NoSocket ELSE @],
                     [dt EXCEPT ![d][p] = DeleteDataSocket(@, i)])
<1> DEFINE sn == [sl EXCEPT ![i] = FreeSlot]
           cx == [cn EXCEPT ![d][p] = IF @ = i THEN NoSocket ELSE @]
           list == DeleteDataSocket(dt[d][p], i)
           dn == [dt EXCEPT ![d][p] = DeleteDataSocket(@, i)]
<1>1. \A j \in Ids : sn[j] = IF j = i THEN FreeSlot ELSE sl[j]
  OBVIOUS
<1>2. \A j \in Ids : sl[j] \in SlotType
  OBVIOUS
<1>3. \A e \in Devices, q \in Ports :
        /\ cn[e][q] \in Ids \cup {NoSocket}
        /\ cx[e][q] = IF e = d /\ q = p /\ cn[e][q] = i THEN NoSocket ELSE cn[e][q]
  OBVIOUS
<1>4. \A e \in Devices, q \in Ports :
        /\ dt[e][q] \in Seq(Ids)
        /\ dn[e][q] = IF e = d /\ q = p THEN list ELSE dt[e][q]
  OBVIOUS
<1> HIDE DEF sn, cx, list, dn
<1>5. /\ FreeSlot.state \notin DataStates \cup Unconnected
      /\ ~FreeSlot.timer /\ ~FreeSlot.accepting
  BY DEF FreeSlot, DataStates, Unconnected, Finishing
<1>6. \A j \in Ids, e \in Devices, q \in Ports :
        Live(sn[j], e, q) <=> Live(sl[j], e, q) /\ j # i
  BY <1>1, <1>5 DEF Live
<1>7. \A e \in Devices, q \in Ports : Live(sl[i], e, q) <=> e = d /\ q = p
  BY DEF Live
<1>8. ~Bound(sl[i]) /\ sl[i].state # "listen"
  BY DEF Live, Bound, DataStates, Finishing
<1>9. \A e \in Devices, q \in Ports : PortOK(sl, cn, dt, e, q)
  BY DEF Connections
<1>10. ASSUME NEW e \in Devices, NEW q \in Ports
       PROVE  /\ cx[e][q] # i
              /\ cx[e][q] # NoSocket => cx[e][q] = cn[e][q] /\ sn[cn[e][q]] = sl[cn[e][q]]
              /\ cx[e][q] = NoSocket => \A j \in Ids \ {i} : ~Live(sl[j], e, q)
  <2>1. i # NoSocket
    BY DEF TableAssumption
  <2>2. cn[e][q] = i => e = d /\ q = p
    BY <1>7, <1>8, <1>9, <2>1 DEF PortOK, OwnerThere
  <2>3. cx[e][q] # i
    BY <1>3, <2>1, <2>2
  <2>4. cn[e][q] = i => \A j \in Ids \ {i} : ~Live(sl[j], e, q)
    BY <1>8, <1>9 DEF PortOK, CameByOwner
  <2>5. cn[e][q] = NoSocket => \A j \in Ids : ~Live(sl[j], e, q)
    BY <1>9 DEF PortOK, CameByOwner
  <2>6. CASE cn[e][q] = i
    <3>1. cx[e][q] = NoSocket
      BY <1>3, <2>2, <2>6
    <3> QED
      BY <2>3, <2>4, <2>6, <3>1
  <2>7. CASE cn[e][q] # i
    <3>1. cx[e][q] = cn[e][q] /\ cn[e][q] \in Ids \cup {NoSocket}
      BY <1>3, <2>7
    <3> QED
      BY <1>1, <2>3, <2>5, <2>7, <3>1
  <2> QED
    BY <2>6, <2>7
<1>11. ASSUME NEW e \in Devices, NEW q \in Ports
       PROVE  PortOK(sn, cx, dn, e, q)
  <2>1. ListExact(sl, dt, e, q) /\ dt[e][q] \in Seq(Ids)
    BY <1>4, <1>9 DEF PortOK
  <2>2. ListExact(sn, dn, e, q)
    <3>1. CASE e = d /\ q = p
      <4>1. dn[e][q] = list /\ dt[e][q] = dt[d][p]
        BY <1>4, <3>1
      <4>2. /\ dt[d][p] \in Seq(Ids)
            /\ \A k, l \in DOMAIN dt[d][p] : dt[d][p][k] = dt[d][p][l] => k = l
        BY <2>1, <3>1 DEF ListExact
      <4>3. /\ \A k, l \in DOMAIN list : list[k] = list[l] => k = l
            /\ \A j \in Ids : (\E k \in DOMAIN list : list[k] = j)
                                 <=> j # i /\ \E k \in DOMAIN dt[d][p] : dt[d][p][k] = j
        BY <4>2, DeleteOK DEF list
      <4> QED
        BY <1>6, <2>1, <4>1, <4>3 DEF ListExact
    <3>2. CASE ~(e = d /\ q = p)
      <4>1. dn[e][q] = dt[e][q] /\ ~Live(sl[i], e, q)
        BY <1>4, <1>7, <3>2
      <4> QED
        BY <1>6, <2>1, <4>1 DEF ListExact
    <3> QED
      BY <3>1, <3>2
  <2>3. OwnerThere(sn, cx, e, q)
    BY <1>10, <1>9 DEF PortOK, OwnerThere
  <2>4. CameByOwner(sn, cx, e, q)
    BY <1>6, <1>9, <1>10 DEF PortOK, CameByOwner
  <2>5. RemotesDiffer(sn, e, q)
    BY <1>1, <1>6, <1>9 DEF PortOK, RemotesDiffer
  <2> QED
    BY <2>2, <2>3, <2>4, <2>5 DEF PortOK
<1>12. ASSUME NEW j \in Ids
       PROVE  StateFits(sn[j]) /\ AllWaitAlone(sn, cx, j, sn[j])
  <2>1. StateFits(sl[j]) /\ AllWaitAlone(sl, cn, j, sl[j])
    BY DEF Connections
  <2>2. CASE j = i
    BY <1>1, <1>5, <2>2 DEF AllWaitAlone, StateFits
  <2>3. CASE j # i
    <3>1. sn[j] = sl[j]
      BY <1>1, <2>3
    <3>2. ASSUME sl[j].state \in Unconnected, NEW k \in DOMAIN sl[j].waiting
          PROVE  WaitsAlone(sn, cx, j, sl[j].waiting[k])
      <4> DEFINE e == sl[j].waiting[k]
      <4>1. e.dev \in Devices /\ e.port \in Ports
        BY EntryPlace
      <4>2. WaitsAlone(sl, cn, j, e)
        BY <2>1, <3>2 DEF AllWaitAlone
      <4> HIDE DEF e
      <4>3. e.set => cx[e.dev][e.port] = j
        BY <1>3, <2>3, <4>1, <4>2 DEF WaitsAlone
      <4>4. ASSUME e.set, NEW l \in Ids, Live(sn[l], e.dev, e.port)
            PROVE  sn[l].remote # e.remote
        <5>1. Live(sl[l], e.dev, e.port) /\ sn[l] = sl[l]
          BY <1>1, <1>6, <4>1, <4>4
        <5> QED
          BY <4>2, <4>4, <5>1 DEF WaitsAlone
      <4>5. WaitsAlone(sn, cx, j, e)
        BY <4>3, <4>4 DEF WaitsAlone
      <4> QED
        BY <4>5 DEF e
    <3> QED
      BY <2>1, <3>1, <3>2 DEF AllWaitAlone
  <2> QED
    BY <2>2, <2>3
<1> QED
  BY <1>11, <1>12 DEF Connections, sn, cx, dn

-----------------------------------------------------------------------------
(***************************************************************************)
(* Steps that change one socket                                            *)
(***************************************************************************)

\* The sets differ in i at most.
SameButFor(i, S, S2) == \A j \in Ids \ {i} : j \in S2 <=> j \in S

\* The ids stay sound when one socket, and what is known of its id, changes.
LEMMA IdsKeep ==
  ASSUME NEW sl \in [Ids -> SlotType], NEW T, NEW H, NEW L, IdsOK(sl, T, H, L),
         NEW i \in Ids, NEW t, NEW T2, NEW H2, NEW L2, IdOK(i, t, T2, H2, L2),
         SameButFor(i, T, T2), SameButFor(i, H, H2), SameButFor(i, L, L2)
  PROVE  IdsOK([sl EXCEPT ![i] = t], T2, H2, L2)
<1> DEFINE new == [sl EXCEPT ![i] = t]
<1>1. \A j \in Ids : new[j] = IF j = i THEN t ELSE sl[j]
  OBVIOUS
<1> HIDE DEF new
<1>2. ASSUME NEW j \in Ids PROVE IdOK(j, new[j], T2, H2, L2)
  <2>1. CASE j = i
    BY <1>1, <2>1
  <2>2. CASE j # i
    <3>1. IdOK(j, sl[j], T, H, L) /\ new[j] = sl[j] /\ j \in Ids \ {i}
      BY <1>1, <2>2 DEF IdsOK
    <3> QED
      BY <3>1 DEF IdOK, SameButFor
  <2> QED
    BY <2>1, <2>2
<1> QED
  BY <1>2 DEF IdsOK, new

\* What every step owes: of a socket that changes, its list, and of a daemon that
\* stays up, the ids and the ports.
LEMMA OneChanges ==
  ASSUME TableInv, NEW i \in Ids, NEW t \in SlotType, WaitingOK(t),
         slot' = [slot EXCEPT ![i] = t],
         conn' \in [Devices -> [Ports -> Ids \cup {NoSocket}]],
         data' \in [Devices -> [Ports -> Seq(Ids)]],
         taken' \subseteq Ids, held' \subseteq Ids, leaving' \subseteq Ids,
         halted' = "no", IdsInv', ConnectionsInv'
  PROVE  TableInv'
<1>1. slot \in [Ids -> SlotType] /\ \A j \in Ids : WaitingOK(slot[j])
  BY DEF TableInv, TablesTyped, WaitingInv
<1>2. TablesTyped'
  BY <1>1 DEF TablesTyped
<1>3. \A j \in Ids : WaitingOK(slot'[j])
  BY <1>1
<1>4. WaitingInv'
  BY <1>3 DEF WaitingInv
<1> QED
  BY <1>2, <1>4 DEF TableInv

\* The same for a socket that neither comes to a port nor leaves one.
LEMMA OneTurns ==
  ASSUME TableInv, Up, NEW i \in Ids, NEW t \in SlotType, WaitingOK(t),
         Turns(slot, conn, i, t),
         slot' = [slot EXCEPT ![i] = t], UNCHANGED <<conn, data, halted>>,
         taken' \subseteq Ids, held' \subseteq Ids, leaving' \subseteq Ids,
         IdOK(i, t, taken', held', leaving'),
         SameButFor(i, taken, taken'), SameButFor(i, held, held'), SameButFor(i, leaving, leaving')
  PROVE  TableInv'
<1>1. TablesTyped /\ IdsInv /\ ConnectionsInv
  BY DEF TableInv
<1>2. /\ slot \in [Ids -> SlotType] /\ conn \in [Devices -> [Ports -> Ids \cup {NoSocket}]]
      /\ data \in [Devices -> [Ports -> Seq(Ids)]]
  BY <1>1 DEF TablesTyped
<1>3. IdsOK(slot, taken, held, leaving) /\ Connections(slot, conn, data)
  BY <1>1 DEF IdsInv, ConnectionsInv
<1>4. IdsOK([slot EXCEPT ![i] = t], taken', held', leaving')
  BY <1>2, <1>3, IdsKeep, Zenon
<1>5. Connections([slot EXCEPT ![i] = t], conn, data)
  BY <1>2, <1>3, TurnKeeps
<1>6. IdsInv' /\ ConnectionsInv'
  BY <1>4, <1>5 DEF IdsInv, ConnectionsInv
<1> QED
  BY <1>2, <1>6, OneChanges DEF Up

\* When the daemon goes down, the tables stay as they were.
LEMMA Halts ==
  ASSUME TableInv, halted' \notin {"no", "unset fields"}, UNCHANGED <<slot, conn, data>>,
         taken' \subseteq Ids, held' \subseteq Ids, leaving' \subseteq Ids
  PROVE  TableInv'
BY DEF TableInv, TablesTyped, WaitingInv, Up

\* An empty list is sound.
LEMMA EmptyListOK ==
  ASSUME NEW s \in SlotType, s.waiting = <<>>, s.count = 0, s.backlog = 0
  PROVE  WaitingOK(s)
<1>1. DOMAIN s.waiting = {} /\ Len(s.waiting) = 0
  OBVIOUS
<1> QED
  BY <1>1 DEF WaitingOK, ListSound

\* A freed slot is one.
LEMMA FreeSlotOK == FreeSlot \in SlotType /\ WaitingOK(FreeSlot)
<1>1. FreeSlot \in SlotType
  <2>1. <<>> \in Seq(EntryType) /\ 0 \in Int /\ 0 \in Nat
    OBVIOUS
  <2> QED
    BY <2>1 DEF FreeSlot, SlotType, States
<1>2. FreeSlot.waiting = <<>> /\ FreeSlot.count = 0 /\ FreeSlot.backlog = 0
  BY DEF FreeSlot
<1> QED
  BY <1>1, <1>2, EmptyListOK

\* A list that stays as it is stays sound.
LEMMA SameList ==
  ASSUME NEW s \in SlotType, NEW t \in SlotType, WaitingOK(s), t.waiting = s.waiting,
         t.count = s.count, t.backlog = s.backlog,
         t.state \in {"close", "binded"} => s.state \in {"close", "binded"}
  PROVE  WaitingOK(t)
BY DEF WaitingOK, ListSound

-----------------------------------------------------------------------------
(***************************************************************************)
(* free_socket                                                             *)
(***************************************************************************)

\* It frees the socket, or the daemon goes down.
LEMMA FreeSocketOK ==
  ASSUME TableInv, Up, NEW i \in Ids, NEW from \in BOOLEAN, slot[i].state # "free",
         FreeSocket(i, from),
         taken' \subseteq Ids, held' \subseteq Ids, leaving' \subseteq Ids,
         IdOK(i, FreeSlot, taken', held', leaving'),
         SameButFor(i, taken, taken'), SameButFor(i, held, held'), SameButFor(i, leaving, leaving')
  PROVE  TableInv'
<1> DEFINE d == slot[i].dev
           p == slot[i].port
<1>1. TablesTyped /\ IdsInv /\ ConnectionsInv
  BY DEF TableInv
<1>2. /\ slot \in [Ids -> SlotType] /\ conn \in [Devices -> [Ports -> Ids \cup {NoSocket}]]
      /\ data \in [Devices -> [Ports -> Seq(Ids)]]
  BY <1>1 DEF TablesTyped
<1>3. IdsOK(slot, taken, held, leaving) /\ Connections(slot, conn, data)
  BY <1>1 DEF IdsInv, ConnectionsInv
<1>4. CASE slot[i].state \in Unconnected
  <2>1. halted' = "null buffer" /\ UNCHANGED <<slot, conn, data>>
    BY <1>4 DEF FreeSocket
  <2> QED
    BY <2>1, Halts
<1>5. CASE slot[i].state \notin Unconnected
  <2>1. slot[i].state \in DataStates
    BY <1>2, <1>5 DEF SlotType, States
  <2>2. d \in Devices /\ p \in Ports
    BY <1>3, <2>1 DEF Connections, StateFits
  <2>3. Live(slot[i], d, p)
    BY <2>1 DEF Live
  <2>4. /\ conn' = [conn EXCEPT ![d][p] = IF @ = i THEN NoSocket ELSE @]
        /\ data' = [data EXCEPT ![d][p] = DeleteDataSocket(@, i)]
    BY <1>5 DEF FreeSocket, ReleasePort
  <2>5. conn' \in [Devices -> [Ports -> Ids \cup {NoSocket}]]
    <3> DEFINE o == IF conn[d][p] = i THEN NoSocket ELSE conn[d][p]
    <3>1. o \in Ids \cup {NoSocket} /\ conn' = [conn EXCEPT ![d][p] = o]
      BY <1>2, <2>2, <2>4
    <3> HIDE DEF o
    <3> QED
      BY <1>2, <3>1
  <2>6. DeleteDataSocket(data[d][p], i) \in Seq(Ids)
    <3>1. ListExact(slot, data, d, p) /\ data[d][p] \in Seq(Ids)
      BY <1>2, <1>3, <2>2 DEF Connections, PortOK
    <3>2. \A k, l \in DOMAIN data[d][p] : data[d][p][k] = data[d][p][l] => k = l
      BY <3>1 DEF ListExact
    <3> QED
      BY <3>1, <3>2, DeleteOK
  <2>7. data' \in [Devices -> [Ports -> Seq(Ids)]]
    BY <1>2, <2>4, <2>6
  <2>8. CASE slot' = [slot EXCEPT ![i] = FreeSlot] /\ UNCHANGED halted
    <3>1. Connections([slot EXCEPT ![i] = FreeSlot],
                      [conn EXCEPT ![d][p] = IF @ = i THEN NoSocket ELSE @],
                      [data EXCEPT ![d][p] = DeleteDataSocket(@, i)])
      BY <1>2, <1>3, <2>2, <2>3, LeavesKeeps
    <3>2. IdsOK([slot EXCEPT ![i] = FreeSlot], taken', held', leaving')
      BY <1>2, <1>3, IdsKeep, Zenon
    <3>3. ConnectionsInv' /\ IdsInv'
      BY <2>4, <2>8, <3>1, <3>2 DEF IdsInv, ConnectionsInv
    <3>4. FreeSlot \in SlotType /\ WaitingOK(FreeSlot)
      BY FreeSlotOK
    <3> QED
      BY <2>5, <2>7, <2>8, <3>3, <3>4, OneChanges DEF Up
  <2>9. CASE halted' = "join" /\ UNCHANGED slot
    BY <1>1, <2>5, <2>7, <2>9 DEF TableInv, TablesTyped, WaitingInv, Up
  <2> QED
    BY <1>5, <2>8, <2>9 DEF FreeSocket
<1> QED
  BY <1>4, <1>5

-----------------------------------------------------------------------------
(***************************************************************************)
(* Data sockets: reads, closes, segments, timers and clean-up threads      *)
(***************************************************************************)

\* What the invariant says of the tables and of each socket
LEMMA TableFacts ==
  ASSUME TableInv, Up
  PROVE  /\ slot \in [Ids -> SlotType]
         /\ conn \in [Devices -> [Ports -> Ids \cup {NoSocket}]]
         /\ data \in [Devices -> [Ports -> Seq(Ids)]]
         /\ taken \subseteq Ids /\ held \subseteq Ids /\ leaving \subseteq Ids
         /\ IdsOK(slot, taken, held, leaving) /\ Connections(slot, conn, data)
         /\ \A i \in Ids : /\ slot[i] \in SlotType
                           /\ IdOK(i, slot[i], taken, held, leaving)
                           /\ WaitingOK(slot[i])
                           /\ StateFits(slot[i])
                           /\ AllWaitAlone(slot, conn, i, slot[i])
<1>1. TablesTyped /\ IdsInv /\ ConnectionsInv /\ WaitingInv
  BY DEF TableInv
<1>2. /\ slot \in [Ids -> SlotType]
      /\ conn \in [Devices -> [Ports -> Ids \cup {NoSocket}]]
      /\ data \in [Devices -> [Ports -> Seq(Ids)]]
      /\ taken \subseteq Ids /\ held \subseteq Ids /\ leaving \subseteq Ids
  BY <1>1 DEF TablesTyped
<1>3. IdsOK(slot, taken, held, leaving) /\ Connections(slot, conn, data)
  BY <1>1 DEF IdsInv, ConnectionsInv
<1>4. \A i \in Ids : slot[i] \in SlotType
  BY <1>2
<1>5. \A i \in Ids : /\ IdOK(i, slot[i], taken, held, leaving)
                     /\ WaitingOK(slot[i])
                     /\ StateFits(slot[i])
                     /\ AllWaitAlone(slot, conn, i, slot[i])
  BY <1>1, <1>3 DEF IdsOK, WaitingInv, Connections
<1> QED
  BY <1>2, <1>3, <1>4, <1>5

\* The ids are as they were.
LEMMA Unmoved ==
  ASSUME NEW S, NEW i
  PROVE  SameButFor(i, S, S) /\ SameButFor(i, S, S \ {i}) /\ SameButFor(i, S, S \cup {i})
BY DEF SameButFor

\* A data socket goes to another state of the handshake or of the end.
LEMMA DataSocketTurns ==
  ASSUME TableInv, Up, NEW i \in Ids, slot[i].state \in DataStates,
         NEW x \in DataStates, NEW c \in BOOLEAN, NEW m \in BOOLEAN,
         slot' = [slot EXCEPT ![i] = [slot[i] EXCEPT !.state = x, !.closing = c, !.timer = m]],
         UNCHANGED <<conn, data, taken, halted>>,
         held' \subseteq Ids, leaving' \subseteq Ids,
         SameButFor(i, held, held'), SameButFor(i, leaving, leaving'),
         i \in leaving' => i \notin held' /\ x = "fin wait",
         x \in {"fin wait", "syn recv"} => i \notin held',
         c => i \notin held' /\ x \in {"established"} \cup Finishing
  PROVE  TableInv'
<1> DEFINE s == slot[i]
           t == [s EXCEPT !.state = x, !.closing = c, !.timer = m]
<1>1. /\ s \in SlotType /\ IdOK(i, s, taken, held, leaving) /\ WaitingOK(s) /\ StateFits(s)
      /\ taken \subseteq Ids
  BY TableFacts
<1>2. slot' = [slot EXCEPT ![i] = t] /\ s.state \in DataStates
  OBVIOUS
<1>3. \A y \in DataStates : y \in States /\ y \notin Unconnected \cup {"free", "close", "binded", "listen"}
  BY DEF States, DataStates, Unconnected, Finishing
<1>a. s = slot[i]
  OBVIOUS
<1> HIDE DEF s
<1>4. /\ t \in SlotType /\ t.state = x /\ t.closing = c /\ t.timer = m
      /\ t.dev = s.dev /\ t.port = s.port /\ t.remote = s.remote /\ t.waiting = s.waiting
      /\ t.count = s.count /\ t.backlog = s.backlog /\ t.accepting = s.accepting
  BY <1>1, <1>3 DEF SlotType
<1> HIDE DEF t
<1>5. WaitingOK(t)
  BY <1>1, <1>3, <1>4, SameList
<1>6. Turns(slot, conn, i, t)
  <2>1. StateFits(t) /\ AllWaitAlone(slot, conn, i, t)
    BY <1>1, <1>2, <1>3, <1>4 DEF StateFits, AllWaitAlone
  <2>2. \A d \in Devices, p \in Ports : Live(t, d, p) <=> Live(s, d, p)
    BY <1>2, <1>4 DEF Live
  <2>3. ~Bound(s) /\ s.state # "listen"
    BY <1>2, <1>3 DEF Bound
  <2> QED
    BY <1>4, <1>a, <2>1, <2>2, <2>3 DEF Turns
<1>7. IdOK(i, t, taken', held', leaving')
  BY <1>1, <1>2, <1>3, <1>4 DEF IdOK
<1>8. SameButFor(i, taken, taken')
  BY Unmoved
<1> QED
  BY <1>1, <1>2, <1>4, <1>5, <1>6, <1>7, <1>8, OneTurns

\* The same where nothing but the state changes.
LEMMA StateTurns ==
  ASSUME TableInv, Up, NEW i \in Ids, slot[i].state \in DataStates, NEW x \in DataStates,
         slot' = [slot EXCEPT ![i].state = x],
         UNCHANGED <<conn, data, taken, halted>>,
         held' \subseteq Ids, leaving' \subseteq Ids,
         SameButFor(i, held, held'), SameButFor(i, leaving, leaving'),
         i \in leaving' => i \notin held' /\ x = "fin wait",
         x \in {"fin wait", "syn recv"} => i \notin held',
         slot[i].closing => i \notin held' /\ x \in {"established"} \cup Finishing
  PROVE  TableInv'
<1> DEFINE s == slot[i]
<1>1. s \in SlotType
  BY TableFacts
<1>2. [s EXCEPT !.state = x] =
        [s EXCEPT !.state = x, !.closing = s.closing, !.timer = s.timer]
  BY <1>1 DEF SlotType
<1>3. slot' = [slot EXCEPT ![i] = [s EXCEPT !.state = x, !.closing = s.closing,
                                              !.timer = s.timer]]
  BY <1>2
<1>4. s.closing \in BOOLEAN /\ s.timer \in BOOLEAN
  BY <1>1 DEF SlotType
<1> QED
  BY <1>3, <1>4, DataSocketTurns

\* OPT_READ at the end of the stream
LEMMA ReadEndOK ==
  ASSUME TableInv, Up, NEW i \in Ids, ReadEnd(i)
  PROVE  TableInv'
<1> DEFINE s == slot[i]
<1>1. IdOK(i, s, taken, held, leaving) /\ held \subseteq Ids /\ leaving \subseteq Ids
  BY TableFacts
<1>2. /\ s.state = "close wait" /\ slot' = [slot EXCEPT ![i].state = "last ack"]
      /\ UNCHANGED <<conn, data, taken, held, leaving, halted>>
  BY DEF ReadEnd
<1>3. s.state \in DataStates /\ "last ack" \in DataStates \cap Finishing
  BY <1>2 DEF DataStates, Finishing
<1>4. i \notin leaving' /\ (s.closing => i \notin held')
  BY <1>1, <1>2 DEF IdOK
<1>5. SameButFor(i, held, held') /\ SameButFor(i, leaving, leaving')
  BY <1>2, Unmoved
<1> QED
  BY <1>1, <1>2, <1>3, <1>4, <1>5, StateTurns

\* The segment that ends the handshake
LEMMA EstablishedOK ==
  ASSUME TableInv, Up, NEW i \in Ids, Established(i)
  PROVE  TableInv'
<1> DEFINE s == slot[i]
           x == IF s.state = "syn recv" /\ s.closing THEN "fin wait" ELSE "established"
<1>1. IdOK(i, s, taken, held, leaving) /\ held \subseteq Ids /\ leaving \subseteq Ids
  BY TableFacts
<1>2. /\ s.state \in {"syn sent", "syn recv"} /\ slot' = [slot EXCEPT ![i].state = x]
      /\ held' = held \cup {i}
      /\ UNCHANGED <<conn, data, taken, leaving, halted>>
  BY DEF Established
<1>3. ~s.closing /\ i \notin leaving
  BY <1>1, <1>2 DEF IdOK, Finishing
<1>4. x = "established" /\ s.state \in DataStates /\ x \in DataStates
  BY <1>2, <1>3 DEF DataStates
<1>5. SameButFor(i, held, held') /\ SameButFor(i, leaving, leaving')
  BY <1>2, Unmoved
<1> HIDE DEF x
<1> QED
  BY <1>1, <1>2, <1>3, <1>4, <1>5, StateTurns

\* The FIN leaves once the output buffer is empty.
LEMMA FinFlushedOK ==
  ASSUME TableInv, Up, NEW i \in Ids, FinFlushed(i)
  PROVE  TableInv'
<1> DEFINE s == slot[i]
<1>1. IdOK(i, s, taken, held, leaving) /\ held \subseteq Ids /\ leaving \subseteq Ids
  BY TableFacts
<1>2. /\ s.state = "established" /\ s.closing
      /\ slot' = [slot EXCEPT ![i].state = "fin wait"]
      /\ UNCHANGED <<conn, data, taken, held, leaving, halted>>
  BY DEF FinFlushed
<1>3. s.state \in DataStates /\ "fin wait" \in DataStates \cap Finishing
  BY <1>2 DEF DataStates, Finishing
<1>4. i \notin held'
  BY <1>1, <1>2 DEF IdOK
<1>5. SameButFor(i, held, held') /\ SameButFor(i, leaving, leaving')
  BY <1>2, Unmoved
<1> QED
  BY <1>1, <1>2, <1>3, <1>4, <1>5, StateTurns

\* The peer's FIN
LEMMA FinArrivesOK ==
  ASSUME TableInv, Up, NEW i \in Ids, FinArrives(i)
  PROVE  TableInv'
<1> DEFINE s == slot[i]
<1>1. /\ slot \in [Ids -> SlotType] /\ s \in SlotType
      /\ IdOK(i, s, taken, held, leaving) /\ held \subseteq Ids /\ leaving \subseteq Ids
  BY TableFacts
<1>2. UNCHANGED <<conn, data, taken, held, halted>>
  BY DEF FinArrives
<1>3. SameButFor(i, held, held') /\ SameButFor(i, leaving, leaving) /\ held' \subseteq Ids
  BY <1>1, <1>2, Unmoved
<1>4. ASSUME s.state = "established", UNCHANGED leaving, NEW x \in {"close wait", "last ack"},
             slot' = [slot EXCEPT ![i].state = x]
      PROVE  TableInv'
  <2>1. s.state \in DataStates /\ x \in DataStates \cap Finishing /\ x # "fin wait" /\ x # "syn recv"
    BY <1>4 DEF DataStates, Finishing
  <2>2. i \notin leaving' /\ (s.closing => i \notin held')
    BY <1>1, <1>2, <1>4 DEF IdOK
  <2>3. leaving' \subseteq Ids /\ SameButFor(i, leaving, leaving')
    BY <1>1, <1>3, <1>4
  <2> QED
    BY <1>2, <1>3, <1>4, <2>1, <2>2, <2>3, StateTurns
<1>5. ASSUME s.state = "fin wait", leaving' = leaving \cup {i}, UNCHANGED slot
      PROVE  TableInv'
  <2>1. s.state \in DataStates \cap Finishing
    BY <1>5 DEF DataStates, Finishing
  <2>2. slot' = [slot EXCEPT ![i].state = "fin wait"]
    <3>1. [s EXCEPT !.state = "fin wait"] = s
      BY <1>1, <1>5 DEF SlotType
    <3> HIDE DEF s
    <3>2. [slot EXCEPT ![i] = slot[i]] = slot
      BY <1>1
    <3> QED
      BY <1>5, <3>1, <3>2 DEF s
  <2>3. i \notin held'
    BY <1>1, <1>2, <1>5 DEF IdOK
  <2>4. SameButFor(i, leaving, leaving') /\ leaving' \subseteq Ids
    BY <1>1, <1>5, Unmoved
  <2> QED
    BY <1>2, <1>3, <1>5, <2>1, <2>2, <2>3, <2>4, StateTurns
<1> QED
  BY <1>4, <1>5 DEF FinArrives

\* OPT_CLOSE
LEMMA CloseOK ==
  ASSUME TableInv, Up, NEW i \in held, Close(i)
  PROVE  TableInv'
<1> DEFINE s == slot[i]
<1>1. /\ i \in Ids /\ slot \in [Ids -> SlotType] /\ s \in SlotType
      /\ IdOK(i, s, taken, held, leaving) /\ WaitingOK(s)
      /\ StateFits(s) /\ AllWaitAlone(slot, conn, i, s)
      /\ taken \subseteq Ids /\ held \subseteq Ids /\ leaving \subseteq Ids
  BY TableFacts
<1>2. /\ held' = held \ {i} /\ taken' = taken \ ReturnedByClose(i) /\ leaving' = leaving
  BY DEF Close
<1>3. /\ i \notin held' /\ i \in taken
      /\ held' \subseteq Ids /\ taken' \subseteq Ids /\ leaving' \subseteq Ids
  BY <1>1, <1>2 DEF IdOK
<1>4. /\ SameButFor(i, held, held') /\ SameButFor(i, leaving, leaving')
      /\ taken' \in {taken, taken \ {i}} => SameButFor(i, taken, taken')
  BY <1>2, Unmoved
<1>5. CASE s.state \in {"established", "syn recv"}
  <2>1. s.state = "established"
    BY <1>1, <1>5 DEF IdOK
  <2>2. taken' = taken /\ i \notin leaving
    BY <1>1, <1>2, <2>1 DEF ReturnedByClose, Unconnected, IdOK
  <2>3. /\ \/ slot' = [slot EXCEPT ![i].closing = TRUE]
           \/ slot' = [slot EXCEPT ![i].state = "fin wait"]
        /\ UNCHANGED <<conn, data, halted>>
    BY <2>1 DEF Close, Finishing
  <2>4. "established" \in DataStates /\ "fin wait" \in DataStates \cap Finishing
    BY DEF DataStates, Finishing
  <2>5. CASE slot' = [slot EXCEPT ![i].closing = TRUE]
    <3>1. [s EXCEPT !.closing = TRUE] =
            [s EXCEPT !.state = "established", !.closing = TRUE, !.timer = s.timer]
      BY <1>1, <2>1 DEF SlotType
    <3>2. slot' = [slot EXCEPT ![i] = [s EXCEPT !.state = "established", !.closing = TRUE,
                                                !.timer = s.timer]]
      BY <2>5, <3>1
    <3>3. s.timer \in BOOLEAN
      BY <1>1 DEF SlotType
    <3> QED
      BY <1>1, <1>2, <1>3, <1>4, <2>1, <2>2, <2>3, <2>4, <3>2, <3>3, DataSocketTurns
  <2>6. CASE slot' = [slot EXCEPT ![i].state = "fin wait"]
    BY <1>1, <1>2, <1>3, <1>4, <2>1, <2>2, <2>3, <2>4, <2>6, StateTurns
  <2> QED
    BY <2>3, <2>5, <2>6
<1>6. CASE s.state \in {"free"} \cup Finishing
  <2>1. UNCHANGED <<slot, conn, data, halted>>
    BY <1>6 DEF Close, Finishing
  <2>2. slot' = [slot EXCEPT ![i] = s]
    BY <1>1, <2>1
  <2>3. Turns(slot, conn, i, s)
    BY <1>1 DEF Turns
  <2>4. /\ s.state = "free" => taken' = taken \ {i}
        /\ s.state # "free" => taken' = taken
    BY <1>2, <1>6 DEF ReturnedByClose, Unconnected, Finishing
  <2>5. IdOK(i, s, taken', held', leaving')
    BY <1>1, <1>2, <1>3, <2>4 DEF IdOK
  <2> QED
    BY <1>1, <1>3, <1>4, <2>1, <2>2, <2>3, <2>4, <2>5, OneTurns
<1>7. CASE s.state \notin {"established", "syn recv", "free"} \cup Finishing
  <2>1. FreeSocket(i, FALSE)
    BY <1>7 DEF Close
  <2>2. s.state \in {"syn sent"} \cup Unconnected /\ s.state # "free"
    BY <1>1, <1>7 DEF SlotType, States, DataStates
  <2>3. taken' = taken \ {i} /\ i \notin leaving
    BY <1>1, <1>2, <1>7, <2>2 DEF ReturnedByClose, IdOK, Finishing
  <2>4. IdOK(i, FreeSlot, taken', held', leaving')
    BY <1>2, <1>3, <2>3 DEF IdOK, FreeSlot
  <2> QED
    BY <1>1, <1>3, <1>4, <2>1, <2>2, <2>3, <2>4, FreeSocketOK
<1> QED
  BY <1>5, <1>6, <1>7

\* A RST, or the ACK that ends LAST_ACK
LEMMA SegmentFreesOK ==
  ASSUME TableInv, Up, NEW i \in Ids, SegmentFrees(i)
  PROVE  TableInv'
<1>1. /\ IdOK(i, slot[i], taken, held, leaving)
      /\ taken \subseteq Ids /\ held \subseteq Ids /\ leaving \subseteq Ids
  BY TableFacts
<1>2. slot[i].state \in DataStates /\ FreeSocket(i, FALSE) /\ UNCHANGED <<taken, held, leaving>>
  BY DEF SegmentFrees
<1>3. slot[i].state # "free"
  BY <1>2 DEF DataStates, Finishing
<1>4. IdOK(i, FreeSlot, taken', held', leaving')
  BY <1>1, <1>2, <1>3 DEF IdOK, FreeSlot
<1>5. /\ SameButFor(i, taken, taken') /\ SameButFor(i, held, held')
      /\ SameButFor(i, leaving, leaving')
  BY <1>2, Unmoved
<1> QED
  BY <1>1, <1>2, <1>3, <1>4, <1>5, FreeSocketOK

\* TCPTimeout
LEMMA TimerTicksOK ==
  ASSUME TableInv, Up, NEW i \in Ids, TimerTicks(i)
  PROVE  TableInv'
<1> DEFINE s == slot[i]
<1>1. /\ s \in SlotType /\ IdOK(i, s, taken, held, leaving) /\ StateFits(s)
      /\ taken \subseteq Ids /\ held \subseteq Ids /\ leaving \subseteq Ids
  BY TableFacts
<1>2. s.timer /\ UNCHANGED <<taken, held, leaving>>
  BY DEF TimerTicks
<1>3. s.state \in DataStates /\ s.state # "free"
  BY <1>1, <1>2 DEF StateFits, DataStates, Finishing
<1>4. /\ SameButFor(i, taken, taken') /\ SameButFor(i, held, held')
      /\ SameButFor(i, leaving, leaving')
  BY <1>2, Unmoved
<1>5. CASE s.state \in Finishing \ {"close wait"}
  <2>1. slot' = [slot EXCEPT ![i].timer = FALSE] /\ UNCHANGED <<conn, data, halted>>
    BY <1>5 DEF TimerTicks
  <2>2. [s EXCEPT !.timer = FALSE] =
          [s EXCEPT !.state = s.state, !.closing = s.closing, !.timer = FALSE]
    BY <1>1 DEF SlotType
  <2>3. slot' = [slot EXCEPT ![i] = [s EXCEPT !.state = s.state, !.closing = s.closing,
                                              !.timer = FALSE]]
    BY <2>1, <2>2
  <2>4. s.closing \in BOOLEAN
    BY <1>1 DEF SlotType
  <2>5. /\ i \in leaving' => i \notin held' /\ s.state = "fin wait"
        /\ s.state \in {"fin wait", "syn recv"} => i \notin held'
        /\ s.closing => i \notin held' /\ s.state \in {"established"} \cup Finishing
    BY <1>1, <1>2, <1>3 DEF IdOK
  <2> QED
    BY <1>1, <1>2, <1>3, <1>4, <2>1, <2>3, <2>4, <2>5, DataSocketTurns
<1>6. CASE s.state \notin Finishing \ {"close wait"}
  <2>1. FreeSocket(i, TRUE)
    BY <1>6 DEF TimerTicks
  <2>2. IdOK(i, FreeSlot, taken', held', leaving')
    BY <1>1, <1>2, <1>3 DEF IdOK, FreeSlot
  <2> QED
    BY <1>1, <1>2, <1>3, <1>4, <2>1, <2>2, FreeSocketOK
<1> QED
  BY <1>5, <1>6

\* freeSocket_pthread
LEMMA LeavingFreedOK ==
  ASSUME TableInv, Up, NEW i \in Ids, LeavingFreed(i)
  PROVE  TableInv'
<1>1. /\ IdOK(i, slot[i], taken, held, leaving)
      /\ taken \subseteq Ids /\ held \subseteq Ids /\ leaving \subseteq Ids
  BY TableFacts
<1>2. i \in leaving
  BY DEF LeavingFreed
<1>3. CASE slot[i].state = "free"
  <2>1. WildAccess
    BY <1>3 DEF LeavingFreed
  <2> QED
    BY <1>1, <2>1, Halts DEF WildAccess
<1>4. CASE slot[i].state # "free"
  <2>1. /\ FreeSocket(i, FALSE) /\ held' = held
        /\ taken' = taken \ {i} /\ leaving' = leaving \ {i}
    BY <1>4 DEF LeavingFreed
  <2>2. IdOK(i, FreeSlot, taken', held', leaving')
    BY <1>1, <1>2, <2>1 DEF IdOK, FreeSlot
  <2>3. /\ SameButFor(i, taken, taken') /\ SameButFor(i, held, held')
        /\ SameButFor(i, leaving, leaving')
    BY <2>1, Unmoved
  <2>4. taken' \subseteq Ids /\ held' \subseteq Ids /\ leaving' \subseteq Ids
    BY <1>1, <2>1
  <2> QED
    BY <1>4, <2>1, <2>2, <2>3, <2>4, FreeSocketOK
<1> QED
  BY <1>3, <1>4

-----------------------------------------------------------------------------
(***************************************************************************)
(* Sockets that are not connected: socket, bind, listen, connect           *)
(***************************************************************************)

\* A socket that is not connected has no timer and is not closing; nobody is about
\* to free it.
LEMMA UnconnectedIdle ==
  ASSUME TableInv, Up, NEW i \in Ids, slot[i].state \in Unconnected
  PROVE  /\ i \notin leaving /\ i \in taken /\ ~slot[i].closing /\ ~slot[i].timer
         /\ \A d \in Devices, p \in Ports : ~Live(slot[i], d, p)
<1>1. IdOK(i, slot[i], taken, held, leaving) /\ StateFits(slot[i])
  BY TableFacts
<1>2. slot[i].state \notin DataStates \cup {"free"}
  BY DEF Unconnected, DataStates, Finishing
<1>3. i \notin leaving /\ i \in taken /\ ~slot[i].closing
  BY <1>1, <1>2 DEF IdOK, DataStates, Finishing
<1> QED
  BY <1>1, <1>2, <1>3 DEF StateFits, Live

\* It stays so, and keeps the entries that wait at it.
LEMMA StaysUnconnected ==
  ASSUME TableInv, Up, NEW i \in Ids, slot[i].state \in Unconnected,
         NEW t \in SlotType, WaitingOK(t), t.state \in Unconnected,
         t.timer = slot[i].timer, t.closing = slot[i].closing, t.waiting = slot[i].waiting,
         t.accepting => t.state = "listen",
         Bound(slot[i]) => Bound(t), slot[i].state = "listen" => t.state = "listen"
  PROVE  Turns(slot, conn, i, t) /\ IdOK(i, t, taken, held, leaving)
<1>1. AllWaitAlone(slot, conn, i, slot[i]) /\ IdOK(i, slot[i], taken, held, leaving)
  BY TableFacts
<1>2. t.state \notin DataStates \cup {"free", "fin wait", "syn recv"}
  BY DEF Unconnected, DataStates, Finishing
<1>3. StateFits(t)
  BY <1>2, UnconnectedIdle DEF StateFits
<1>4. AllWaitAlone(slot, conn, i, t)
  BY <1>1 DEF AllWaitAlone
<1>5. \A d \in Devices, p \in Ports : ~Live(t, d, p)
  BY <1>2 DEF Live
<1>6. IdOK(i, t, taken, held, leaving)
  BY <1>2, UnconnectedIdle DEF IdOK
<1> QED
  BY <1>2, <1>3, <1>4, <1>5, <1>6, UnconnectedIdle DEF Turns

\* OPT_SOCKET
LEMMA OpenSocketOK ==
  ASSUME TableInv, Up, OpenSocket
  PROVE  TableInv'
<1> DEFINE i == NewId
           t == [FreeSlot EXCEPT !.state = "close"]
<1>1. /\ taken # Ids /\ taken' = taken \cup {i} /\ held' = held \cup {i}
      /\ slot' = [slot EXCEPT ![i] = t]
      /\ UNCHANGED <<conn, data, leaving, halted>>
  BY DEF OpenSocket
<1>2. /\ taken \subseteq Ids /\ held \subseteq Ids /\ leaving \subseteq Ids
      /\ \A j \in Ids : IdOK(j, slot[j], taken, held, leaving)
  BY TableFacts
<1>3. i \in Ids /\ i \notin taken
  BY <1>1, <1>2, NewIdOK
<1> HIDE DEF i
<1>4. slot[i].state = "free" /\ i \notin leaving
  BY <1>2, <1>3 DEF IdOK
<1>5. /\ t \in SlotType /\ t.state = "close" /\ ~t.timer /\ ~t.accepting /\ ~t.closing
      /\ t.waiting = <<>> /\ t.count = 0 /\ t.backlog = 0
  <2>1. FreeSlot \in SlotType
    BY FreeSlotOK
  <2>2. "close" \in States
    BY DEF States, Unconnected
  <2> QED
    BY <2>1, <2>2 DEF SlotType, FreeSlot
<1> HIDE DEF t
<1>6. WaitingOK(t)
  BY <1>5, EmptyListOK
<1>7. Turns(slot, conn, i, t)
  <2>1. t.state \notin DataStates /\ slot[i].state \notin DataStates
    BY <1>4, <1>5 DEF DataStates, Finishing
  <2>2. ~Bound(slot[i]) /\ slot[i].state # "listen"
    BY <1>4 DEF Bound
  <2>3. StateFits(t)
    BY <1>5, <2>1 DEF StateFits
  <2>4. AllWaitAlone(slot, conn, i, t)
    <3>1. DOMAIN t.waiting = {}
      BY <1>5
    <3> QED
      BY <3>1 DEF AllWaitAlone
  <2> QED
    BY <2>1, <2>2, <2>3, <2>4 DEF Turns, Live
<1>8. IdOK(i, t, taken', held', leaving')
  BY <1>1, <1>4, <1>5 DEF IdOK
<1>9. /\ SameButFor(i, taken, taken') /\ SameButFor(i, held, held')
      /\ SameButFor(i, leaving, leaving')
  BY <1>1, Unmoved
<1>10. taken' \subseteq Ids /\ held' \subseteq Ids /\ leaving' \subseteq Ids
  BY <1>1, <1>2, <1>3
<1> QED
  BY <1>1, <1>3, <1>5, <1>6, <1>7, <1>8, <1>9, <1>10, OneTurns

\* A step that changes nothing else
LEMMA UnconnectedTurns ==
  ASSUME TableInv, Up, NEW i \in Ids, slot[i].state \in Unconnected,
         NEW t \in SlotType, WaitingOK(t), t.state \in Unconnected,
         t.timer = slot[i].timer, t.closing = slot[i].closing, t.waiting = slot[i].waiting,
         t.accepting => t.state = "listen",
         Bound(slot[i]) => Bound(t), slot[i].state = "listen" => t.state = "listen",
         slot' = [slot EXCEPT ![i] = t],
         UNCHANGED <<conn, data, taken, held, leaving, halted>>
  PROVE  TableInv'
<1>1. Turns(slot, conn, i, t) /\ IdOK(i, t, taken, held, leaving)
  BY StaysUnconnected
<1>2. /\ SameButFor(i, taken, taken') /\ SameButFor(i, held, held')
      /\ SameButFor(i, leaving, leaving')
  BY Unmoved
<1>3. taken' \subseteq Ids /\ held' \subseteq Ids /\ leaving' \subseteq Ids
  BY TableFacts
<1> QED
  BY <1>1, <1>2, <1>3, OneTurns

\* OPT_BIND
LEMMA BindOK ==
  ASSUME TableInv, Up, NEW i \in held, NEW d \in BindTo, NEW p \in ServerPorts, Bind(i, d, p)
  PROVE  TableInv'
<1> DEFINE s == slot[i]
           x == IF CanBind(i, d, p) THEN "binded" ELSE s.state
           t == [s EXCEPT !.dev = d, !.port = p, !.state = x]
           D == DevicesFor(d)
           cx == Owned(conn, D, p, i)
<1>1. /\ i \in Ids /\ slot \in [Ids -> SlotType] /\ s \in SlotType /\ WaitingOK(s) /\ StateFits(s)
      /\ conn \in [Devices -> [Ports -> Ids \cup {NoSocket}]]
      /\ data \in [Devices -> [Ports -> Seq(Ids)]]
      /\ taken \subseteq Ids /\ held \subseteq Ids /\ leaving \subseteq Ids
      /\ IdsOK(slot, taken, held, leaving) /\ Connections(slot, conn, data)
  BY TableFacts
<1>2. s.state \in Unconnected /\ UNCHANGED <<data, taken, held, leaving, halted>>
  BY DEF Bind, MayPlace
<1>3. slot' = [slot EXCEPT ![i] = t]
  BY DEF Bind
<1>4. d \in Devices \cup {AllDevices, BadDevice} /\ p \in Ports
  BY DEF TableAssumption, Ports
<1>5. CanBind(i, d, p) => s.state = "close"
  BY DEF CanBind
<1>6. x \in Unconnected /\ x \in States
  BY <1>2 DEF Unconnected, States
<1>7. /\ x = s.state \/ (x = "binded" /\ s.state = "close")
      /\ CanBind(i, d, p) => x = "binded"
  BY <1>5
<1>a. s = slot[i]
  OBVIOUS
<1> HIDE DEF s, x
<1>8. /\ t \in SlotType /\ t.state = x /\ t.waiting = s.waiting /\ t.count = s.count
      /\ t.backlog = s.backlog /\ t.accepting = s.accepting /\ t.closing = s.closing
      /\ t.timer = s.timer
  BY <1>1, <1>4, <1>6 DEF SlotType
<1> HIDE DEF t
<1>9. WaitingOK(t)
  BY <1>1, <1>7, <1>8, SameList
<1>10. /\ t.accepting => t.state = "listen"
       /\ Bound(s) => Bound(t)
       /\ s.state = "listen" => t.state = "listen"
  BY <1>1, <1>7, <1>8 DEF Bound, StateFits
<1>11. CASE ~CanBind(i, d, p)
  <2>1. conn' = conn
    BY <1>11 DEF Bind
  <2> QED
    BY <1>1, <1>2, <1>3, <1>6, <1>8, <1>9, <1>10, <1>a, <2>1, UnconnectedTurns
<1>12. CASE CanBind(i, d, p)
  <2>1. conn' = cx /\ \A e \in D : conn[e][p] = NoSocket
    BY <1>12 DEF Bind, CanBind, Owned
  <2> HIDE DEF D
  <2>2. Turns(slot, conn, i, t) /\ IdOK(i, t, taken, held, leaving)
    BY <1>1, <1>2, <1>6, <1>8, <1>9, <1>10, <1>a, StaysUnconnected
  <2>3. Connections([slot EXCEPT ![i] = t], conn, data)
    BY <1>1, <1>8, <2>2, TurnKeeps
  <2>4. slot' \in [Ids -> SlotType] /\ slot'[i] = t /\ Connections(slot', conn, data)
    BY <1>1, <1>3, <1>8, <2>3
  <2>5. Bound(slot'[i])
    BY <1>7, <1>8, <1>12, <2>4 DEF Bound
  <2>6. Connections(slot', cx, data)
    BY <1>1, <1>4, <2>1, <2>4, <2>5, OwnKeeps
  <2>7. ConnectionsInv'
    BY <1>2, <2>1, <2>6 DEF ConnectionsInv
  <2>8. conn' \in [Devices -> [Ports -> Ids \cup {NoSocket}]]
    BY <1>1, <1>4, <2>1 DEF Owned
  <2>9. /\ SameButFor(i, taken, taken) /\ SameButFor(i, held, held)
        /\ SameButFor(i, leaving, leaving)
    BY Unmoved
  <2>10. IdsOK([slot EXCEPT ![i] = t], taken, held, leaving)
    BY <1>1, <2>2, <2>9, IdsKeep, Zenon
  <2>11. IdsInv'
    BY <1>2, <1>3, <2>10 DEF IdsInv
  <2>12. halted' = "no"
    BY <1>2 DEF Up
  <2> QED
    BY <1>1, <1>2, <1>3, <1>8, <1>9, <2>7, <2>8, <2>11, <2>12, OneChanges
<1> QED
  BY <1>11, <1>12

\* OPT_LISTEN
LEMMA ListenOK ==
  ASSUME TableInv, Up, NEW i \in held, NEW b \in Backlogs, Listen(i, b)
  PROVE  TableInv'
<1> DEFINE s == slot[i]
           t == [s EXCEPT !.state = "listen", !.backlog = b]
<1>1. i \in Ids /\ s \in SlotType /\ WaitingOK(s) /\ StateFits(s)
  BY TableFacts
<1>2. /\ s.state = "binded" /\ slot' = [slot EXCEPT ![i] = t]
      /\ UNCHANGED <<conn, data, taken, held, leaving, halted>>
  BY DEF Listen
<1>3. "listen" \in States \cap Unconnected /\ "binded" \in Unconnected /\ b \in Nat
  BY DEF States, Unconnected, TableAssumption
<1>a. s = slot[i]
  OBVIOUS
<1> HIDE DEF s
<1>4. /\ t \in SlotType /\ t.state = "listen" /\ t.waiting = s.waiting /\ t.count = s.count
      /\ t.backlog = b /\ t.accepting = s.accepting /\ t.closing = s.closing
      /\ t.timer = s.timer
  BY <1>1, <1>3 DEF SlotType
<1> HIDE DEF t
<1>5. WaitingOK(t)
  <2> DEFINE w == s.waiting
             n == s.count
  <2>1. /\ n = Len(w) /\ s.backlog = 0 /\ w \in Seq(EntryType)
        /\ n <= (IF 0 > 1 THEN 0 ELSE 1)
        /\ \A k \in DOMAIN w : w[k].set
    BY <1>1, <1>2 DEF WaitingOK, ListSound, SlotType
  <2>2. n \in Nat /\ n <= 1 /\ Len(w) \in Nat
    BY <2>1
  <2>3. t.count = Len(t.waiting) /\ t.count = n
    BY <1>4, <2>1
  <2>4. 2 .. Len(w) = {}
    BY <2>1, <2>2
  <2> HIDE DEF w, n
  <2>5. n <= (IF b > 1 THEN b ELSE 1)
    BY <1>3, <2>2
  <2>6. /\ t.count <= (IF t.backlog > 1 THEN t.backlog ELSE 1)
        /\ \A k \in 2 .. Len(t.waiting) : ~t.waiting[k].set
        /\ \A k \in DOMAIN t.waiting : t.waiting[k].set
    BY <1>4, <2>1, <2>3, <2>4, <2>5 DEF w
  <2> QED
    BY <1>4, <2>3, <2>6 DEF WaitingOK, ListSound
<1>6. t.accepting => t.state = "listen"
  BY <1>4
<1>7. Bound(t)
  BY <1>4 DEF Bound
<1> QED
  BY <1>1, <1>2, <1>3, <1>4, <1>5, <1>6, <1>7, <1>a, UnconnectedTurns

\* OPT_CONNECT
LEMMA ConnectOK ==
  ASSUME TableInv, Up, NEW i \in held, NEW d \in RouteTo, NEW r \in Remotes, Connect(i, d, r)
  PROVE  TableInv'
<1> DEFINE s == slot[i]
           p == Least(FreePorts(d))
           t == [s EXCEPT !.dev = d, !.port = p, !.remote = r, !.state = "syn sent", !.timer = TRUE]
           u == [s EXCEPT !.dev = d]
<1>1. /\ i \in Ids /\ slot \in [Ids -> SlotType] /\ s \in SlotType /\ WaitingOK(s) /\ StateFits(s)
      /\ conn \in [Devices -> [Ports -> Ids \cup {NoSocket}]]
      /\ data \in [Devices -> [Ports -> Seq(Ids)]]
      /\ taken \subseteq Ids /\ held \subseteq Ids /\ leaving \subseteq Ids
      /\ IdsOK(slot, taken, held, leaving) /\ Connections(slot, conn, data)
  BY TableFacts
<1>2. s.state \in Unconnected /\ UNCHANGED <<taken, held, leaving, halted>>
  BY DEF Connect, MayPlace
<1>3. d \in Devices \cup {BadDevice} /\ \A q \in ClientPorts : q \in Ports
  BY DEF TableAssumption, Ports
<1>4. i \notin leaving /\ i \in taken /\ ~s.closing
  BY <1>1, <1>2, UnconnectedIdle
<1>a. s = slot[i]
  OBVIOUS
<1>5. CASE ~(s.state = "close" /\ d # BadDevice)
  <2>1. slot' = [slot EXCEPT ![i] = u] /\ UNCHANGED <<conn, data>>
    BY <1>5 DEF Connect
  <2> HIDE DEF s
  <2>2. /\ u \in SlotType /\ u.state = s.state /\ u.waiting = s.waiting /\ u.count = s.count
        /\ u.backlog = s.backlog /\ u.accepting = s.accepting /\ u.closing = s.closing
        /\ u.timer = s.timer
    BY <1>1, <1>3 DEF SlotType
  <2> HIDE DEF u
  <2>3. WaitingOK(u)
    BY <1>1, <2>2, SameList
  <2>4. (Bound(s) => Bound(u)) /\ (u.accepting => u.state = "listen")
    BY <1>1, <2>2 DEF Bound, StateFits
  <2> QED
    BY <1>1, <1>2, <1>a, <2>1, <2>2, <2>3, <2>4, UnconnectedTurns
<1>6. CASE s.state = "close" /\ d # BadDevice
  <2>1. d \in Devices
    BY <1>3, <1>6
  <2>2. /\ FreePorts(d) # {} /\ slot' = [slot EXCEPT ![i] = t]
        /\ conn' = [conn EXCEPT ![d][p] = i]
        /\ data' = [data EXCEPT ![d][p] = InsertDataSocket(@, i)]
    BY <1>6 DEF Connect
  <2>3. p \in FreePorts(d)
    <3>1. FreePorts(d) \subseteq Nat
      BY DEF FreePorts, TableAssumption
    <3> QED
      BY <2>2, <3>1, LeastIsMember
  <2> HIDE DEF p
  <2>4. p \in Ports /\ conn[d][p] = NoSocket
    BY <1>3, <2>3 DEF FreePorts
  <2>5. "syn sent" \in States /\ "syn sent" \in DataStates
    BY DEF States, DataStates
  <2> HIDE DEF s
  <2>6. /\ t \in SlotType /\ t.state = "syn sent" /\ t.waiting = s.waiting /\ t.count = s.count
        /\ t.backlog = s.backlog /\ t.accepting = s.accepting /\ t.closing = s.closing
        /\ t.timer = TRUE /\ t.dev = d /\ t.port = p
    BY <1>1, <2>1, <2>4, <2>5 DEF SlotType
  <2> HIDE DEF t
  <2>7. WaitingOK(t)
    BY <1>1, <2>6, SameList
  <2>8. StateFits(t) /\ Live(t, d, p)
    BY <1>1, <1>6, <2>1, <2>4, <2>5, <2>6 DEF StateFits, Live
  <2>9. ~Bound(s) /\ s.state \notin DataStates
    BY <1>6 DEF Bound, DataStates, Finishing
  <2>10. MayCome(slot, conn, i, t, d, p)
    BY <2>4 DEF MayCome
  <2>11. Connections([slot EXCEPT ![i] = t],
                     IF conn[d][p] = NoSocket THEN [conn EXCEPT ![d][p] = i] ELSE conn,
                     [data EXCEPT ![d][p] = InsertDataSocket(@, i)])
    BY <1>1, <1>a, <2>1, <2>4, <2>6, <2>8, <2>9, <2>10, ComesKeeps
  <2>12. ConnectionsInv'
    BY <2>2, <2>4, <2>11 DEF ConnectionsInv
  <2>13. IdOK(i, t, taken, held, leaving)
    BY <1>4, <2>6 DEF IdOK
  <2>14. IdsOK([slot EXCEPT ![i] = t], taken, held, leaving)
    <3>1. /\ SameButFor(i, taken, taken) /\ SameButFor(i, held, held)
          /\ SameButFor(i, leaving, leaving)
      BY Unmoved
    <3> QED
      BY <1>1, <2>13, <3>1, IdsKeep, Zenon
  <2>15. IdsInv'
    BY <1>2, <2>2, <2>14 DEF IdsInv
  <2>16. conn' \in [Devices -> [Ports -> Ids \cup {NoSocket}]]
    BY <1>1, <2>1, <2>2, <2>4
  <2>17. InsertDataSocket(data[d][p], i) \in Seq(Ids)
    BY <1>1, <2>1, <2>4, InsertType
  <2>18. data' \in [Devices -> [Ports -> Seq(Ids)]]
    BY <1>1, <2>1, <2>2, <2>4, <2>17
  <2>19. halted' = "no"
    BY <1>2 DEF Up
  <2> QED
    BY <1>1, <1>2, <2>2, <2>6, <2>7, <2>12, <2>15, <2>16, <2>18, <2>19, OneChanges
<1> QED
  BY <1>5, <1>6

-----------------------------------------------------------------------------
(***************************************************************************)
(* Waiting connections: SYN segments and accept                            *)
(***************************************************************************)

\* tcp_accept: the first waiting connection gets a data socket, or, when its local
\* address was never set, the daemon goes down.
LEMMA TCPAcceptOK ==
  ASSUME TableInv, Up, NEW i \in Ids, slot[i].state = "listen", NEW s \in SlotType,
         SameButList(s, slot[i]), s.waiting # <<>>, ListSound(s), AllWaitAlone(slot, conn, i, s),
         TCPAccept(i, s), UNCHANGED <<conn, held, leaving>>
  PROVE  TableInv'
<1> DEFINE e == Head(s.waiting)
           n == NewId
           c == [s EXCEPT !.accepting = FALSE]
           u == DeleteWaiting(c, e.remote)
           t == [FreeSlot EXCEPT !.state = "syn recv", !.dev = e.dev, !.port = e.port,
                                 !.remote = e.remote, !.timer = TRUE]
           sl == [slot EXCEPT ![i] = u]
<1>1. /\ slot \in [Ids -> SlotType]
      /\ conn \in [Devices -> [Ports -> Ids \cup {NoSocket}]]
      /\ data \in [Devices -> [Ports -> Seq(Ids)]]
      /\ taken \subseteq Ids /\ held \subseteq Ids /\ leaving \subseteq Ids
      /\ IdsOK(slot, taken, held, leaving) /\ Connections(slot, conn, data)
      /\ \A j \in Ids : WaitingOK(slot[j]) /\ IdOK(j, slot[j], taken, held, leaving)
  BY TableFacts
<1>2. e = s.waiting[1] /\ 1 \in DOMAIN s.waiting /\ e \in EntryType
  <2>1. s.waiting \in Seq(EntryType)
    BY DEF SlotType
  <2> QED
    BY <2>1
<1>3. e.remote \in Remotes /\ e.dev \in Devices /\ e.port \in Ports /\ e.set \in BOOLEAN
  BY <1>2 DEF EntryType
<1>4. /\ taken # Ids /\ taken' = taken \cup {n}
      /\ slot' = [slot EXCEPT ![i] = u, ![n] = t]
      /\ \/ /\ e.set
            /\ data' = [data EXCEPT ![e.dev][e.port] = InsertDataSocket(@, n)]
            /\ halted' = halted
         \/ ~e.set /\ halted' = "unset fields" /\ data' = data
  BY DEF TCPAccept
<1>5. n \in Ids /\ n \notin taken
  BY <1>1, <1>4, NewIdOK
<1> HIDE DEF n
<1>6. slot[n].state = "free" /\ n \notin held /\ n \notin leaving /\ n # i
  <2>1. IdOK(n, slot[n], taken, held, leaving) /\ IdOK(i, slot[i], taken, held, leaving)
    BY <1>1, <1>5
  <2> QED
    BY <1>5, <2>1 DEF IdOK
<1>7. /\ t \in SlotType /\ t.state = "syn recv" /\ t.dev = e.dev /\ t.port = e.port
      /\ t.remote = e.remote /\ t.timer = TRUE /\ t.accepting = FALSE /\ t.closing = FALSE
      /\ t.waiting = <<>> /\ t.count = 0 /\ t.backlog = 0
  <2>1. FreeSlot \in SlotType
    BY FreeSlotOK
  <2>2. "syn recv" \in States
    BY DEF States, DataStates
  <2> HIDE DEF e
  <2> QED
    BY <1>3, <2>1, <2>2 DEF SlotType, FreeSlot
<1>8. /\ c \in SlotType /\ c.state = s.state /\ c.dev = s.dev /\ c.port = s.port
      /\ c.remote = s.remote /\ c.waiting = s.waiting /\ c.count = s.count
      /\ c.backlog = s.backlog /\ c.accepting = FALSE /\ c.closing = s.closing
      /\ c.timer = s.timer
  BY DEF SlotType
<1>9. s.state = "listen" /\ s.backlog = slot[i].backlog /\ s.timer = slot[i].timer
      /\ s.closing = slot[i].closing
  BY DEF SameButList
<1> HIDE DEF t, c, e
<1>10. ListSound(c)
  BY <1>8 DEF ListSound
<1>11. /\ u \in SlotType /\ SameButList(u, c) /\ ListSound(u)
       /\ Shortens(u.waiting, c.waiting, e.remote)
  BY <1>8, <1>10, DeleteWaitingOK
<1> HIDE DEF u
<1>12. /\ u.state = "listen" /\ u.accepting = FALSE /\ u.timer = slot[i].timer
       /\ u.closing = slot[i].closing /\ u.backlog = slot[i].backlog
  BY <1>8, <1>9, <1>11 DEF SameButList
<1>13. \A k \in DOMAIN u.waiting : \E l \in DOMAIN s.waiting :
         u.waiting[k] = s.waiting[l] /\ s.waiting[l].remote # e.remote
  BY <1>8, <1>11 DEF Shortens
<1>14. WaitingOK(u) /\ WaitingOK(t)
  <2>1. WaitingOK(u)
    BY <1>11, <1>12 DEF WaitingOK
  <2> QED
    BY <1>7, <2>1, EmptyListOK
<1>15. /\ slot' \in [Ids -> SlotType] /\ slot'[n] = t /\ slot'[i] = u
       /\ slot' = [sl EXCEPT ![n] = t] /\ sl \in [Ids -> SlotType] /\ sl[n] = slot[n]
       /\ sl[i] = u
       /\ \A j \in Ids \ {i, n} : slot'[j] = slot[j]
  BY <1>1, <1>4, <1>5, <1>6, <1>7, <1>11
<1>16. \A j \in Ids : WaitingOK(slot'[j])
  BY <1>1, <1>14, <1>15
<1>17. taken' \subseteq Ids /\ held' \subseteq Ids /\ leaving' \subseteq Ids
  BY <1>1, <1>4, <1>5
<1>18. CASE ~e.set
  <2>1. halted' = "unset fields" /\ data' = data
    BY <1>4, <1>18
  <2>2. ~(s.backlog <= 1)
    BY <1>2, <1>18 DEF ListSound
  <2>3. ~(slot'[i].backlog <= 1)
    BY <1>9, <1>12, <1>15, <2>2
  <2> QED
    BY <1>1, <1>15, <1>16, <1>17, <2>1, <2>3 DEF TableInv, TablesTyped, WaitingInv, Up
<1>19. CASE e.set
  <2>1. /\ data' = [data EXCEPT ![e.dev][e.port] = InsertDataSocket(@, n)]
        /\ halted' = "no"
    BY <1>4, <1>19 DEF Up
  <2>2. "listen" \in Unconnected /\ "listen" \notin DataStates /\ "free" \notin DataStates
    BY DEF Unconnected, DataStates, Finishing
  <2>3. i \notin leaving /\ i \in taken /\ ~slot[i].closing /\ ~slot[i].timer
    BY <2>2, UnconnectedIdle
  <2>4. \A k \in DOMAIN s.waiting : WaitsAlone(slot, conn, i, s.waiting[k])
    BY <1>9, <2>2 DEF AllWaitAlone
  <2>5. WaitsAlone(slot, conn, i, e)
    BY <1>2, <2>4
  <2>6. Turns(slot, conn, i, u)
    <3>1. StateFits(u)
      BY <1>12, <2>2, <2>3 DEF StateFits
    <3>2. \A k \in DOMAIN u.waiting : WaitsAlone(slot, conn, i, u.waiting[k])
      BY <1>13, <2>4
    <3>3. Bound(u)
      BY <1>12 DEF Bound
    <3>4. \A d \in Devices, p \in Ports : ~Live(u, d, p) /\ ~Live(slot[i], d, p)
      BY <1>12, <2>2 DEF Live
    <3> QED
      BY <1>12, <2>2, <3>1, <3>2, <3>3, <3>4 DEF Turns, AllWaitAlone
  <2>7. Connections(sl, conn, data)
    BY <1>1, <1>11, <2>6, TurnKeeps
  <2>8. conn[e.dev][e.port] = i
    BY <1>19, <2>5 DEF WaitsAlone
  <2>9. Live(t, e.dev, e.port) /\ StateFits(t)
    BY <1>3, <1>7 DEF Live, StateFits, DataStates
  <2>10. ~Bound(sl[n]) /\ sl[n].state \notin DataStates
    BY <1>6, <1>15, <2>2 DEF Bound
  <2>11. MayCome(sl, conn, n, t, e.dev, e.port)
    <3>1. \A j \in Ids : Live(sl[j], e.dev, e.port) => sl[j].remote # t.remote
      <4>1. ~Live(sl[i], e.dev, e.port)
        BY <1>12, <1>15, <2>2 DEF Live
      <4>2. \A j \in Ids : j # i => sl[j] = slot[j]
        BY <1>1
      <4> QED
        BY <1>7, <1>19, <2>5, <4>1, <4>2 DEF WaitsAlone
    <3>2. \A k \in DOMAIN sl[i].waiting : sl[i].waiting[k].remote # t.remote
      <4>1. \A k \in DOMAIN u.waiting : u.waiting[k].remote # t.remote
        BY <1>7, <1>13
      <4>2. sl[i] = u
        BY <1>15
      <4> HIDE DEF sl
      <4> QED
        BY <4>1, <4>2
    <3> QED
      BY <1>6, <1>12, <1>15, <2>8, <3>1, <3>2 DEF MayCome
  <2>12. i # NoSocket
    BY DEF TableAssumption
  <2> HIDE DEF sl
  <2>13. Connections([sl EXCEPT ![n] = t],
                     IF conn[e.dev][e.port] = NoSocket THEN [conn EXCEPT ![e.dev][e.port] = n]
                                                       ELSE conn,
                     [data EXCEPT ![e.dev][e.port] = InsertDataSocket(@, n)])
    BY <1>1, <1>3, <1>5, <1>7, <1>15, <2>7, <2>9, <2>10, <2>11, ComesKeeps
  <2>14. ConnectionsInv'
    BY <1>15, <2>1, <2>8, <2>12, <2>13 DEF ConnectionsInv
  <2>15. IdsInv'
    <3>1. IdOK(i, u, taken, held, leaving)
      BY <1>12, <2>3 DEF IdOK
    <3>2. /\ SameButFor(i, taken, taken) /\ SameButFor(i, held, held)
          /\ SameButFor(i, leaving, leaving) /\ SameButFor(n, held, held)
          /\ SameButFor(n, leaving, leaving) /\ SameButFor(n, taken, taken')
      BY <1>4, Unmoved
    <3>3. IdsOK(sl, taken, held, leaving)
      BY <1>1, <3>1, <3>2, IdsKeep, Zenon DEF sl
    <3>4. IdOK(n, t, taken', held, leaving)
      BY <1>4, <1>6, <1>7 DEF IdOK
    <3>5. IdsOK([sl EXCEPT ![n] = t], taken', held, leaving)
      BY <1>5, <1>15, <3>2, <3>3, <3>4, IdsKeep, Zenon
    <3>6. slot' = [sl EXCEPT ![n] = t] /\ held' = held /\ leaving' = leaving
      BY <1>15
    <3>7. IdsOK(slot', taken', held', leaving')
      BY <3>5, <3>6, Zenon
    <3> QED
      BY <3>7 DEF IdsInv
  <2>16. InsertDataSocket(data[e.dev][e.port], n) \in Seq(Ids)
    <3>1. data[e.dev][e.port] \in Seq(Ids)
      BY <1>1, <1>3
    <3> QED
      BY <1>5, <3>1, InsertType
  <2>17. data' \in [Devices -> [Ports -> Seq(Ids)]]
    BY <1>1, <1>3, <2>1, <2>16
  <2>18. TablesTyped'
    BY <1>1, <1>15, <1>17, <2>17 DEF TablesTyped
  <2>19. WaitingInv'
    BY <1>16, <2>1 DEF WaitingInv
  <2> QED
    BY <2>14, <2>15, <2>18, <2>19 DEF TableInv
<1> QED
  BY <1>3, <1>18, <1>19

\* OPT_ACCEPT
LEMMA AcceptOK ==
  ASSUME TableInv, Up, NEW i \in held, Accept(i)
  PROVE  TableInv'
<1> DEFINE s == slot[i]
           t == [s EXCEPT !.accepting = TRUE]
<1>1. /\ i \in Ids /\ s \in SlotType /\ WaitingOK(s) /\ AllWaitAlone(slot, conn, i, s)
  BY TableFacts
<1>2. s.state = "listen" /\ UNCHANGED <<conn, held, leaving>>
  BY DEF Accept
<1>3. CASE s.count > 0
  <2>1. TCPAccept(i, s)
    BY <1>3 DEF Accept
  <2>2. s.waiting # <<>>
    BY <1>1, <1>3 DEF WaitingOK, ListSound
  <2>3. SameButList(s, slot[i])
    BY DEF SameButList
  <2> QED
    BY <1>1, <1>2, <2>1, <2>2, <2>3, TCPAcceptOK DEF WaitingOK
<1>4. CASE ~(s.count > 0)
  <2>1. slot' = [slot EXCEPT ![i] = t] /\ UNCHANGED <<data, taken, halted>>
    BY <1>4 DEF Accept
  <2>a. s = slot[i]
    OBVIOUS
  <2>2. "listen" \in Unconnected
    BY DEF Unconnected
  <2> HIDE DEF s
  <2>3. /\ t \in SlotType /\ t.state = s.state /\ t.waiting = s.waiting /\ t.count = s.count
        /\ t.backlog = s.backlog /\ t.closing = s.closing /\ t.timer = s.timer
    BY <1>1 DEF SlotType
  <2> HIDE DEF t
  <2>4. WaitingOK(t)
    BY <1>1, <2>3, SameList
  <2>5. Bound(t)
    BY <1>2, <2>3 DEF Bound
  <2> QED
    BY <1>1, <1>2, <2>a, <2>1, <2>2, <2>3, <2>4, <2>5, UnconnectedTurns
<1> QED
  BY <1>3, <1>4

\* A SYN that belongs to no data socket: no data socket of the port has its remote, so
\* it may wait there.
LEMMA SynArrivesOK ==
  ASSUME TableInv, Up, NEW r \in Remotes, NEW d \in Devices, NEW p \in Ports,
         SynArrives(r, d, p)
  PROVE  TableInv'
<1> DEFINE i == conn[d][p]
           o == slot[i]
           s == InsertWaiting(o, r, d, p)
           e1 == [remote |-> r, dev |-> d, port |-> p, set |-> TRUE]
<1>1. /\ slot \in [Ids -> SlotType]
      /\ conn \in [Devices -> [Ports -> Ids \cup {NoSocket}]]
      /\ data \in [Devices -> [Ports -> Seq(Ids)]]
      /\ taken \subseteq Ids /\ held \subseteq Ids /\ leaving \subseteq Ids
      /\ Connections(slot, conn, data)
  BY TableFacts
<1>2. Match(d, p, r) = {}
  BY DEF SynArrives
<1>3. CASE i = NoSocket
  <2>1. WildAccess
    BY <1>3 DEF SynArrives
  <2> QED
    BY <1>1, <2>1, Halts DEF WildAccess
<1>4. CASE i # NoSocket
  <2>1. i \in Ids
    BY <1>1, <1>4
  <2>2. /\ o \in SlotType /\ WaitingOK(o) /\ AllWaitAlone(slot, conn, i, o) /\ StateFits(o)
        /\ IdOK(i, o, taken, held, leaving)
    BY <2>1, TableFacts
  <2>3. /\ s \in SlotType /\ SameButList(s, o) /\ ListSound(s) /\ s.waiting # <<>>
        /\ \A k \in DOMAIN s.waiting : s.waiting[k].set =>
             \/ \E l \in DOMAIN o.waiting : s.waiting[k] = o.waiting[l]
             \/ s.waiting[k] = e1
    BY <2>2, InsertWaitingOK DEF WaitingOK
  <2>4. \A j \in Ids : Live(slot[j], d, p) => slot[j].remote # r
    <3>1. ListExact(slot, data, d, p) /\ data[d][p] \in Seq(Ids)
      BY <1>1 DEF Connections, PortOK
    <3>2. \A k \in DOMAIN data[d][p] : slot[data[d][p][k]].remote # r
      BY <1>2, <3>1 DEF Match
    <3> QED
      BY <3>1, <3>2 DEF ListExact
  <2>5. WaitsAlone(slot, conn, i, e1)
    BY <2>4 DEF WaitsAlone
  <2>6. /\ IF s.accepting THEN TCPAccept(i, s)
           ELSE slot' = [slot EXCEPT ![i] = s] /\ UNCHANGED <<data, taken, halted>>
        /\ UNCHANGED <<conn, held, leaving>>
    BY <1>4 DEF SynArrives
  <2>a. i = conn[d][p] /\ o = slot[i]
    OBVIOUS
  <2> HIDE DEF s, o, e1, i
  <2>7. /\ s.state = o.state /\ s.dev = o.dev /\ s.port = o.port /\ s.remote = o.remote
        /\ s.backlog = o.backlog /\ s.accepting = o.accepting /\ s.closing = o.closing
        /\ s.timer = o.timer
    BY <2>3 DEF SameButList
  <2>8. AllWaitAlone(slot, conn, i, s)
    <3>1. ASSUME s.state \in Unconnected, NEW k \in DOMAIN s.waiting
          PROVE  WaitsAlone(slot, conn, i, s.waiting[k])
      <4>1. \A l \in DOMAIN o.waiting : WaitsAlone(slot, conn, i, o.waiting[l])
        BY <2>2, <2>7, <3>1 DEF AllWaitAlone
      <4>2. CASE s.waiting[k].set
        BY <2>3, <2>5, <4>1, <4>2
      <4>3. CASE ~s.waiting[k].set
        BY <4>3 DEF WaitsAlone
      <4> QED
        BY <4>2, <4>3
    <3> QED
      BY <3>1 DEF AllWaitAlone
  <2>9. CASE s.accepting
    <3>1. slot[i].state = "listen" /\ SameButList(s, slot[i])
      BY <2>a, <2>2, <2>3, <2>7, <2>9 DEF StateFits
    <3> QED
      BY <2>1, <2>3, <2>6, <2>8, <2>9, <3>1, TCPAcceptOK
  <2>10. CASE ~s.accepting
    <3>1. slot' = [slot EXCEPT ![i] = s] /\ UNCHANGED <<data, taken, halted, conn, held, leaving>>
      BY <2>6, <2>10
    <3>2. WaitingOK(s)
      BY <2>2, <2>3, <2>7 DEF WaitingOK
    <3>3. Turns(slot, conn, i, s)
      <4>1. StateFits(s)
        BY <2>2, <2>7 DEF StateFits
      <4> QED
        BY <2>a, <2>7, <2>8, <4>1 DEF Turns, Live, Bound
    <3>4. IdOK(i, s, taken', held', leaving')
      BY <2>2, <2>7, <3>1 DEF IdOK
    <3>5. /\ SameButFor(i, taken, taken') /\ SameButFor(i, held, held')
          /\ SameButFor(i, leaving, leaving')
          /\ taken' \subseteq Ids /\ held' \subseteq Ids /\ leaving' \subseteq Ids
      BY <1>1, <3>1, Unmoved
    <3> QED
      BY <2>1, <2>3, <3>1, <3>2, <3>3, <3>4, <3>5, OneTurns
  <2> QED
    BY <2>9, <2>10
<1> QED
  BY <1>3, <1>4

-----------------------------------------------------------------------------
(***************************************************************************)
(* The theorems                                                            *)
(***************************************************************************)

\* After memset every slot is free and nothing is in the tables.
LEMMA TableInitOK == TableInit => TableInv
<1> SUFFICES ASSUME TableInit PROVE TableInv
  OBVIOUS
<1>1. /\ slot = [i \in Ids |-> FreeSlot]
      /\ conn = [d \in Devices |-> [p \in Ports |-> NoSocket]]
      /\ data = [d \in Devices |-> [p \in Ports |-> <<>>]]
      /\ taken = {} /\ held = {} /\ leaving = {} /\ halted = "no"
  BY DEF TableInit
<1>2. \A i \in Ids : slot[i] = FreeSlot
  BY <1>1
<1>3. \A d \in Devices, p \in Ports : conn[d][p] = NoSocket /\ data[d][p] = <<>>
  BY <1>1
<1>4. <<>> \in Seq(Ids) /\ DOMAIN <<>> = {}
  OBVIOUS
<1>5. TablesTyped
  BY <1>1, <1>4, FreeSlotOK DEF TablesTyped
<1>6. WaitingInv
  BY <1>1, <1>2, FreeSlotOK DEF WaitingInv
<1>7. /\ FreeSlot.state = "free" /\ ~FreeSlot.closing /\ ~FreeSlot.timer /\ ~FreeSlot.accepting
      /\ FreeSlot.state \notin DataStates \cup Unconnected
  BY DEF FreeSlot, DataStates, Unconnected, Finishing
<1>8. IdsInv
  BY <1>1, <1>2, <1>7 DEF IdsInv, IdsOK, IdOK
<1>9. ConnectionsInv
  <2>1. \A d \in Devices, p \in Ports : PortOK(slot, conn, data, d, p)
    BY <1>2, <1>3, <1>4, <1>7
       DEF PortOK, ListExact, OwnerThere, CameByOwner, RemotesDiffer, Live
  <2>2. \A i \in Ids : StateFits(slot[i]) /\ AllWaitAlone(slot, conn, i, slot[i])
    BY <1>2, <1>7 DEF StateFits, AllWaitAlone
  <2> QED
    BY <2>1, <2>2 DEF ConnectionsInv, Connections
<1> QED
  BY <1>5, <1>6, <1>8, <1>9 DEF TableInv

\* Every request, segment, timer and clean-up thread keeps the tables consistent.
LEMMA TableNextOK == TableInv /\ [TableNext]_TableVars => TableInv'
<1> SUFFICES ASSUME TableInv, [TableNext]_TableVars PROVE TableInv'
  OBVIOUS
<1>1. CASE UNCHANGED TableVars
  <2>1. UNCHANGED <<slot, conn, data, taken, held, leaving, halted>>
    BY <1>1 DEF TableVars
  <2> QED
    BY <2>1 DEF TableInv, TablesTyped, WaitingInv, IdsInv, ConnectionsInv, Up
<1>2. CASE TableNext
  <2>1. Up
    BY <1>2 DEF TableNext, Up
  <2>2. held \subseteq Ids
    BY <2>1, TableFacts
  <2>3. CASE OpenSocket
    BY <2>1, <2>3, OpenSocketOK
  <2>4. ASSUME NEW i \in held,
               \/ \E d \in BindTo, p \in ServerPorts : Bind(i, d, p)
               \/ \E b \in Backlogs : Listen(i, b)
               \/ \E d \in RouteTo, r \in Remotes : Connect(i, d, r)
               \/ Accept(i)
               \/ ReadEnd(i)
               \/ Close(i)
        PROVE  TableInv'
    BY <2>1, <2>2, <2>4, BindOK, ListenOK, ConnectOK, AcceptOK, ReadEndOK, CloseOK
  <2>5. CASE \E r \in Remotes, d \in Devices, p \in Ports : SynArrives(r, d, p)
    BY <2>1, <2>5, SynArrivesOK
  <2>6. ASSUME NEW i \in Ids,
               \/ Established(i) \/ FinFlushed(i) \/ FinArrives(i) \/ SegmentFrees(i)
               \/ TimerTicks(i) \/ LeavingFreed(i)
        PROVE  TableInv'
    BY <2>1, <2>6, EstablishedOK, FinFlushedOK, FinArrivesOK, SegmentFreesOK, TimerTicksOK,
       LeavingFreedOK
  <2> QED
    BY <1>2, <2>3, <2>4, <2>5, <2>6 DEF TableNext
<1> QED
  BY <1>1, <1>2

\* The invariant holds in every reachable state.
LEMMA TableInvHolds == TableSpec => []TableInv
<1>1. TableInit => TableInv
  BY TableInitOK
<1>2. TableInv /\ [TableNext]_TableVars => TableInv'
  BY TableNextOK
<1> QED
  BY <1>1, <1>2, PTL DEF TableSpec

\* An id is not given out again while a socket or an application uses it: ids return
\* only with the last of the socket, the application and the clean-up thread.
THEOREM IdsNotReused == TableSpec => []IdsSound
<1>1. TableInv => IdsSound
  BY DEF TableInv, IdsInv, IdsOK, IdOK, IdsSound
<1> QED
  BY <1>1, TableInvHolds, PTL

\* The waiting list of a socket agrees with its counter and its backlog, and a daemon
\* whose backlogs do not exceed one never accepts an entry without its local address.
THEOREM WaitingListsSound == TableSpec => []WaitingSound
<1>1. TableInv => WaitingSound
  <2> SUFFICES ASSUME TableInv PROVE WaitingSound
    OBVIOUS
  <2>1. /\ \A i \in Ids : ListSound(slot[i])
        /\ (\A i \in Ids : slot[i].backlog <= 1) => halted # "unset fields"
    BY DEF TableInv, WaitingInv, WaitingOK
  <2> QED
    BY <2>1 DEF ListSound, WaitingSound
<1> QED
  BY <1>1, TableInvHolds, PTL

\* The data sockets in the list of a port differ in their remote, so that a segment
\* belongs to one of them at most.
THEOREM ConnectionsUnique == TableSpec => []UniqueConnection
<1>1. TableInv => UniqueConnection
  <2> SUFFICES ASSUME TableInv, Up, NEW d \in Devices, NEW p \in Ports,
                      NEW i \in ToSet(data[d][p]), NEW j \in ToSet(data[d][p]), i # j
               PROVE  slot[i].remote # slot[j].remote
    BY DEF UniqueConnection
  <2>1. data[d][p] \in Seq(Ids) /\ PortOK(slot, conn, data, d, p)
    BY TableFacts DEF Connections
  <2>2. \A l \in ToSet(data[d][p]) : l \in Ids /\ \E k \in DOMAIN data[d][p] : data[d][p][k] = l
    BY <2>1 DEF ToSet
  <2>3. i \in Ids /\ j \in Ids /\ Live(slot[i], d, p) /\ Live(slot[j], d, p)
    BY <2>1, <2>2 DEF PortOK, ListExact
  <2> QED
    BY <2>1, <2>3 DEF PortOK, RemotesDiffer
<1> QED
  BY <1>1, TableInvHolds, PTL

\* The port table and the sockets agree: a port points to a socket that lives, and its
\* list holds exactly the data sockets at it, each once.
THEOREM PortTableMatches == TableSpec => []PortsMatch
<1>1. TableInv => PortsMatch
  <2> SUFFICES ASSUME TableInv, Up, NEW d \in Devices, NEW p \in Ports
               PROVE  /\ conn[d][p] # NoSocket => slot[conn[d][p]].state # "free"
                      /\ \A i \in Ids :
                           LET s == slot[i]
                               at == {k \in 1 .. Len(data[d][p]) : data[d][p][k] = i}
                           IN  Cardinality(at) =
                                 IF s.state \in DataStates /\ s.dev = d /\ s.port = p THEN 1 ELSE 0
    BY DEF PortsMatch
  <2>1. /\ data[d][p] \in Seq(Ids) /\ conn[d][p] \in Ids \cup {NoSocket}
        /\ PortOK(slot, conn, data, d, p)
    BY TableFacts DEF Connections
  <2>2. conn[d][p] # NoSocket => slot[conn[d][p]].state # "free"
    BY <2>1 DEF PortOK, OwnerThere, Bound, Live, DataStates, Finishing
  <2>3. ASSUME NEW i \in Ids
        PROVE  Cardinality({k \in 1 .. Len(data[d][p]) : data[d][p][k] = i}) =
                 IF Live(slot[i], d, p) THEN 1 ELSE 0
    <3> DEFINE list == data[d][p]
               at == {k \in 1 .. Len(list) : list[k] = i}
    <3>1. /\ DOMAIN list = 1 .. Len(list)
          /\ \A k, l \in DOMAIN list : list[k] = list[l] => k = l
          /\ Live(slot[i], d, p) <=> \E k \in DOMAIN list : list[k] = i
      BY <2>1 DEF PortOK, ListExact
    <3>2. CASE Live(slot[i], d, p)
      <4>1. PICK k \in DOMAIN list : list[k] = i
        BY <3>1, <3>2
      <4>2. at = {k}
        BY <3>1, <4>1
      <4>3. Cardinality(at) = 1
        BY <4>2, FS_Singleton
      <4> QED
        BY <3>2, <4>3
    <3>3. CASE ~Live(slot[i], d, p)
      <4>1. at = {}
        BY <3>1, <3>3
      <4>2. Cardinality(at) = 0
        BY <4>1, FS_EmptySet
      <4> QED
        BY <3>3, <4>2
    <3> QED
      BY <3>2, <3>3
  <2> QED
    BY <2>2, <2>3 DEF Live
<1> QED
  BY <1>1, TableInvHolds, PTL
=============================================================================
