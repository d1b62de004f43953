------------------------------ MODULE LinkLayer ------------------------------
(***************************************************************************)
(* The link layer, link/device.c and link/packetio.c, from the start of    *)
(* the program (main of test/router.c and test/tcp_protocol_stack.c): main *)
(* opens the devices, each of which starts a capture thread at once, then  *)
(* sets up ARP, routing, IP and TCP, which register their callbacks, while *)
(* the capture threads call what is registered.                            *)
(***************************************************************************)
EXTENDS Integers, Sequences, FiniteSets

CONSTANTS
    PcapDevices,    \* the names pcap_findalldevs returns, in order
    MayFail,        \* those whose MAC is not found or that cannot be opened
    Senders,        \* threads that send frames beside the capture threads
    NoDev, NoThread, NoFrame

ASSUME LinkAssumption == PcapDevices \in Seq({PcapDevices[i] : i \in DOMAIN PcapDevices})

VARIABLES
    main,           \* where main is
    step,           \* how many steps of the set-up are done
    cntdev,         \* link/device.c
    numdevice,      \* the counter of main
    devices,        \* device id -> name
    ipAddr,         \* device id -> the name whose address it has
    ready,          \* what has been initialised
    callbacks,      \* registered_callback, and ip_callback as "TCP"
    callbackMutex,  \* callback_mutex
    sendMutex,      \* sendpacket_mutex
    capture,        \* device id -> its capture thread
    injecting       \* threads inside pcap_sendpacket

LinkVars == <<main, step, cntdev, numdevice, devices, ipAddr, ready, callbacks,
              callbackMutex, sendMutex, capture, injecting>>

DeviceIds == 0 .. Len(PcapDevices) - 1
FrameProtocols == {"ARP", "ROUTE", "IP"}

LinkInit ==
    /\ main = "initDevice" /\ step = 0
    /\ cntdev = 0 /\ numdevice = 0
    /\ devices = [i \in DeviceIds |-> NoDev]
    /\ ipAddr = [i \in DeviceIds |-> NoDev]
    /\ ready = {}
    /\ callbacks = {}
    /\ callbackMutex = NoThread /\ sendMutex = NoThread
    /\ capture = [i \in DeviceIds |-> [at |-> "notStarted", frame |-> NoFrame]]
    /\ injecting = {}

Captured(i, at, frame) == capture' = [capture EXCEPT ![i] = [at |-> at, frame |-> frame]]

-----------------------------------------------------------------------------
\* initDevice: pcap_findalldevs and init_mutex
InitDevice ==
    /\ main = "initDevice"
    /\ main' = IF PcapDevices = <<>> THEN "settingUp" ELSE "open"
    /\ ready' = {"linkMutexes"}
    /\ cntdev' = 0
    /\ UNCHANGED <<step, numdevice, devices, ipAddr, callbacks, callbackMutex, sendMutex,
                   capture, injecting>>

\* addDevice for the next name: the device gets the id cntdev, its capture
\* thread starts, and only then cntdev counts it.
AddDevice ==
    /\ main = "open"
    /\ main' = "count"
    /\ devices' = [devices EXCEPT ![cntdev] = PcapDevices[numdevice + 1]]
    /\ Captured(cntdev, "waiting", NoFrame)
    /\ UNCHANGED <<step, cntdev, numdevice, ipAddr, ready, callbacks, callbackMutex,
                   sendMutex, injecting>>

CountDevice ==
    /\ main = "count"
    /\ main' = "address"
    /\ cntdev' = cntdev + 1
    /\ UNCHANGED <<step, numdevice, devices, ipAddr, ready, callbacks, callbackMutex,
                   sendMutex, capture, injecting>>

\* addDevice returns -1: get_mac_addr finds none, or pcap_open_live fails.
\* The entry of devices is written, the id is not used up.
AddDeviceFails ==
    /\ main = "open"
    /\ PcapDevices[numdevice + 1] \in MayFail
    /\ main' = "address"
    /\ devices' = [devices EXCEPT ![cntdev] = PcapDevices[numdevice + 1]]
    /\ UNCHANGED <<step, cntdev, numdevice, ipAddr, ready, callbacks, callbackMutex,
                   sendMutex, capture, injecting>>

\* getDeviceIPAddress(numdevice), whatever addDevice returned: main counts
\* the devices itself.
GetDeviceIPAddress ==
    /\ main = "address"
    /\ ipAddr' = [ipAddr EXCEPT ![numdevice] = devices[numdevice]]
    /\ numdevice' = numdevice + 1
    /\ main' = IF numdevice + 1 < Len(PcapDevices) THEN "open"
               ELSE "settingUp"
    /\ UNCHANGED <<step, cntdev, devices, ready, callbacks, callbackMutex, sendMutex,
                   capture, injecting>>

\* Mutant: route_init registers its handler first.
SetUpRouteFirst ==
    <<[does |-> "register", what |-> "ARP"],
      [does |-> "register", what |-> "ROUTE"],
      [does |-> "init", what |-> "routingTable"],
      [does |-> "init", what |-> "routingMutexes"],
      [does |-> "init", what |-> "ipMutexes"],
      [does |-> "register", what |-> "IP"],
      [does |-> "init", what |-> "socketMutex"],
      [does |-> "register", what |-> "TCP"]>>

\* arp_init, route_init, IP_init, tcp_init in the order main calls them, and
\* what each initialises and registers, in order.
SetUp ==
    <<[does |-> "register", what |-> "ARP"],
      [does |-> "init", what |-> "routingTable"],
      [does |-> "init", what |-> "routingMutexes"],
      [does |-> "register", what |-> "ROUTE"],
      [does |-> "init", what |-> "ipMutexes"],
      [does |-> "register", what |-> "IP"],
      [does |-> "init", what |-> "socketMutex"],
      [does |-> "register", what |-> "TCP"]>>

\* Step k of the set-up is the next, and done.
SetUpStep(k) ==
    /\ main = "settingUp" /\ k = step + 1
    /\ step' = k
    /\ main' = IF k = Len(SetUp) THEN "sleeping" ELSE main

\* One step of the set-up that initialises something
SetUpInit(k) ==
    /\ SetUp[k].does = "init"
    /\ SetUpStep(k)
    /\ ready' = ready \cup {SetUp[k].what}
    /\ UNCHANGED <<cntdev, numdevice, devices, ipAddr, callbacks, callbackMutex,
                   sendMutex, capture, injecting>>

\* setFrameReceiveCallback waits for callback_mutex, setIPPacketReceiveCallback
\* for ip_callback_mutex, which a handler of IP holds.
SetUpRegister(k) ==
    /\ SetUp[k].does = "register"
    /\ SetUpStep(k)
    /\ IF SetUp[k].what \in FrameProtocols THEN callbackMutex = NoThread
       ELSE \A i \in DeviceIds : capture[i] # [at |-> "handling", frame |-> "IP"]
    /\ callbacks' = callbacks \cup {SetUp[k].what}
    /\ UNCHANGED <<cntdev, numdevice, devices, ipAddr, ready, callbackMutex,
                   sendMutex, capture, injecting>>

-----------------------------------------------------------------------------
\* start_capture: pcap_next_ex returns a frame for this device's MAC or the
\* broadcast address (others are skipped), or it times out, and the frame
\* before is looked at again.  Without a callback nothing happens.
CaptureFrame(i) ==
    /\ capture[i].at = "waiting"
    /\ \E p \in FrameProtocols \cap callbacks : Captured(i, "locking", p)
    /\ UNCHANGED <<main, step, cntdev, numdevice, devices, ipAddr, ready, callbacks,
                   callbackMutex, sendMutex, injecting>>

TakeCallbackMutex(i) == callbackMutex = NoThread /\ callbackMutex' = i

CallbackBegins(i) ==
    /\ capture[i].at = "locking"
    /\ TakeCallbackMutex(i)
    /\ Captured(i, "handling", capture[i].frame)
    /\ UNCHANGED <<main, step, cntdev, numdevice, devices, ipAddr, ready, callbacks,
                   sendMutex, injecting>>

CallbackReturns(i) ==
    /\ capture[i].at = "handling" /\ i \notin injecting
    /\ callbackMutex' = NoThread
    /\ Captured(i, "waiting", NoFrame)
    /\ UNCHANGED <<main, step, cntdev, numdevice, devices, ipAddr, ready, callbacks,
                   sendMutex, injecting>>

Handling == {i \in DeviceIds : capture[i].at = "handling"}

\* sendFrame and sendBroadcastFrame, from a handler or another thread:
\* pcap_sendpacket succeeds or fails under sendpacket_mutex.
InjectBegins(t) ==
    /\ t \in Handling \cup Senders /\ t \notin injecting
    /\ main = "sleeping" \/ t \in Handling
    /\ sendMutex = NoThread /\ sendMutex' = t
    /\ injecting' = injecting \cup {t}
    /\ UNCHANGED <<main, step, cntdev, numdevice, devices, ipAddr, ready, callbacks,
                   callbackMutex, capture>>

InjectEnds(t) ==
    /\ t \in injecting
    /\ injecting' = injecting \ {t}
    /\ sendMutex' = NoThread
    /\ UNCHANGED <<main, step, cntdev, numdevice, devices, ipAddr, ready, callbacks,
                   callbackMutex, capture>>

LinkNext ==
    \/ InitDevice \/ AddDevice \/ AddDeviceFails \/ CountDevice \/ GetDeviceIPAddress
    \/ \E k \in DOMAIN SetUp : SetUpInit(k) \/ SetUpRegister(k)
    \/ \E i \in DeviceIds : CaptureFrame(i) \/ CallbackBegins(i) \/ CallbackReturns(i)
    \/ \E t \in DeviceIds \cup Senders : InjectBegins(t) \/ InjectEnds(t)

LinkSpec == LinkInit /\ [][LinkNext]_LinkVars

-----------------------------------------------------------------------------
\* What a handler touches
Uses(p) ==
    CASE p = "ARP"   -> {"linkMutexes"}
      [] p = "ROUTE" -> {"linkMutexes", "routingTable", "routingMutexes"}
      [] p = "IP"    -> {"linkMutexes", "routingTable", "routingMutexes", "ipMutexes"}
                        \cup (IF "TCP" \in callbacks THEN {"socketMutex"} ELSE {})

\* Capture threads run from addDevice on, long before the tables and mutexes
\* their handlers use exist: no handler runs before main has initialised what
\* it uses and has counted and addressed every device.
InitBeforeUse ==
    \A i \in Handling :
        /\ Uses(capture[i].frame) \subseteq ready
        /\ numdevice = Len(PcapDevices)
        /\ i < cntdev
=============================================================================
