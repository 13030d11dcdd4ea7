----------------------------- MODULE InputDevices -----------------------------
(***************************************************************************)
(* Finding input devices and reading them: the thread of DeviceDetector,   *)
(* which once a second compares the devices of the system with those it    *)
(* knows, and the thread of InputHandler, which polls the devices attached.*)
(* Mice and keyboards are known apart, but the handler's tables hold both, *)
(* and one of them has only the name to tell them by.  sig_fd, first in    *)
(* poll_fds, was made readable and is never read, so that poll() never     *)
(* waits and always counts it.                                             *)
(***************************************************************************)
EXTENDS Integers, Sequences, SequencesExt, FiniteSetsExt

CONSTANTS
    Uid,        \* names of devices
    Path,       \* device files
    Fds,        \* descriptors
    None,
    MaxChanges, \* bound on plugging and unplugging
    MaxEvents   \* bound on the events of the devices

ASSUME InputAssumption ==
    None \notin Path /\ Fds \subseteq Nat \ {0} /\ MaxChanges \in Nat /\ MaxEvents \in Nat

\* A device by what it is and its name; the detector keeps a table for each kind,
\* with the last device of a name.
Device == {"mouse", "keyboard"} \X Uid
NameOf(d) == d[2]

VARIABLES
    plugged,    \* the device file of each device in the system
    changes,
    known,      \* mouse_uid_paths and keyboard_uid_paths
    scanned,    \* new_mouse_uid_paths and new_keyboard_uid_paths
    shared,     \* names that a mouse and a keyboard have had (not in the code)
    dpc,        \* where the detector's thread is
    gone, fresh,\* devices it is still to remove, and to add
    fd,         \* the descriptor it is removing or adding
    pollFds,    \* poll_fds, without sig_fd
    fdDevs,     \* fd_devs: the descriptors whose devices are registered
    object,     \* what a descriptor was opened for: a device, and its path
    uidFds,     \* uid_fds
    live,       \* descriptors whose device is still in the system
    pending,    \* descriptors with an event to read
    events,     \* events made so far
    ipc,        \* where the input thread is
    ready,      \* descriptors in which poll() found something to read
    eventCount, \* how many it has counted
    loopFds,    \* what the loop over poll_fds finds between begin() and end()
    pos,        \* how many of them it has looked at
    dev,        \* the device it is reading
    failed      \* the input thread has used a device that does not exist
world == <<plugged, changes>>
system == <<live, pending, events>>
detector == <<known, scanned, shared, dpc, gone, fresh, fd>>
tables == <<pollFds, fdDevs, object, uidFds>>
input == <<ipc, ready, eventCount, loopFds, pos, dev>>
inputVars == <<world, system, detector, tables, input, failed>>

NoFd == 0

\* Every device is at a file of its own, or at none.
Worlds == {w \in [Device -> Path \cup {None}] :
              \A d, e \in Device : w[d] = w[e] => d = e \/ w[d] = None}

InputsInit ==
    /\ plugged \in Worlds /\ changes = 0
    /\ known = [d \in Device |-> None] /\ scanned = known /\ shared = {}
    /\ dpc = "scan" /\ gone = {} /\ fresh = {} /\ fd = NoFd
    /\ pollFds = <<>> /\ fdDevs = {} /\ object = [f \in Fds |-> None]
    /\ uidFds = [u \in Uid |-> NoFd]
    /\ live = {} /\ pending = {} /\ events = 0
    /\ ipc = "poll" /\ ready = {} /\ eventCount = 0 /\ loopFds = <<>> /\ pos = 0 /\ dev = NoFd
    /\ failed = FALSE

-----------------------------------------------------------------------------
(* The world *)

\* A device is plugged in, unplugged or moved to another file: what was opened
\* at its file is dead, and reads fail.
Plug(d, path) ==
    /\ changes < MaxChanges /\ path # plugged[d]
    /\ plugged' = [plugged EXCEPT ![d] = path] /\ plugged' \in Worlds
    /\ changes' = changes + 1
    /\ live' = {f \in live : object[f][2] # plugged[d]}
    /\ UNCHANGED <<pending, events, detector, tables, input, failed>>

\* A device that has been opened has something to read.
Happen(f) ==
    /\ events < MaxEvents /\ f \in live \ pending
    /\ pending' = pending \cup {f} /\ events' = events + 1
    /\ UNCHANGED <<world, live, detector, tables, input, failed>>

-----------------------------------------------------------------------------
(* DeviceDetector::run *)

\* What is in /proc/bus/input/devices is compared with what is known.
Scan ==
    /\ dpc = "scan"
    /\ scanned' = plugged
    /\ gone' = {d \in Device : known[d] # None /\ plugged[d] # known[d]}
    /\ fresh' = {d \in Device : plugged[d] # None /\ known[d] = None}
    /\ shared' = shared \cup {u \in Uid : \A d \in Device : NameOf(d) = u =>
                                              ~(known[d] = None /\ plugged[d] = None)}
    /\ dpc' = "next"
    /\ UNCHANGED <<world, system, known, fd, tables, input, failed>>

\* Mice go and come before keyboards go and come.
Turn(d) == d[1] = "keyboard" => \A e \in gone \cup fresh : e[1] = "keyboard"

\* std::remove_if and erase: Kept(f)[i] is what they leave of the first i.
Kept(f) ==
    LET kept[i \in 0..Len(pollFds)] ==
            IF i = 0 THEN <<>>
            ELSE IF pollFds[i] = f THEN kept[i-1] ELSE Append(kept[i-1], pollFds[i])
    IN  kept
Without(f) == Kept(f)[Len(pollFds)]

\* rm_device() takes no lock, and goes by the name: the descriptor is taken out of
\* the poll set, under the loop, whose end() stays, so that it comes to what
\* erase() leaves there ...
RmFromPoll(d) ==
    /\ dpc = "next" /\ d \in gone /\ Turn(d)
    /\ gone' = gone \ {d} /\ fd' = uidFds[NameOf(d)]
    /\ pollFds' = Without(uidFds[NameOf(d)])
    /\ loopFds' = IF ipc = "poll" THEN loopFds
                  ELSE [i \in DOMAIN loopFds |->
                            IF i <= Len(pollFds') THEN pollFds'[i] ELSE loopFds[i]]
    /\ uidFds' = [uidFds EXCEPT ![NameOf(d)] = NoFd]
    /\ dpc' = "erase"
    /\ UNCHANGED <<world, system, known, scanned, shared, fresh, fdDevs, object, ipc, ready,
                   eventCount, pos, dev, failed>>

\* Mutant of EraseDev: the object, and with it the descriptor, stays.
EraseDevNot ==
    /\ dpc = "erase"
    /\ dpc' = "next" /\ fd' = NoFd
    /\ UNCHANGED <<world, system, known, scanned, shared, gone, fresh, tables, input, failed>>

\* ... and the device destroyed, which closes it, even while it is being read.
EraseDev ==
    /\ dpc = "erase"
    /\ fdDevs' = fdDevs \ {fd} /\ object' = [f \in Fds |-> IF f = fd THEN None ELSE object[f]]
    /\ live' = live \ {fd} /\ pending' = pending \ {fd}
    /\ failed' = (ipc = "read" /\ dev = fd)
    /\ dpc' = "next" /\ fd' = NoFd
    /\ UNCHANGED <<world, events, known, scanned, shared, gone, fresh, pollFds, uidFds, input>>

\* add_device(): the file is opened, unless it has gone since the scan or there is
\* no descriptor left ...
Open(d) ==
    /\ dpc = "next" /\ d \in fresh /\ Turn(d) /\ \A e \in gone : e[1] # d[1]
    /\ fresh' = fresh \ {d}
    /\ IF scanned[d] \in Range(plugged) /\ Fds \ fdDevs # {}
       THEN /\ fd' = Min(Fds \ fdDevs) /\ live' = live \cup {fd'} /\ dpc' = "poll"
            /\ object' = [object EXCEPT ![fd'] = <<d, scanned[d]>>]
       ELSE fd' = NoFd /\ UNCHANGED <<dpc, live, object>>
    /\ UNCHANGED <<world, pending, events, known, scanned, shared, gone, pollFds, fdDevs, uidFds,
                   input, failed>>

LockFree == ipc = "poll"

\* ... added to the poll set (poll_fds_mtx) ...
AddToPoll ==
    /\ dpc = "poll" /\ LockFree
    /\ pollFds' = Append(pollFds, fd)
    /\ dpc' = "register"
    /\ UNCHANGED <<world, system, known, scanned, shared, gone, fresh, fd, fdDevs, object,
                   uidFds, input, failed>>

\* Mutant of AddToDevs: the object is not kept.
AddToDevsNot ==
    /\ dpc = "register"
    /\ uidFds' = [uidFds EXCEPT ![NameOf(object[fd][1])] = fd]
    /\ dpc' = "next" /\ fd' = NoFd
    /\ UNCHANGED <<world, system, known, scanned, shared, gone, fresh, pollFds, fdDevs,
                   object, input, failed>>

\* ... and only then to the devices, and under its name, whoever had it.
AddToDevs ==
    /\ dpc = "register"
    /\ fdDevs' = fdDevs \cup {fd} /\ uidFds' = [uidFds EXCEPT ![NameOf(object[fd][1])] = fd]
    /\ dpc' = "next" /\ fd' = NoFd
    /\ UNCHANGED <<world, system, known, scanned, shared, gone, fresh, pollFds, object,
                   input, failed>>

\* Mutant of Finish: what was found is not kept.
FinishForgets ==
    /\ dpc = "next" /\ gone = {} /\ fresh = {}
    /\ dpc' = "scan"
    /\ UNCHANGED <<world, system, known, scanned, shared, gone, fresh, fd, tables, input,
                   failed>>

\* The scan is what is known from now on; the thread sleeps for a second.
Finish ==
    /\ dpc = "next" /\ gone = {} /\ fresh = {}
    /\ known' = scanned /\ dpc' = "scan"
    /\ UNCHANGED <<world, system, scanned, shared, gone, fresh, fd, tables, input, failed>>

-----------------------------------------------------------------------------
(* InputHandler::run *)

\* poll(), with poll_fds_mtx held from here to the end of the loop: what can be
\* read, registered or not, and what is dead is counted, and sig_fd.
Poll ==
    /\ ipc = "poll"
    /\ ready' = pending \cap ToSet(pollFds)
    /\ eventCount' = Cardinality(ready' \cup (ToSet(pollFds) \ live)) + 1
    /\ loopFds' = pollFds /\ pos' = 0 /\ ipc' = "loop"
    /\ UNCHANGED <<world, system, detector, tables, dev, failed>>

\* Mutant of LoopEnds: the loop ends one descriptor early.
LoopEndsEarly == pos >= Len(loopFds) \/ pos >= eventCount

LoopEnds == pos >= Len(loopFds) \/ pos > eventCount

\* The device of the next descriptor is looked up (fd_devs_mtx), where it is
\* readable; one that is not there is a null pointer.
GetDevice ==
    /\ ipc = "loop" /\ ~LoopEnds
    /\ pos' = pos + 1
    /\ LET f == loopFds[pos + 1] IN
       IF f \notin ready THEN UNCHANGED <<ipc, dev, failed>>
       ELSE IF f \in fdDevs THEN ipc' = "read" /\ dev' = f /\ UNCHANGED failed
       ELSE failed' = TRUE /\ UNCHANGED <<ipc, dev>>
    /\ UNCHANGED <<world, system, detector, tables, ready, eventCount, loopFds>>

\* process_events() reads one event, and waits, with the lock, where there is none;
\* from a dead device it reads nothing.
ReadDevice ==
    /\ ipc = "read" /\ (dev \in live => dev \in pending)
    /\ ipc' = "loop" /\ dev' = NoFd
    /\ pending' = pending \ ({dev} \cap live)
    /\ UNCHANGED <<world, live, events, detector, tables, ready, eventCount, loopFds, pos, failed>>

EndLoop ==
    /\ ipc = "loop" /\ LoopEnds
    /\ ipc' = "poll" /\ ready' = {} /\ eventCount' = 0 /\ loopFds' = <<>> /\ pos' = 0
    /\ UNCHANGED <<world, system, detector, tables, dev, failed>>

-----------------------------------------------------------------------------

Detect == \/ Scan \/ EraseDev \/ AddToPoll \/ AddToDevs \/ Finish
          \/ \E d \in Device : RmFromPoll(d) \/ Open(d)
Read == Poll \/ GetDevice \/ ReadDevice \/ EndLoop

InputsNext == \/ \E d \in Device, path \in Path \cup {None} : Plug(d, path)
              \/ \E f \in Fds : Happen(f)
              \/ ~failed /\ (Detect \/ Read)

InputsSpec == InputsInit /\ [][InputsNext]_inputVars

\* Both threads run; the input thread lets go of the lock again and again, unless
\* it waits in read(), and the detector gets it at some time.
InputsFairness == /\ WF_inputVars(~failed /\ Read) /\ WF_inputVars(~failed /\ Detect)
                  /\ SF_inputVars(~failed /\ AddToPoll)

-----------------------------------------------------------------------------
(* Properties *)

InputsTypeOK ==
    /\ plugged \in [Device -> Path \cup {None}] /\ known \in [Device -> Path \cup {None}]
    /\ scanned \in [Device -> Path \cup {None}]
    /\ shared \subseteq Uid
    /\ gone \subseteq Device /\ fresh \subseteq Device
    /\ dpc \in {"scan", "next", "erase", "poll", "register"}
    /\ pollFds \in Seq(Fds) /\ loopFds \in Seq(Fds)
    /\ fdDevs \subseteq Fds /\ uidFds \in [Uid -> Fds \cup {NoFd}]
    /\ object \in [Fds -> (Device \X Path) \cup {None}]
    /\ live \subseteq Fds /\ pending \subseteq Fds /\ ready \subseteq Fds
    /\ fd \in Fds \cup {NoFd} /\ dev \in Fds \cup {NoFd}
    /\ ipc \in {"poll", "loop", "read"} /\ pos \in 0..Len(loopFds) /\ failed \in BOOLEAN

\* Between two devices the three tables of the input handler agree: what is
\* polled is what is registered, a name is that of one device, and what is
\* registered has a name - unless both a mouse and a keyboard have had it, when
\* the second takes it from the first, and removing either removes the second.
TablesAgree ==
    /\ InputsTypeOK
    /\ dpc \in {"scan", "next"} =>
          /\ ToSet(pollFds) = fdDevs /\ IsInjective(pollFds)
          /\ \A u \in Uid : uidFds[u] # NoFd =>
                uidFds[u] \in fdDevs /\ NameOf(object[uidFds[u]][1]) = u
          /\ \A f \in fdDevs : LET u == NameOf(object[f][1]) IN uidFds[u] = f \/ u \in shared

\* What is attached is known, and at the file it was opened at: a device that the
\* detector does not know, knows no longer or knows elsewhere is never read, but
\* for those of shared names.
AttachedIsKnown ==
    dpc = "scan" => \A f \in fdDevs : LET d == object[f][1] IN
                       known[d] = object[f][2] \/ NameOf(d) \in shared

\* The input thread meets a device that is not there, or that goes while it is
\* read, only while the detector is registering one, or after it has taken one
\* away under the loop.
MissesInPassing ==
    [][failed' # failed => dpc = "register" \/ loopFds # pollFds]_inputVars

\* The input thread waits for an event of a device that has none.
ReadBlocks == ipc = "read" /\ dev \in live \ pending

\* The loop may be left before it comes to a descriptor.
Behind(f) == \E i \in 4..Len(pollFds) : pollFds[i] = f

\* Again and again there is no event left to read but those of devices that are gone,
\* or behind the first three, even when the loop is cut short; unless the input
\* thread has met a descriptor twice and waits for ever for a second event of its
\* device.
EventsAreRead ==
    \/ <>[]ReadBlocks
    \/ []<>(failed \/ \A f \in pending \cap live : Behind(f))

=============================================================================
