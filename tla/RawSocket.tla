----------------------------- MODULE RawSocket ------------------------------
(***************************************************************************)
(* What the engine does to the host: the packet socket, the flags of the   *)
(* interface and the process's capabilities, from openRawSocket through    *)
(* main() to closeRawSocket (capture/raw_socket.cpp, main.cpp).            *)
(*                                                                         *)
(* The interface outlives the process, which may be killed and started     *)
(* again (docker-compose restarts it).  Other programs change its flags.   *)
(* Every system call may fail; the ones that need a capability fail        *)
(* without it.                                                             *)
(***************************************************************************)
EXTENDS Naturals

CONSTANTS
  MaxFaults,    \* bound: calls of one process that fail without a reason
  MaxChanges,   \* bound: changes of the flags by others
  MaxRuns       \* bound: processes

VARIABLES
  at,           \* the call that main() or openRawSocket is at
  fds,          \* descriptors of the packet socket that are open
  caps,         \* capabilities in the effective and permitted sets
  orig_flags,   \* g_socket_state
  flags,        \* the interface's flags
  granted,      \* the capabilities the process started with
  faults, changes, runs,
  raced,        \* history: flags others changed since orig_flags was read
  wanted        \* history: the flags as they would be without the engine

processVars == <<at, fds, caps, orig_flags, granted, faults, runs>>
hostVars == <<flags, changes, raced, wanted>>
socketVars == <<processVars, hostVars>>

Flags == {"UP", "PROMISC"}
Both == {"CAP_NET_RAW", "CAP_NET_ADMIN"}
OpenCalls == {"socket", "SIOCGIFINDEX", "bind", "SIOCGIFFLAGS", "SIOCSIFFLAGS"}
Ended == {"failed", "crashed", "killed", "exit1", "stopped"}

SocketInit ==
  /\ at = "socket" /\ fds = 0 /\ orig_flags = {}
  /\ granted \in SUBSET Both /\ caps = granted
  /\ flags \in SUBSET Flags /\ wanted = flags /\ raced = {}
  /\ faults = 0 /\ changes = 0 /\ runs = 1
-----------------------------------------------------------------------------
refused(call) ==
  \/ call = "socket" /\ "CAP_NET_RAW" \notin caps
  \/ call = "SIOCSIFFLAGS" /\ "CAP_NET_ADMIN" \notin caps

fault == faults < MaxFaults /\ faults' = faults + 1

\* A call of openRawSocket succeeds and the next one follows.
opens(call, nextCall) ==
  /\ at = call /\ ~refused(call)
  /\ at' = nextCall
  /\ UNCHANGED <<granted, faults, runs, changes, wanted>>

socketCall ==
  /\ opens("socket", "SIOCGIFINDEX")
  /\ fds' = fds + 1
  /\ UNCHANGED <<caps, orig_flags, flags, raced>>

nameAndBind ==
  /\ opens("SIOCGIFINDEX", "bind") \/ opens("bind", "SIOCGIFFLAGS")
  /\ UNCHANGED <<fds, caps, orig_flags, flags, raced>>

getFlagsDropping ==
  /\ opens("SIOCGIFFLAGS", "SIOCSIFFLAGS")
  /\ orig_flags' = flags /\ raced' = {}
  /\ caps' = caps \ Both
  /\ UNCHANGED <<fds, flags>>
getFlags ==
  /\ opens("SIOCGIFFLAGS", "SIOCSIFFLAGS")
  /\ orig_flags' = flags /\ raced' = {}
  /\ UNCHANGED <<fds, caps, flags>>

promiscOnly == {"PROMISC"}
promisc == orig_flags \cup {"PROMISC"}

setFlags ==
  /\ opens("SIOCSIFFLAGS", "drop")
  /\ flags' = promisc
  /\ UNCHANGED <<fds, caps, orig_flags, raced>>

\* A call fails: whatever was opened is closed, and main() returns 1.
fdsAfterFailureLeaking == IF at = "bind" THEN fds ELSE 0
fdsAfterFailure == IF at = "socket" THEN fds ELSE fds - 1

openFails ==
  /\ at \in OpenCalls
  /\ fault \/ (refused(at) /\ UNCHANGED faults)
  /\ at' = "failed" /\ fds' = fdsAfterFailure
  /\ UNCHANGED <<caps, orig_flags, granted, runs, hostVars>>

\* A failure to read or to set the capabilities is only logged.
dropCapabilities ==
  /\ at = "drop" /\ at' = "construct"
  /\ \/ caps' = caps \ Both /\ UNCHANGED faults
     \/ fault /\ UNCHANGED caps
  /\ UNCHANGED <<fds, orig_flags, granted, runs, hostVars>>

\* RING_BUFFER_CAPACITY and the packet buffer, whose exceptions nobody
\* catches; then the publisher's connection, without which main() returns 1.
mainStarts ==
  /\ \/ /\ at = "construct"
        /\ \/ at' = "connect" /\ UNCHANGED <<fds, faults>>
           \/ at' = "crashed" /\ fault /\ fds' = 0
     \/ /\ at = "connect"
        /\ \/ at' = "running" /\ UNCHANGED faults
           \/ at' = "giveUp" /\ fault
        /\ UNCHANGED fds
     \/ /\ at = "running" /\ at' = "close"
        /\ UNCHANGED <<fds, faults>>
  /\ UNCHANGED <<caps, orig_flags, granted, runs, hostVars>>

\* The flags go back to what they were, if that is still allowed; a failure
\* is only logged, and so is that the engine "stopped cleanly".
closeRawSocket ==
  /\ at \in {"giveUp", "close"}
  /\ at' = IF at = "close" THEN "stopped" ELSE "exit1"
  /\ fds' = fds - 1
  /\ \/ ~refused("SIOCSIFFLAGS") /\ flags' = orig_flags /\ UNCHANGED faults
     \/ refused("SIOCSIFFLAGS") /\ UNCHANGED <<flags, faults>>
     \/ fault /\ UNCHANGED flags
  /\ UNCHANGED <<caps, orig_flags, granted, runs, changes, raced, wanted>>
-----------------------------------------------------------------------------
kill ==
  /\ at \notin Ended
  /\ at' = "killed" /\ fds' = 0
  /\ UNCHANGED <<caps, orig_flags, granted, faults, runs, hostVars>>

restart ==
  /\ at \in Ended /\ runs < MaxRuns
  /\ at' = "socket" /\ fds' = 0 /\ orig_flags' = {}
  /\ granted' \in SUBSET Both /\ caps' = granted'
  /\ faults' = 0 /\ runs' = runs + 1
  /\ UNCHANGED hostVars

othersChange ==
  /\ changes < MaxChanges /\ changes' = changes + 1
  /\ \E x \in Flags :
       LET put(s) == IF x \in flags THEN s \ {x} ELSE s \cup {x}
       IN flags' = put(flags) /\ wanted' = put(wanted) /\ raced' = raced \cup {x}
  /\ UNCHANGED processVars

SocketNext ==
  \/ socketCall \/ nameAndBind \/ getFlags \/ setFlags \/ openFails
  \/ dropCapabilities \/ mainStarts \/ closeRawSocket
  \/ kill \/ restart \/ othersChange

SocketSpec == SocketInit /\ [][SocketNext]_socketVars
-----------------------------------------------------------------------------
\* The packet socket is open exactly while somebody is going to close it:
\* every way out of openRawSocket and of main() closes it once.
DescriptorOwned ==
  fds = IF at \in Ended \cup {"socket"} THEN 0 ELSE 1

\* With both capabilities, and no call that fails by itself, the engine gets
\* its socket: it does not drop a capability before it has used it.
FailsOnlyForCause == at = "failed" => faults > 0 \/ granted # Both

\* The engine changes no flag but IFF_PROMISC, except to undo what others
\* have done since it read the flags: reading and setting are two calls, and
\* closeRawSocket sets what openRawSocket had read.
ChangesOnlyPromisc ==
  [][changes' = changes =>
       (flags \ flags') \cup (flags' \ flags) \subseteq {"PROMISC"} \cup raced]_socketVars

\* "Engine stopped cleanly" (main.cpp), after "Promiscuous mode cleared"
\* (raw_socket.cpp): the interface is as it would be without the engine.
StoppedCleanly == at = "stopped" => flags = wanted
=============================================================================
