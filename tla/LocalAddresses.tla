--------------------------- MODULE LocalAddresses ---------------------------
(***************************************************************************)
(* getLocalIps (capture/raw_socket.cpp), which the pipeline thread calls   *)
(* once, while interfaces come, go and change their addresses.             *)
(*                                                                         *)
(* The host is a function from the interfaces that have an IPv4 address to *)
(* that address, where 0 is INADDR_ANY.  SIOCGIFCONF fills the buffer with *)
(* their names and says how many it wrote; SIOCGIFADDR asks for one.       *)
(***************************************************************************)
EXTENDS Naturals, FiniteSets, Sequences, Functions

CONSTANTS
  Names,         \* interfaces there may be
  Addresses,     \* addresses there may be
  InitialSlots,  \* struct ifreq slots of the first buffer, 16 in the code
  MaxEdits       \* bound: changes of the host during the call

ASSUME AddressAssumption ==
  /\ Cardinality(Names) \in Nat /\ Addresses \subseteq Nat
  /\ InitialSlots \in Nat \ {0} /\ MaxEdits \in Nat

VARIABLES
  host, edits,
  asking,   \* the call getLocalIps is at
  slots,    \* the size of buf
  ifaces,   \* the names in buf
  ips,      \* the set that it returns
  ok,       \* no call has failed
  always,   \* history: what the host has had since the call began
  ever      \* history: what it has had at some time since

addressVars == <<host, edits, asking, slots, ifaces, ips, ok, always, ever>>

pairs(h) == {<<n, h[n]>> : n \in DOMAIN h}

AddressInit ==
  /\ \E s \in SUBSET Names : host \in [s -> Addresses]
  /\ always = pairs(host) /\ ever = pairs(host) /\ edits = 0
  /\ asking = "socket" /\ slots = InitialSlots
  /\ ifaces = <<>> /\ ips = {} /\ ok = TRUE
-----------------------------------------------------------------------------
\* The probe socket or SIOCGIFCONF fails: the set is empty.
callFails ==
  /\ asking \in {"socket", "SIOCGIFCONF"}
  /\ asking' = "returned" /\ ok' = FALSE
  /\ UNCHANGED <<host, edits, slots, ifaces, ips, always, ever>>

probeSocket ==
  /\ asking = "socket" /\ asking' = "SIOCGIFCONF"
  /\ UNCHANGED <<host, edits, slots, ifaces, ips, ok, always, ever>>

\* A buffer that came back full may have been too small for the list.
fitsExactly(n) == n <= slots
fits(n) == n < slots

slotsGrownNot == slots
slotsGrown == 2 * slots

\* The kernel lists the interfaces in any order.
listings(names) ==
  {l \in UNION {[1..n -> names] : n \in 0..Cardinality(Names)} :
     Range(l) = names /\ IsInjective(l)}

listInterfaces ==
  /\ asking = "SIOCGIFCONF"
  /\ \E list \in listings(DOMAIN host) :
       LET n == IF Len(list) <= slots THEN Len(list) ELSE slots
       IN IF fits(n)
          THEN /\ ifaces' = SubSeq(list, 1, n)
               /\ asking' = "SIOCGIFADDR" /\ UNCHANGED slots
          ELSE slots' = slotsGrown /\ UNCHANGED <<ifaces, asking>>
  /\ UNCHANGED <<host, edits, ips, ok, always, ever>>

\* The address of the next name in the buffer, if it still has one.
askAddress ==
  /\ asking = "SIOCGIFADDR"
  /\ IF ifaces = <<>>
     THEN asking' = "returned" /\ UNCHANGED <<ifaces, ips>>
     ELSE /\ ifaces' = Tail(ifaces)
          /\ ips' = IF Head(ifaces) \in DOMAIN host
                    THEN ips \cup ({host[Head(ifaces)]} \ {0}) ELSE ips
          /\ UNCHANGED asking
  /\ UNCHANGED <<host, edits, slots, ok, always, ever>>

\* SIOCGIFADDR fails: the interface is left out.
askFails ==
  /\ asking = "SIOCGIFADDR" /\ ifaces # <<>>
  /\ ifaces' = Tail(ifaces) /\ ok' = FALSE
  /\ UNCHANGED <<host, edits, asking, slots, ips, always, ever>>

getLocalIps ==
  callFails \/ probeSocket \/ listInterfaces \/ askAddress \/ askFails

\* An interface gets an address, gets another one, or loses it.
hostChanges ==
  /\ asking # "returned" /\ edits < MaxEdits
  /\ edits' = edits + 1
  /\ \E n \in Names :
       \/ \E a \in Addresses :
            host' = [m \in DOMAIN host \cup {n} |-> IF m = n THEN a ELSE host[m]]
       \/ n \in DOMAIN host /\ host' = [m \in DOMAIN host \ {n} |-> host[m]]
  /\ always' = always \cap pairs(host')
  /\ ever' = ever \cup pairs(host')
  /\ UNCHANGED <<asking, slots, ifaces, ips, ok>>

AddressNext == getLocalIps \/ hostChanges
AddressSpec == AddressInit /\ [][AddressNext]_addressVars

\* What fairness is assumed of: the thread is scheduled and its calls return,
\* but none of them has to fail.
answered == probeSocket \/ listInterfaces \/ askAddress
-----------------------------------------------------------------------------
\* The set has nothing that was not there at some time during the call and,
\* unless a call fails, every address that an interface kept during the call,
\* however many there are, although the list and the addresses are read one
\* after the other.
BetweenAlwaysAndEver ==
  asking = "returned" =>
    /\ ok => {p[2] : p \in always} \ {0} \subseteq ips
    /\ ips \subseteq {p[2] : p \in ever} \ {0}

\* The buffer grows until the list fits, so the call returns.
AddressesReturned == asking = "SIOCGIFCONF" ~> asking = "returned"
=============================================================================
