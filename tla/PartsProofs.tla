---------------------------- MODULE PartsProofs -----------------------------
(***************************************************************************)
(* The parts that share no state with the engine's loops or each other,    *)
(* each for all values of its constants.                                   *)
(***************************************************************************)
EXTENDS Checksum, RawSocket, LocalAddresses, BrokerTopology,
        WellFoundedInduction, TLAPS
-----------------------------------------------------------------------------
\* The raw socket, for any number of processes, failing calls and changes by
\* others: the packet socket is closed once on every way out, openRawSocket
\* fails only for a cause, and the engine changes no flag but IFF_PROMISC that
\* others have not changed since it read them.

\* The calls before the one that reads the interface's flags.
Unread == {"socket", "SIOCGIFINDEX", "bind", "SIOCGIFFLAGS"}
Steps == OpenCalls \cup {"drop", "construct", "connect", "running", "giveUp",
                         "close"} \cup Ended

difference(s, t) == (s \ t) \cup (t \ s)

\* The inductive invariant: until dropCapabilities the process has what it was
\* granted, and from SIOCGIFFLAGS to the end the flags are those it read but
\* for IFF_PROMISC and what others have changed since.
SocketInv ==
  /\ at \in Steps /\ faults \in Nat
  /\ DescriptorOwned
  /\ at \in OpenCalls => caps = granted
  /\ FailsOnlyForCause
  /\ at \notin Unread \cup Ended =>
       difference(flags, orig_flags) \subseteq {"PROMISC"} \cup raced

\* The first process has done nothing yet.
LEMMA SocketInvInit == SocketInit => SocketInv
BY DEF SocketInit, SocketInv, Steps, OpenCalls, Unread, Ended,
       DescriptorOwned, FailsOnlyForCause

\* Each call of openRawSocket keeps the invariant, whether it succeeds or not.
LEMMA OpenStepInv ==
  ASSUME SocketInv,
         socketCall \/ nameAndBind \/ getFlags \/ setFlags \/ openFails
  PROVE  SocketInv'
<1> USE DEF SocketInv, Steps, OpenCalls, Unread, Ended, DescriptorOwned,
            FailsOnlyForCause
<1>1. CASE socketCall
  BY <1>1 DEF socketCall, opens
<1>2. CASE nameAndBind
  BY <1>2 DEF nameAndBind, opens
<1>3. CASE getFlags
  BY <1>3 DEF getFlags, opens, difference
<1>4. CASE setFlags
  BY <1>4 DEF setFlags, opens, promisc, difference
<1>5. CASE openFails
  <2>1. at' = "failed" /\ fds' = 0
    BY <1>5 DEF openFails, fdsAfterFailure
  <2>2. faults' \in Nat /\ (faults' > 0 \/ granted' # Both)
    BY <1>5 DEF openFails, fault, refused, Both
  <2> QED
    BY <2>1, <2>2
<1> QED
  BY <1>1, <1>2, <1>3, <1>4, <1>5, Zenon

\* So does each step of main(), killing and restarting the process included.
LEMMA MainStepInv ==
  ASSUME SocketInv,
         \/ dropCapabilities \/ mainStarts \/ closeRawSocket
         \/ kill \/ restart
  PROVE  SocketInv'
<1> USE DEF SocketInv, Steps, OpenCalls, Unread, Ended, DescriptorOwned,
            FailsOnlyForCause, hostVars, difference
<1>1. CASE dropCapabilities
  BY <1>1 DEF dropCapabilities, fault
<1>2. CASE mainStarts
  BY <1>2 DEF mainStarts, fault
<1>3. CASE closeRawSocket
  BY <1>3 DEF closeRawSocket, fault
<1>4. CASE kill
  BY <1>4, Zenon DEF kill
<1>5. CASE restart
  BY <1>5, Zenon DEF restart
<1> QED
  BY <1>1, <1>2, <1>3, <1>4, <1>5, Zenon

\* What others change is in raced from then on.
LEMMA OthersInv ==
  ASSUME SocketInv, othersChange
  PROVE  SocketInv'
<1>1. UNCHANGED processVars
  BY DEF othersChange
<1>2. PICK x \in Flags :
        /\ flags' = IF x \in flags THEN flags \ {x} ELSE flags \cup {x}
        /\ raced' = raced \cup {x}
  BY Zenon DEF othersChange
<1>3. difference(flags', orig_flags') \subseteq difference(flags, orig_flags) \cup {x}
  BY <1>1, <1>2 DEF processVars, difference
<1> QED
  BY <1>1, <1>2, <1>3 DEF SocketInv, processVars, DescriptorOwned,
                          FailsOnlyForCause, difference

\* Every behaviour of the engine and of those that share the interface
\* satisfies the inductive invariant.
THEOREM SocketInvariant == SocketSpec => []SocketInv
<1>1. SocketInv /\ [SocketNext]_socketVars => SocketInv'
  <2> SUFFICES ASSUME SocketInv, [SocketNext]_socketVars PROVE SocketInv'
    OBVIOUS
  <2>1. CASE SocketNext
    BY <2>1, OpenStepInv, MainStepInv, OthersInv DEF SocketNext
  <2>2. CASE UNCHANGED socketVars
    BY <2>2 DEF socketVars, processVars, hostVars, SocketInv, DescriptorOwned,
                FailsOnlyForCause, difference
  <2> QED
    BY <2>1, <2>2
<1> QED
  BY <1>1, SocketInvInit, PTL DEF SocketSpec

\* The packet socket is open exactly while somebody is going to close it, on
\* every path through openRawSocket and main().
THEOREM SocketDescriptorOwned == SocketSpec => []DescriptorOwned
<1>1. SocketInv => DescriptorOwned
  BY DEF SocketInv
<1> QED
  BY <1>1, SocketInvariant, PTL

\* openRawSocket fails only because a call does or a capability is missing.
THEOREM SocketFailsOnlyForCause == SocketSpec => []FailsOnlyForCause
<1>1. SocketInv => FailsOnlyForCause
  BY DEF SocketInv
<1> QED
  BY <1>1, SocketInvariant, PTL

\* No step of the engine changes a flag other than IFF_PROMISC that others
\* have left alone since openRawSocket read the flags.
THEOREM SocketChangesOnlyPromisc == SocketSpec => ChangesOnlyPromisc
<1> DEFINE Kept == changes' = changes =>
             difference(flags, flags') \subseteq {"PROMISC"} \cup raced
<1>1. SocketInv /\ [SocketNext]_socketVars => [Kept]_socketVars
  <2> SUFFICES ASSUME SocketInv, SocketNext PROVE Kept
    OBVIOUS
  <2>1. CASE setFlags
    BY <2>1 DEF setFlags, opens, promisc, SocketInv, Unread, Ended, difference
  <2>2. CASE closeRawSocket
    BY <2>2 DEF closeRawSocket, SocketInv, Unread, Ended, difference
  <2>3. CASE othersChange
    BY <2>3 DEF othersChange
  <2>4. CASE ~setFlags /\ ~closeRawSocket /\ ~othersChange
    <3>1. flags' = flags
      BY <2>4 DEF SocketNext, socketCall, nameAndBind, getFlags, openFails,
                  dropCapabilities, mainStarts, kill, restart, hostVars
    <3> QED
      BY <3>1 DEF difference
  <2> QED
    BY <2>1, <2>2, <2>3, <2>4
<1>2. Kept => (changes' = changes =>
        (flags \ flags') \cup (flags' \ flags) \subseteq {"PROMISC"} \cup raced)
  BY DEF difference
<1> QED
  BY <1>1, <1>2, SocketInvariant, PTL DEF SocketSpec, ChangesOnlyPromisc
-----------------------------------------------------------------------------
\* getLocalIps, while interfaces come and go.

\* What getLocalIps has still to ask for: while it goes through the list, an
\* address that an interface has kept is in the set, or its name in the list.
AddressInv ==
  /\ always \subseteq pairs(host) /\ pairs(host) \subseteq ever
  /\ ips \subseteq {p[2] : p \in ever} \ {0}
  /\ ifaces \in Seq(Names) /\ DOMAIN host \subseteq Names /\ slots \in Nat
  /\ asking \in {"SIOCGIFADDR", "returned"} /\ ok =>
       \A p \in always : \/ p[2] = 0 \/ p[2] \in ips
                         \/ asking = "SIOCGIFADDR" /\ p[1] \in Range(ifaces)

\* What is in a list is its head or in the rest of it.
LEMMA RestOfList ==
  ASSUME NEW S, NEW s \in Seq(S), s # <<>>
  PROVE  /\ Tail(s) \in Seq(S)
         /\ \A x \in Range(s) : x = Head(s) \/ x \in Range(Tail(s))
<1>1. Tail(s) \in Seq(S) /\ Len(s) \in Nat /\ Len(s) > 0 /\ Head(s) = s[1]
  OBVIOUS
<1>2. ASSUME NEW k \in DOMAIN s, k # 1
      PROVE  s[k] \in Range(Tail(s))
  <2>1. k - 1 \in DOMAIN Tail(s) /\ Tail(s)[k - 1] = s[k]
    BY <1>1, <1>2
  <2> QED
    BY <2>1 DEF Range
<1> QED
  BY <1>1, <1>2 DEF Range

\* The list that the kernel writes into a buffer with room to spare has every
\* name.
LEMMA WholeList ==
  ASSUME NEW names \in SUBSET Names, NEW list \in listings(names),
         NEW n, n = IF Len(list) <= slots THEN Len(list) ELSE slots, fits(n),
         slots \in Nat
  PROVE  SubSeq(list, 1, n) \in Seq(Names) /\ Range(SubSeq(list, 1, n)) = names
<1>1. PICK m \in 0..Cardinality(Names) : list \in [1..m -> names]
  BY DEF listings
<1>2. list \in Seq(Names) /\ Len(list) \in Nat
  BY <1>1, AddressAssumption
<1>3. n = Len(list)
  BY <1>2 DEF fits
<1>4. SubSeq(list, 1, n) = list
  BY <1>2, <1>3
<1> QED
  BY <1>2, <1>4, Zenon DEF listings

\* Each step of getLocalIps keeps the invariant: with a full list nothing that
\* an interface has kept is missing, and asking for an address moves it from
\* the list to the set.
LEMMA AddressCallStep == AddressInv /\ getLocalIps => AddressInv'
<1> SUFFICES ASSUME AddressInv, getLocalIps PROVE AddressInv'
  OBVIOUS
<1>1. CASE callFails
  BY <1>1 DEF callFails, AddressInv
<1>2. CASE probeSocket
  BY <1>2 DEF probeSocket, AddressInv
<1>3. CASE listInterfaces
  <2>1. PICK list \in listings(DOMAIN host) :
          LET n == IF Len(list) <= slots THEN Len(list) ELSE slots
          IN IF fits(n)
             THEN /\ ifaces' = SubSeq(list, 1, n)
                  /\ asking' = "SIOCGIFADDR" /\ UNCHANGED slots
             ELSE slots' = slotsGrown /\ UNCHANGED <<ifaces, asking>>
    BY <1>3 DEF listInterfaces
  <2> DEFINE n == IF Len(list) <= slots THEN Len(list) ELSE slots
  <2>2. CASE fits(n)
    <3>1. ifaces' \in Seq(Names) /\ Range(ifaces') = DOMAIN host
      <4>1. ifaces' = SubSeq(list, 1, n)
        BY <2>1, <2>2
      <4>2. DOMAIN host \in SUBSET Names /\ slots \in Nat
        BY DEF AddressInv
      <4> HIDE DEF n
      <4>3. n = IF Len(list) <= slots THEN Len(list) ELSE slots
        BY DEF n
      <4>4. SubSeq(list, 1, n) \in Seq(Names) /\ Range(SubSeq(list, 1, n)) = DOMAIN host
        BY <2>2, <4>2, <4>3, WholeList
      <4> QED
        BY <4>1, <4>4
    <3>2. \A p \in always : p[1] \in DOMAIN host
      BY DEF AddressInv, pairs
    <3> QED
      BY <1>3, <2>1, <2>2, <3>1, <3>2 DEF listInterfaces, AddressInv
  <2>3. CASE ~fits(n)
    BY <1>3, <2>1, <2>3 DEF listInterfaces, AddressInv, slotsGrown
  <2> QED
    BY <2>2, <2>3
<1>4. CASE askAddress /\ ifaces = <<>>
  <2>1. Range(ifaces) = {}
    BY <1>4 DEF Range
  <2> QED
    BY <1>4, <2>1, Zenon DEF askAddress, AddressInv
<1>5. CASE askAddress /\ ifaces # <<>>
  <2>1. /\ ifaces' \in Seq(Names)
        /\ \A x \in Range(ifaces) : x = Head(ifaces) \/ x \in Range(ifaces')
    BY <1>5, RestOfList, Zenon DEF askAddress, AddressInv
  <2>2. ips' \subseteq {p[2] : p \in ever} \ {0}
    <3>1. ASSUME Head(ifaces) \in DOMAIN host
          PROVE  host[Head(ifaces)] \in {p[2] : p \in ever}
      <4>1. <<Head(ifaces), host[Head(ifaces)]>> \in ever
        BY <3>1 DEF AddressInv, pairs
      <4> QED
        BY <4>1
    <3> QED
      BY <1>5, <3>1 DEF askAddress, AddressInv
  <2>3. ASSUME NEW p \in always, p[1] = Head(ifaces)
        PROVE  p[2] = 0 \/ p[2] \in ips'
    BY <1>5, <2>3 DEF askAddress, AddressInv, pairs
  <2>4. ips \subseteq ips'
    BY <1>5 DEF askAddress
  <2> QED
    BY <1>5, <2>1, <2>2, <2>3, <2>4 DEF askAddress, AddressInv
<1>6. CASE askFails
  BY <1>6, RestOfList, Zenon DEF askFails, AddressInv
<1> QED
  BY <1>1, <1>2, <1>3, <1>4, <1>5, <1>6 DEF getLocalIps

\* A change of the host takes from what it has always had, and adds to what it
\* has had at some time.
LEMMA HostStep == AddressInv /\ hostChanges => AddressInv'
<1> SUFFICES ASSUME AddressInv, hostChanges PROVE AddressInv'
  OBVIOUS
<1>1. DOMAIN host' \subseteq Names
  BY DEF hostChanges, AddressInv
<1>2. ips' \subseteq {p[2] : p \in ever'} \ {0}
  BY DEF hostChanges, AddressInv
<1> QED
  BY <1>1, <1>2 DEF hostChanges, AddressInv

\* However many interfaces there are and however they change meanwhile: what
\* getLocalIps returns lies between the addresses that were there all the time
\* and those that were there at some time.
THEOREM AddressesBetween == AddressSpec => []BetweenAlwaysAndEver
<1>1. AddressInit => AddressInv
  BY AddressAssumption DEF AddressInit, AddressInv, pairs
<1>2. AddressInv /\ [AddressNext]_addressVars => AddressInv'
  <2> SUFFICES ASSUME AddressInv, [AddressNext]_addressVars PROVE AddressInv'
    OBVIOUS
  <2>1. CASE UNCHANGED addressVars
    BY <2>1, Zenon DEF addressVars, AddressInv, pairs
  <2> QED
    BY <2>1, AddressCallStep, HostStep DEF AddressNext
<1>3. AddressInv => BetweenAlwaysAndEver
  BY DEF AddressInv, BetweenAlwaysAndEver
<1> QED
  BY <1>1, <1>2, <1>3, PTL DEF AddressSpec
-----------------------------------------------------------------------------
\* The queues of the broker, with any limits.

Message == [id : Nat, size : Sizes, since : Nat]
ids(queue) == {m.id : m \in Range(queue)}
failed(c) == c["raw_packets.failed"]

\* Where the messages are: in two queues, consumed or gone.
shared(w, f, taken, lost, n) ==
  /\ ids(w) \cup ids(f) \cup taken \cup lost = 1..n
  /\ ids(w) \cap ids(f) = {} /\ ids(w) \cap taken = {} /\ ids(w) \cap lost = {}
  /\ ids(f) \cap taken = {} /\ ids(f) \cap lost = {} /\ taken \cap lost = {}

\* The inductive invariant: in addition to where the messages are, the order
\* that keeps the head of raw_packets.spring apart from the rest of it.
TopologyInv ==
  /\ content \in [Queues -> Seq(Message)] /\ clock \in Nat /\ published \in Nat
  /\ shared(spring(content), failed(content), consumed, gone, published)
  /\ inOrder(failed(content), spring(content))

\* The identifiers in a queue, by position.
LEMMA IdsAt ==
  ASSUME NEW q \in Seq(Message)
  PROVE  \A x : x \in ids(q) <=> \E k \in 1..Len(q) : x = q[k].id
<1>1. DOMAIN q = 1..Len(q)
  OBVIOUS
<1> QED
  BY <1>1, Zenon DEF ids, Range

\* What a queue holds are messages.
LEMMA MessageAt ==
  ASSUME NEW q \in Seq(Message)
  PROVE  /\ Len(q) \in Nat /\ DOMAIN q = 1..Len(q)
         /\ \A k \in 1..Len(q) : q[k] \in Message /\ q[k].id \in Nat
<1>1. Len(q) \in Nat /\ DOMAIN q = 1..Len(q) /\ \A k \in 1..Len(q) : q[k] \in Message
  OBVIOUS
<1>2. \A m \in Message : m.id \in Nat
  BY DEF Message
<1> QED
  BY <1>1, <1>2

\* Identifiers are numbers.
LEMMA IdsNat ==
  ASSUME NEW q \in Seq(Message)
  PROVE  ids(q) \subseteq Nat
BY IdsAt, MessageAt

\* A function on 1..d is a sequence of length d.
LEMMA SeqOf ==
  ASSUME NEW S, NEW d \in Nat, NEW s \in [1..d -> S]
  PROVE  s \in Seq(S) /\ Len(s) = d
OBVIOUS

\* One sequence after another, element by element.
LEMMA Joined ==
  ASSUME NEW S, NEW q \in Seq(S), NEW r \in Seq(S)
  PROVE  /\ q \o r \in Seq(S) /\ Len(q \o r) = Len(q) + Len(r)
         /\ Len(q) \in Nat /\ DOMAIN q = 1..Len(q) /\ Len(r) \in Nat
         /\ DOMAIN (q \o r) = 1..(Len(q) + Len(r))
         /\ \A k \in 1..Len(q) : (q \o r)[k] = q[k]
         /\ \A k \in 1..Len(r) : (q \o r)[Len(q) + k] = r[k]
OBVIOUS

\* A queue after another has the messages of both.
LEMMA JoinedIds ==
  ASSUME NEW q \in Seq(Message), NEW r \in Seq(Message)
  PROVE  q \o r \in Seq(Message) /\ ids(q \o r) = ids(q) \cup ids(r)
<1>1. /\ q \o r \in Seq(Message) /\ Len(q \o r) = Len(q) + Len(r)
      /\ Len(q) \in Nat /\ Len(r) \in Nat
      /\ \A k \in 1..Len(q) : (q \o r)[k] = q[k]
      /\ \A k \in 1..Len(r) : (q \o r)[Len(q) + k] = r[k]
  BY Joined
<1>2. /\ \A x : x \in ids(q) <=> \E k \in 1..Len(q) : x = q[k].id
      /\ \A x : x \in ids(r) <=> \E k \in 1..Len(r) : x = r[k].id
      /\ \A x : x \in ids(q \o r) <=> \E k \in 1..Len(q \o r) : x = (q \o r)[k].id
  BY <1>1, IdsAt, Zenon
<1>3. ASSUME NEW x \in ids(q \o r) PROVE x \in ids(q) \cup ids(r)
  <2>1. PICK k \in 1..Len(q \o r) : x = (q \o r)[k].id
    BY <1>2, <1>3
  <2>2. CASE k <= Len(q)
    BY <1>1, <1>2, <2>1, <2>2
  <2>3. CASE k > Len(q)
    <3>1. k - Len(q) \in 1..Len(r) /\ Len(q) + (k - Len(q)) = k
      BY <1>1, <2>1, <2>3
    <3>2. (q \o r)[k] = r[k - Len(q)]
      BY <1>1, <3>1
    <3> QED
      BY <1>2, <2>1, <3>1, <3>2
  <2> QED
    BY <1>1, <2>1, <2>2, <2>3
<1>4. ASSUME NEW x \in ids(q) PROVE x \in ids(q \o r)
  <2>1. PICK k \in 1..Len(q) : x = q[k].id
    BY <1>2, <1>4
  <2>2. k \in 1..Len(q \o r) /\ (q \o r)[k] = q[k]
    BY <1>1
  <2> QED
    BY <1>2, <2>1, <2>2
<1>5. ASSUME NEW x \in ids(r) PROVE x \in ids(q \o r)
  <2>1. PICK k \in 1..Len(r) : x = r[k].id
    BY <1>2, <1>5
  <2>2. Len(q) + k \in 1..Len(q \o r) /\ (q \o r)[Len(q) + k] = r[k]
    BY <1>1
  <2> QED
    BY <1>2, <2>1, <2>2
<1> QED
  BY <1>1, <1>3, <1>4, <1>5

\* What is left of a sequence without its first d elements.
LEMMA RestOfQueue ==
  ASSUME NEW S, NEW s \in Seq(S), NEW d \in 0..Len(s)
  PROVE  LET r == SubSeq(s, d + 1, Len(s))
         IN /\ r \in Seq(S) /\ Len(r) = Len(s) - d /\ DOMAIN r = 1..(Len(s) - d)
            /\ \A k \in 1..(Len(s) - d) : r[k] = s[d + k]
<1>1. Len(s) \in Nat
  OBVIOUS
<1>2. SubSeq(s, d + 1, Len(s)) \in Seq(S)
  BY <1>1
<1>3. Len(SubSeq(s, d + 1, Len(s))) = Len(s) - d
  BY <1>1
<1>4. \A k \in 1..(Len(s) - d) : SubSeq(s, d + 1, Len(s))[k] = s[d + k]
  BY <1>1
<1>5. DOMAIN SubSeq(s, d + 1, Len(s)) = 1..Len(SubSeq(s, d + 1, Len(s)))
  BY <1>2
<1> QED
  BY <1>2, <1>3, <1>4, <1>5

\* A queue in order, cut: the first part is older than the second, together
\* they have all its messages, and the second is in order.
LEMMA CutIds ==
  ASSUME NEW q \in Seq(Message), NEW d \in 0..Len(q), clock \in Nat,
         \A j, k \in DOMAIN q : j < k => q[j].id < q[k].id,
         NEW a, a = stamped(SubSeq(q, 1, d)), NEW b, b = without(q, d)
  PROVE  /\ a \in Seq(Message) /\ b \in Seq(Message)
         /\ ids(a) \cup ids(b) = ids(q)
         /\ \A x \in ids(a), y \in ids(b) : x < y
         /\ \A j, k \in DOMAIN b : j < k => b[j].id < b[k].id
         /\ \A x : x \in ids(a) <=> \E k \in 1..d : x = q[k].id
<1> DEFINE n == Len(q)
<1>1. n \in Nat /\ d \in Nat /\ d <= n /\ DOMAIN q = 1..n
      /\ \A k \in 1..n : q[k] \in Message /\ q[k].id \in Nat
  BY MessageAt
<1>2. /\ DOMAIN SubSeq(q, 1, d) = 1..d
      /\ \A k \in 1..d : SubSeq(q, 1, d)[k] = q[k]
  BY <1>1
<1>3. /\ b \in Seq(Message) /\ Len(b) = n - d /\ DOMAIN b = 1..(n - d)
      /\ \A k \in 1..(n - d) : b[k] = q[d + k]
  <2>1. b = SubSeq(q, d + 1, n)
    BY DEF without
  <2> QED
    BY <2>1, RestOfQueue
<1>4. /\ a \in Seq(Message) /\ Len(a) = d
      /\ \A k \in 1..d : a[k].id = q[k].id
  <2>1. a = [k \in 1..d |-> [q[k] EXCEPT !.since = clock]]
    BY <1>2, Zenon DEF stamped
  <2>2. \A m \in Message : /\ [m EXCEPT !.since = clock] \in Message
                           /\ [m EXCEPT !.since = clock].id = m.id
    BY Zenon DEF Message
  <2>3. \A k \in 1..d : /\ a[k] = [q[k] EXCEPT !.since = clock]
                        /\ q[k] \in Message
    BY <1>1, <2>1
  <2>4. \A k \in 1..d : a[k] \in Message /\ a[k].id = q[k].id
    BY <2>2, <2>3, Zenon
  <2>5. a \in [1..d -> Message]
    BY <2>1, <2>4
  <2> QED
    BY <1>1, <2>4, <2>5
<1> HIDE DEF n
<1>5. \A x : x \in ids(a) <=> \E k \in 1..d : x = q[k].id
  <2>1. \A x : x \in ids(a) <=> \E k \in 1..Len(a) : x = a[k].id
    BY <1>4, IdsAt, Zenon
  <2> QED
    BY <1>4, <2>1
<1>6. \A x : x \in ids(b) <=> \E k \in 1..(n - d) : x = q[d + k].id
  <2>1. \A x : x \in ids(b) <=> \E k \in 1..Len(b) : x = b[k].id
    BY <1>3, IdsAt, Zenon
  <2> QED
    BY <1>3, <2>1
<1>7. \A x : x \in ids(q) <=> \E k \in 1..n : x = q[k].id
  BY IdsAt, Zenon DEF n
<1>8. ASSUME NEW x \in ids(q) PROVE x \in ids(a) \cup ids(b)
  <2>1. PICK k \in 1..n : x = q[k].id
    BY <1>7
  <2>2. CASE k <= d
    BY <1>1, <1>5, <2>1, <2>2
  <2>3. CASE k > d
    <3>1. k - d \in 1..(n - d) /\ d + (k - d) = k
      BY <1>1, <2>1, <2>3
    <3> QED
      BY <1>6, <2>1, <3>1
  <2> QED
    BY <1>1, <2>1, <2>2, <2>3
<1>9. \A k \in 1..d : k \in 1..n
  BY <1>1
<1>10. \A k \in 1..(n - d) : d + k \in 1..n
  BY <1>1
<1>11. ids(a) \cup ids(b) = ids(q)
  BY <1>5, <1>6, <1>7, <1>8, <1>9, <1>10
<1>12. \A j \in 1..d, k \in 1..(n - d) : q[j].id < q[d + k].id
  <2>1. \A j \in 1..d, k \in 1..(n - d) : j < d + k
    BY <1>1
  <2> QED
    BY <1>1, <1>9, <1>10, <2>1, Zenon
<1>13. \A x \in ids(a), y \in ids(b) : x < y
  BY <1>5, <1>6, <1>12
<1>14. \A j, k \in DOMAIN b : j < k => b[j].id < b[k].id
  <2> SUFFICES ASSUME NEW j \in 1..(n - d), NEW k \in 1..(n - d), j < k
               PROVE  b[j].id < b[k].id
    BY <1>3, Zenon
  <2>1. d + j \in DOMAIN q /\ d + k \in DOMAIN q /\ d + j < d + k
    BY <1>1, <1>10
  <2>2. q[d + j].id < q[d + k].id
    BY <2>1
  <2> QED
    BY <1>3, <2>2
<1> QED
  BY <1>3, <1>4, <1>5, <1>11, <1>13, <1>14

\* The two exchanges lead to the two queues.
LEMMA Routes ==
  /\ route("raw_packets", routing_key) = {"raw_packets.spring"}
  /\ route("raw_packets.dead_letter", routing_key) = {"raw_packets.failed"}
<1>1. /\ exchangeType["raw_packets"] = "direct"
      /\ exchangeType["raw_packets.dead_letter"] = "fanout"
  BY DEF exchangeType
<1>2. \A x, y, z : LET b == bound(x, y, z)
                   IN b.source = x /\ b.queue = y /\ b.key = z
  BY DEF bound
<1>3. route("raw_packets", routing_key) = {"raw_packets.spring"}
  BY <1>1, <1>2 DEF route, bindings, routing_key
<1>4. route("raw_packets.dead_letter", routing_key) = {"raw_packets.failed"}
  BY <1>1, <1>2 DEF route, bindings, routing_key
<1> QED
  BY <1>3, <1>4

\* What becomes of the two queues when d messages are dead lettered.
LEMMA DeadLettered ==
  ASSUME NEW c \in [Queues -> Seq(Message)], NEW d
  PROVE  LET e == deadLetter(c, d)
         IN /\ DOMAIN e = Queues
            /\ spring(e) = without(spring(c), d)
            /\ failed(e) = failed(c) \o stamped(SubSeq(spring(c), 1, d))
BY Routes DEF deadLetter, through, spring, failed, Queues

\* What becomes of them when the exchange takes a message.
LEMMA Added ==
  ASSUME NEW c \in [Queues -> Seq(Message)], NEW m
  PROVE  LET e == through(c, "raw_packets", <<m>>)
         IN /\ DOMAIN e = Queues
            /\ spring(e) = spring(c) \o stamped(<<m>>)
            /\ failed(e) = failed(c)
BY Routes DEF through, spring, failed, Queues

\* The queues of the invariant, one by one.
LEMMA QueuesOf ==
  ASSUME NEW c
  PROVE  c \in [Queues -> Seq(Message)] <=>
           /\ c = [q \in Queues |-> c[q]]
           /\ spring(c) \in Seq(Message) /\ failed(c) \in Seq(Message)
BY DEF Queues, spring, failed

\* Dead-lettering the first d messages of raw_packets.spring loses none and
\* keeps the order.
LEMMA CutQueues ==
  ASSUME NEW w \in Seq(Message), NEW f \in Seq(Message), NEW d \in 0..Len(w),
         NEW taken, NEW lost, NEW n, clock \in Nat,
         shared(w, f, taken, lost, n), inOrder(f, w)
  PROVE  LET w2 == without(w, d)
             f2 == f \o stamped(SubSeq(w, 1, d))
         IN /\ w2 \in Seq(Message) /\ f2 \in Seq(Message)
            /\ shared(w2, f2, taken, lost, n) /\ inOrder(f2, w2)
<1> DEFINE a == stamped(SubSeq(w, 1, d))
           b == without(w, d)
<1>1. \A j, k \in DOMAIN w : j < k => w[j].id < w[k].id
  BY DEF inOrder
<1>2. /\ a \in Seq(Message) /\ b \in Seq(Message)
      /\ ids(a) \cup ids(b) = ids(w)
      /\ \A x \in ids(a), y \in ids(b) : x < y
      /\ \A j, k \in DOMAIN b : j < k => b[j].id < b[k].id
  <2> HIDE DEF a, b
  <2>1. a = stamped(SubSeq(w, 1, d)) /\ b = without(w, d)
    BY DEF a, b
  <2> QED
    BY <1>1, <2>1, CutIds
<1> HIDE DEF a, b
<1>3. f \o a \in Seq(Message) /\ ids(f \o a) = ids(f) \cup ids(a)
  BY <1>2, JoinedIds
<1>4. ids(a) \subseteq Nat /\ ids(b) \subseteq Nat
  BY <1>2, IdsNat
<1>5. ids(a) \cap ids(b) = {}
  BY <1>2, <1>4
<1>6. shared(b, f \o a, taken, lost, n)
  BY <1>2, <1>3, <1>5, Zenon DEF shared
<1>7. \A x \in ids(f), y \in ids(w) : x < y
  BY DEF inOrder, ids
<1>8. \A x \in ids(f \o a), y \in ids(b) : x < y
  BY <1>2, <1>3, <1>7
<1>9. inOrder(f \o a, b)
  BY <1>2, <1>8 DEF inOrder, ids
<1> QED
  BY <1>2, <1>3, <1>6, <1>9 DEF a, b

\* A new message goes to the end of raw_packets.spring.
LEMMA AddToQueues ==
  ASSUME NEW w \in Seq(Message), NEW f \in Seq(Message),
         NEW taken, NEW lost, NEW n \in Nat, clock \in Nat,
         NEW m \in Message, m.id = n + 1,
         shared(w, f, taken, lost, n), inOrder(f, w)
  PROVE  LET w2 == w \o stamped(<<m>>)
         IN /\ w2 \in Seq(Message)
            /\ shared(w2, f, taken, lost, n + 1) /\ inOrder(f, w2)
<1> DEFINE s == stamped(<<m>>)
<1>1. s \in Seq(Message) /\ Len(s) = 1 /\ s[1].id = n + 1
  <2>1. s = [k \in 1..1 |-> [m EXCEPT !.since = clock]]
    BY DEF stamped
  <2>2. [m EXCEPT !.since = clock] \in Message /\ [m EXCEPT !.since = clock].id = n + 1
    BY DEF Message
  <2> HIDE DEF s
  <2>3. s \in [1..1 -> Message]
    BY <2>1, <2>2
  <2>4. s \in Seq(Message) /\ Len(s) = 1
    BY <2>3, SeqOf, 1 \in Nat, Zenon
  <2>5. s[1] = [m EXCEPT !.since = clock]
    BY <2>1
  <2> QED
    BY <2>2, <2>4, <2>5, Zenon
<1> HIDE DEF s
<1>2. ids(s) = {n + 1}
  <2>1. \A x : x \in ids(s) <=> \E k \in 1..Len(s) : x = s[k].id
    BY <1>1, IdsAt, Zenon
  <2> QED
    BY <1>1, <2>1
<1>3. w \o s \in Seq(Message) /\ ids(w \o s) = ids(w) \cup {n + 1}
  BY <1>1, <1>2, JoinedIds
<1>4. /\ \A x \in ids(w) \cup ids(f) \cup taken \cup lost : x \in 1..n
      /\ n + 1 \notin 1..n /\ 1..(n + 1) = 1..n \cup {n + 1}
  BY DEF shared
<1>5. shared(w \o s, f, taken, lost, n + 1)
  BY <1>3, <1>4, ZenonT(30) DEF shared
<1>6. \A x \in ids(f), y \in ids(w) : x < y
  BY DEF inOrder, ids
<1>7. \A x \in ids(f), y \in ids(w \o s) : x < y
  BY <1>3, <1>4, <1>6
<1>8. ASSUME NEW j \in DOMAIN (w \o s), NEW k \in DOMAIN (w \o s), j < k
      PROVE  (w \o s)[j].id < (w \o s)[k].id
  <2>1. /\ Len(w) \in Nat /\ DOMAIN w = 1..Len(w)
        /\ DOMAIN (w \o s) = 1..(Len(w) + 1)
        /\ \A i \in 1..Len(w) : (w \o s)[i] = w[i]
        /\ (w \o s)[Len(w) + 1] = s[1]
    <3>1. /\ Len(w) \in Nat /\ DOMAIN w = 1..Len(w)
          /\ DOMAIN (w \o s) = 1..(Len(w) + Len(s))
          /\ \A i \in 1..Len(w) : (w \o s)[i] = w[i]
          /\ \A i \in 1..Len(s) : (w \o s)[Len(w) + i] = s[i]
      <4>1. s \in Seq(Message)
        BY <1>1
      <4> QED
        BY <4>1, Joined
    <3> QED
      BY <1>1, <3>1
  <2>2. j \in 1..Len(w)
    BY <1>8, <2>1
  <2>3. CASE k \in 1..Len(w)
    BY <1>8, <2>1, <2>2, <2>3 DEF inOrder
  <2>4. CASE k = Len(w) + 1
    <3>1. w[j].id \in ids(w)
      BY <2>2, IdsAt
    <3>2. w[j].id \in 1..n
      BY <1>4, <3>1
    <3> QED
      BY <1>1, <2>1, <2>2, <2>4, <3>2
  <2> QED
    BY <1>8, <2>1, <2>3, <2>4
<1>9. inOrder(f, w \o s)
  BY <1>7, <1>8, Zenon DEF inOrder, ids
<1> QED
  BY <1>3, <1>5, <1>9 DEF s

\* The invariant says where the messages are in the terms of the property.
LEMMA WhereTheyAre ==
  ASSUME DOMAIN content = Queues
  PROVE  NothingVanishes <=>
           shared(spring(content), failed(content), consumed, gone, published)
<1>1. /\ idsIn({"raw_packets.spring"}) = ids(spring(content))
      /\ idsIn({"raw_packets.failed"}) = ids(failed(content))
  BY DEF idsIn, ids, spring, failed
<1> DEFINE all == <<ids(spring(content)), ids(failed(content)), consumed, gone>>
<1>2. UNION Range(all) = ids(spring(content)) \cup ids(failed(content))
                         \cup consumed \cup gone
  BY DEF Range
<1>3. (\A j, k \in 1..4 : j # k => all[j] \cap all[k] = {}) <=>
        /\ all[1] \cap all[2] = {} /\ all[1] \cap all[3] = {} /\ all[1] \cap all[4] = {}
        /\ all[2] \cap all[3] = {} /\ all[2] \cap all[4] = {} /\ all[3] \cap all[4] = {}
  <2> HIDE DEF all
  <2>1. 1..4 = {1, 2, 3, 4}
    OBVIOUS
  <2> QED
    BY <2>1
<1> QED
  BY <1>1, <1>2, <1>3 DEF NothingVanishes, shared

\* The exchange takes a message: it is added, and what is over a limit is dead
\* lettered from the head on.
LEMMA AcceptStep == TopologyInv /\ accept => TopologyInv'
<1> SUFFICES ASSUME TopologyInv, accept PROVE TopologyInv'
  OBVIOUS
<1>1. PICK size \in Sizes : content' \in overflow(content, message(published', size))
  BY DEF accept
<1> DEFINE m == message(published + 1, size)
           w == spring(content) \o stamped(<<m>>)
           added == through(content, "raw_packets", <<m>>)
<1>2. published' = published + 1 /\ UNCHANGED <<clock, consumed, gone>>
  BY DEF accept
<1>3. m \in Message /\ m.id = published + 1
  BY DEF TopologyInv, message, Message
<1>4. spring(content) \in Seq(Message) /\ failed(content) \in Seq(Message)
  BY QueuesOf DEF TopologyInv
<1> HIDE DEF m
<1>5. /\ w \in Seq(Message)
      /\ shared(w, failed(content), consumed, gone, published + 1)
      /\ inOrder(failed(content), w)
  BY <1>3, <1>4, AddToQueues, Zenon DEF TopologyInv
<1>6. /\ DOMAIN added = Queues /\ spring(added) = w /\ failed(added) = failed(content)
  BY Added DEF TopologyInv
<1>7. added \in [Queues -> Seq(Message)]
  <2>1. added = [q \in Queues |-> added[q]]
    BY DEF through
  <2> HIDE DEF added, w
  <2> QED
    BY <1>4, <1>5, <1>6, <2>1, QueuesOf
<1> HIDE DEF w, added
<1>8. PICK d \in 0..Len(w) : content' = deadLetter(added, d)
  BY <1>1, <1>2, <1>6 DEF overflow, m, added
<1>9. /\ without(w, d) \in Seq(Message)
      /\ failed(content) \o stamped(SubSeq(w, 1, d)) \in Seq(Message)
      /\ shared(without(w, d), failed(content) \o stamped(SubSeq(w, 1, d)),
                consumed, gone, published + 1)
      /\ inOrder(failed(content) \o stamped(SubSeq(w, 1, d)), without(w, d))
  BY <1>4, <1>5, CutQueues DEF TopologyInv
<1>10. /\ spring(content') = without(w, d)
       /\ failed(content') = failed(content) \o stamped(SubSeq(w, 1, d))
  BY <1>6, <1>7, <1>8, DeadLettered, Zenon
<1>11. content' = [q \in Queues |-> content'[q]]
  BY <1>8 DEF deadLetter, through
<1>12. content' \in [Queues -> Seq(Message)]
  BY <1>9, <1>10, <1>11, QueuesOf, Zenon
<1> QED
  BY <1>2, <1>9, <1>10, <1>12 DEF TopologyInv, spring, failed

\* A message expires: the head is dead lettered.
LEMMA ExpireStep == TopologyInv /\ expire => TopologyInv'
<1> SUFFICES ASSUME TopologyInv, expire PROVE TopologyInv'
  OBVIOUS
<1> DEFINE w == spring(content)
<1>1. content' = deadLetter(content, 1) /\ w # <<>>
      /\ UNCHANGED <<clock, published, consumed, gone>>
  BY DEF expire
<1>2. w \in Seq(Message) /\ failed(content) \in Seq(Message)
  BY QueuesOf DEF TopologyInv
<1>3. 1 \in 0..Len(w)
  BY <1>1, <1>2
<1> HIDE DEF w
<1>4. /\ without(w, 1) \in Seq(Message)
      /\ failed(content) \o stamped(SubSeq(w, 1, 1)) \in Seq(Message)
      /\ shared(without(w, 1), failed(content) \o stamped(SubSeq(w, 1, 1)),
                consumed, gone, published)
      /\ inOrder(failed(content) \o stamped(SubSeq(w, 1, 1)), without(w, 1))
  BY <1>2, <1>3, CutQueues DEF TopologyInv, w
<1>5. /\ spring(content') = without(w, 1)
      /\ failed(content') = failed(content) \o stamped(SubSeq(w, 1, 1))
  BY <1>1, DeadLettered DEF TopologyInv, w
<1>6. content' = [q \in Queues |-> content'[q]]
  BY <1>1 DEF deadLetter, through
<1>7. content' \in [Queues -> Seq(Message)]
  BY <1>4, <1>5, <1>6, QueuesOf, Zenon
<1> QED
  BY <1>1, <1>4, <1>5, <1>7, Zenon DEF TopologyInv, spring, failed

\* A consumer takes the head, which is no other message of the queue.
LEMMA ConsumeStep == TopologyInv /\ consume => TopologyInv'
<1> SUFFICES ASSUME TopologyInv, consume PROVE TopologyInv'
  OBVIOUS
<1> DEFINE w == spring(content)
           a == stamped(SubSeq(w, 1, 1))
           b == without(w, 1)
<1>1. /\ content' = [content EXCEPT !["raw_packets.spring"] = Tail(@)] /\ w # <<>>
      /\ consumed' = consumed \cup {Head(w).id}
      /\ UNCHANGED <<clock, published, gone>>
  BY DEF consume
<1>2. w \in Seq(Message) /\ failed(content) \in Seq(Message)
  BY QueuesOf DEF TopologyInv
<1>3. spring(content') = Tail(w) /\ failed(content') = failed(content)
      /\ content' = [q \in Queues |-> content'[q]]
  BY <1>1, Zenon DEF TopologyInv, spring, failed, Queues
<1>4. 1 \in 0..Len(w) /\ Tail(w) = b /\ Head(w) = w[1]
  BY <1>1, <1>2 DEF without
<1> HIDE DEF w, a, b
<1>5. \A j, k \in DOMAIN w : j < k => w[j].id < w[k].id
  BY DEF TopologyInv, inOrder, w
<1>6. a = stamped(SubSeq(w, 1, 1)) /\ b = without(w, 1) /\ clock \in Nat
  BY DEF a, b, TopologyInv
<1>7. /\ b \in Seq(Message) /\ ids(a) \cup ids(b) = ids(w)
      /\ \A x \in ids(a), y \in ids(b) : x < y
      /\ \A j, k \in DOMAIN b : j < k => b[j].id < b[k].id
      /\ \A x : x \in ids(a) <=> \E k \in 1..1 : x = w[k].id
  BY <1>2, <1>4, <1>5, <1>6, CutIds
<1>8. ids(a) = {Head(w).id} /\ ids(b) \subseteq Nat
  BY <1>4, <1>7, IdsNat
<1>9. Head(w).id \notin ids(b) /\ ids(w) = {Head(w).id} \cup ids(b)
  BY <1>7, <1>8
<1>10. shared(b, failed(content), consumed', gone, published)
  BY <1>1, <1>9, Zenon DEF shared, TopologyInv, w
<1>11. inOrder(failed(content), b)
  <2>1. \A x \in ids(failed(content)), y \in ids(w) : x < y
    BY DEF TopologyInv, inOrder, ids, w
  <2> QED
    BY <1>7, <1>9, <2>1 DEF inOrder, ids
<1>12. content' \in [Queues -> Seq(Message)]
  BY <1>2, <1>3, <1>4, <1>7, QueuesOf, Zenon
<1> QED
  BY <1>1, <1>3, <1>4, <1>10, <1>11, <1>12, Zenon DEF TopologyInv, spring, failed

\* A purge or a restart empties queues.
LEMMA EmptyStep ==
  ASSUME TopologyInv, NEW qs \in SUBSET Queues, empty(qs)
  PROVE  TopologyInv'
<1>1. /\ gone' = gone \cup idsIn(qs) /\ UNCHANGED <<clock, published, consumed>>
      /\ content' = [q \in Queues |-> IF q \in qs THEN <<>> ELSE content[q]]
  BY DEF empty
<1>2. ids(<<>>) = {} /\ <<>> \in Seq(Message)
  BY DEF ids, Range
<1>3. content' \in [Queues -> Seq(Message)]
  BY <1>1, <1>2 DEF TopologyInv
<1>4. idsIn(qs) = (IF "raw_packets.spring" \in qs THEN ids(spring(content)) ELSE {})
            \cup (IF "raw_packets.failed" \in qs THEN ids(failed(content)) ELSE {})
  BY DEF idsIn, ids, spring, failed, Queues
<1>5. /\ spring(content') = IF "raw_packets.spring" \in qs THEN <<>> ELSE spring(content)
      /\ failed(content') = IF "raw_packets.failed" \in qs THEN <<>> ELSE failed(content)
  BY <1>1 DEF spring, failed, Queues
<1>6. shared(spring(content'), failed(content'), consumed, gone', published)
  BY <1>1, <1>2, <1>4, <1>5, Zenon DEF TopologyInv, shared
<1>7. inOrder(failed(content'), spring(content'))
  BY <1>5 DEF TopologyInv, inOrder, Range
<1> QED
  BY <1>1, <1>3, <1>6, <1>7 DEF TopologyInv, spring, failed

\* Every step of the broker keeps the invariant.
LEMMA TopologyStep == TopologyInv /\ [TopologyNext]_topologyVars => TopologyInv'
<1> SUFFICES ASSUME TopologyInv, [TopologyNext]_topologyVars PROVE TopologyInv'
  OBVIOUS
<1>1. CASE timePasses
  BY <1>1 DEF timePasses, TopologyInv, spring, failed
<1>2. CASE UNCHANGED topologyVars
  BY <1>2 DEF topologyVars, TopologyInv, spring, failed
<1>3. CASE brokerRestart
  BY <1>3, EmptyStep DEF brokerRestart
<1>4. ASSUME NEW q \in Queues, purge_queue(q) PROVE TopologyInv'
  BY <1>4, EmptyStep DEF purge_queue
<1> QED
  BY <1>1, <1>2, <1>3, <1>4, AcceptStep, ExpireStep, ConsumeStep DEF TopologyNext

\* Every behaviour of the queues satisfies the invariant, whatever the limits
\* are and however many messages there are.
THEOREM TopologyInvariant == TopologySpec => []TopologyInv
<1>1. TopologyInit => TopologyInv
  <2> SUFFICES ASSUME TopologyInit PROVE TopologyInv
    OBVIOUS
  <2>1. spring(content) = <<>> /\ failed(content) = <<>> /\ <<>> \in Seq(Message)
    BY DEF TopologyInit, spring, failed, Queues
  <2>2. ids(<<>>) = {} /\ 1..0 = {}
    BY DEF ids, Range
  <2> QED
    BY <2>1, <2>2 DEF TopologyInit, TopologyInv, shared, inOrder, Range
<1> QED
  BY <1>1, TopologyStep, PTL DEF TopologySpec

\* No message is lost between the exchanges or is in two places.
THEOREM TopologyNothingVanishes == TopologySpec => []NothingVanishes
<1>1. TopologyInv => NothingVanishes
  BY WhereTheyAre DEF TopologyInv
<1> QED
  BY <1>1, TopologyInvariant, PTL

-----------------------------------------------------------------------------
\* The checksum.  The sum cannot wrap around in data that short; what it is
\* then differs from the total of the words by a multiple of 2^16 - 1.

\* Division with remainder.
LEMMA Division ==
  ASSUME NEW a \in Nat, NEW m \in Nat, m > 0
  PROVE  /\ a \div m \in Nat /\ a % m \in 0 .. m - 1
         /\ a = m * (a \div m) + (a % m)
OBVIOUS

\* The quotient and the remainder are the only ones.
LEMMA Remainder ==
  ASSUME NEW m \in Nat, m > 0, NEW q \in Nat, NEW r \in 0 .. m - 1
  PROVE  (q * m + r) % m = r /\ (q * m + r) \div m = q
<1>1. q * m + r \in Nat
  OBVIOUS
<1> QED
  BY <1>1, Division

\* The words have values below 2^16, and there are no more than 2^16 of them.
LEMMA Widths ==
  /\ BYTE \in Nat /\ BYTE >= 2 /\ U16 \in Nat /\ U16 >= 2 * BYTE
  /\ UINT32 \in Nat /\ UINT32 = U16 * U16 /\ MaxLen \in Nat /\ MaxLen <= 2 * U16
<1>1. BYTE \in Nat /\ BYTE >= 2 /\ MaxLen \in Nat /\ MaxLen <= 2 * U16
  BY ChecksumAssumption
<1>2. U16 \in Nat /\ U16 >= 2 * BYTE
  BY <1>1 DEF U16
<1>3. UINT32 \in Nat /\ UINT32 = U16 * U16
  BY <1>2 DEF UINT32
<1> QED
  BY <1>1, <1>2, <1>3

\* A word, and the odd byte padded to one, is below 2^16.
LEMMA WordValue ==
  ASSUME NEW h \in Bytes, NEW l \in Bytes
  PROVE  /\ BYTE * h + l \in 0 .. U16 - 1
         /\ BYTE * h \in 0 .. U16 - BYTE
<1>1. h \in Nat /\ l \in Nat /\ h <= BYTE - 1 /\ l <= BYTE - 1
  BY Widths DEF Bytes
<1>2. BYTE * h <= BYTE * (BYTE - 1) /\ BYTE * h \in Nat
  BY <1>1, Widths
<1>3. BYTE * (BYTE - 1) = U16 - BYTE
  BY Widths DEF U16
<1> QED
  BY <1>1, <1>2, <1>3, Widths

\* The inductive invariant: while words are added the sum is below what so many
\* words can reach, so that it has not wrapped around; then it differs from
\* their total by a multiple of 2^16 - 1, which a carry folded in keeps.
congruent(s, t) == \E c \in Nat : t = s + c * (U16 - 1)
ChecksumInv ==
  /\ phase \in {"words", "fold", "done"}
  /\ Len(data) \in 0..MaxLen /\ data \in [1..Len(data) -> Bytes]
  /\ len \in 0..Len(data) /\ sum \in Nat /\ total \in Nat
  /\ phase = "words" => sum = total /\ 2 * total <= (Len(data) - len) * (U16 - 1)
  /\ phase # "words" => /\ sum < UINT32 /\ congruent(sum, total)
                        /\ sum = 0 <=> total = 0
  /\ phase = "done" => sum < U16 /\ checksum = U16 - 1 - sum

\* Nothing is summed yet.
LEMMA ChecksumInvInit == ChecksumInit => ChecksumInv
BY Widths DEF ChecksumInit, ChecksumInv

\* While words are left the sum has room for one more.
LEMMA AddNoWrap ==
  ASSUME ChecksumInv, phase = "words", NEW word \in Nat, NEW k \in 1..2, k <= len,
         2 * word <= 2 * (U16 - 1), k = 1 => word <= U16 - BYTE, add(word)
  PROVE  /\ sum' = total + word /\ total' = total + word /\ sum' < UINT32
         /\ k = 2 => 2 * total' <= (Len(data) - (len - 2)) * (U16 - 1)
<1> DEFINE used == Len(data) - len
<1>1. used \in Nat /\ used + k <= 2 * U16 /\ total \in Nat /\ sum = total
  BY Widths DEF ChecksumInv
<1>2. 2 * total <= used * (U16 - 1)
  BY DEF ChecksumInv
<1> HIDE DEF used
<1>3. total + word < UINT32
  <2>1. CASE k = 2
    <3>1. 2 * (total + word) <= (used + 2) * (U16 - 1)
      BY <1>1, <1>2, Widths
    <3>2. (used + 2) * (U16 - 1) <= (2 * U16) * (U16 - 1)
      BY <1>1, <2>1, Widths
    <3>3. (2 * U16) * (U16 - 1) < 2 * (U16 * U16)
      BY Widths
    <3> QED
      BY <1>1, <3>1, <3>2, <3>3, Widths
  <2>2. CASE k = 1
    <3>1. used * (U16 - 1) <= (2 * U16 - 1) * (U16 - 1)
      BY <1>1, <2>2, Widths
    <3>2. (2 * U16 - 1) * (U16 - 1) = 2 * (U16 * U16) - 3 * U16 + 1
      BY Widths
    <3>3. word <= U16 - BYTE
      BY <2>2
    <3> QED
      BY <1>1, <1>2, <3>1, <3>2, <3>3, Widths
  <2> QED
    BY <2>1, <2>2
<1>4. sum' = total + word
  <2>1. sum' = (total + word) % UINT32
    BY <1>1 DEF add
  <2>2. total + word \in 0 .. UINT32 - 1 /\ UINT32 > 0
    BY <1>1, <1>3, Widths
  <2>3. (0 * UINT32 + (total + word)) % UINT32 = total + word
    BY <2>2, Widths, Remainder
  <2> QED
    BY <1>1, <2>1, <2>3, Widths
<1>5. ASSUME k = 2 PROVE 2 * (total + word) <= (used + 2) * (U16 - 1)
  BY <1>1, <1>2, Widths
<1> QED
  BY <1>1, <1>3, <1>4, <1>5 DEF add, used, ChecksumInv

\* Adding the words, the last byte included, stays below 2^32.
LEMMA WordsStep == ChecksumInv /\ (addWord \/ addLast) => ChecksumInv'
<1> SUFFICES ASSUME ChecksumInv, addWord \/ addLast PROVE ChecksumInv'
  OBVIOUS
<1>1. \A k \in 0..1 : k < len => next(k) \in Bytes
  BY DEF ChecksumInv, next
<1>2. CASE addWord
  <2> DEFINE word == BYTE * next(0) + next(1)
  <2>1. phase = "words" /\ len > 1 /\ add(word) /\ len' = len - 2
        /\ UNCHANGED <<phase, data, checksum>>
    BY <1>2 DEF addWord
  <2>2. next(0) \in Bytes /\ next(1) \in Bytes
    BY <1>1, <2>1 DEF ChecksumInv
  <2>3. word \in 0 .. U16 - 1
    BY <2>2, WordValue
  <2> HIDE DEF word
  <2>4. word \in Nat /\ 2 * word <= 2 * (U16 - 1) /\ 2 <= len /\ 2 \in 1..2
    BY <2>1, <2>3, Widths DEF ChecksumInv
  <2>5. /\ sum' = total + word /\ total' = total + word
        /\ 2 * total' <= (Len(data) - (len - 2)) * (U16 - 1)
    BY <2>1, <2>4, AddNoWrap
  <2>6. len' \in 0..Len(data)
    BY <2>1, <2>4 DEF ChecksumInv
  <2> QED
    BY <2>1, <2>4, <2>5, <2>6 DEF ChecksumInv
<1>3. CASE addLast
  <2>1. phase = "words" /\ phase' = "fold" /\ UNCHANGED <<data, len, checksum>>
    BY <1>3 DEF addLast
  <2>2. sum' = total' /\ total' \in Nat /\ sum' < UINT32
    <3>1. CASE len = 1
      <4>1. BYTE * next(0) \in 0 .. U16 - BYTE /\ add(BYTE * next(0))
        BY <1>1, <1>3, <3>1, WordValue DEF addLast, lastWord
      <4> DEFINE word == BYTE * next(0)
      <4> HIDE DEF word
      <4>2. /\ word \in Nat /\ 2 * word <= 2 * (U16 - 1) /\ word <= U16 - BYTE
            /\ add(word) /\ 1 <= len /\ 1 \in 1..2
        BY <3>1, <4>1, Widths DEF word
      <4>3. sum' = total + word /\ total' = total + word /\ sum' < UINT32
        BY <2>1, <4>2, AddNoWrap
      <4> QED
        BY <4>2, <4>3 DEF ChecksumInv
    <3>2. CASE len # 1
      <4>1. UNCHANGED <<sum, total>> /\ sum = total /\ total \in Nat
            /\ 2 * total <= (Len(data) - len) * (U16 - 1)
            /\ Len(data) - len \in 0 .. 2 * U16
        BY <1>3, <2>1, <3>2, Widths DEF addLast, ChecksumInv
      <4>2. (Len(data) - len) * (U16 - 1) <= (2 * U16) * (U16 - 1)
        BY <4>1, Widths
      <4>3. (2 * U16) * (U16 - 1) < 2 * (U16 * U16)
        BY Widths
      <4> QED
        BY <4>1, <4>2, <4>3, Widths
    <3> QED
      BY <3>1, <3>2
  <2>3. congruent(sum', total')
    <3>1. 0 * (U16 - 1) = 0
      BY Widths
    <3>2. total' = sum' + 0 * (U16 - 1)
      BY <2>2, <3>1
    <3> QED
      BY <3>2 DEF congruent
  <2> QED
    BY <2>1, <2>2, <2>3 DEF ChecksumInv, congruent
<1> QED
  BY <1>2, <1>3

\* Folding the carry in takes a multiple of 2^16 - 1 away.
LEMMA FoldStep == ChecksumInv /\ foldCarry => ChecksumInv'
<1> SUFFICES ASSUME ChecksumInv, foldCarry PROVE ChecksumInv'
  OBVIOUS
<1> DEFINE q == sum \div U16
           r == sum % U16
<1>1. /\ phase = "fold" /\ q > 0 /\ sum' = r + q
      /\ UNCHANGED <<phase, data, len, checksum, total>>
  BY DEF foldCarry, folds
<1>2. q \in Nat /\ r \in 0 .. U16 - 1 /\ sum = U16 * q + r
  BY Widths, Division DEF ChecksumInv
<1> HIDE DEF q, r
<1>3. PICK c \in Nat : total = sum + c * (U16 - 1)
  BY <1>1 DEF ChecksumInv, congruent
<1>4. sum = sum' + q * (U16 - 1)
  BY <1>1, <1>2, Widths
<1>5. total = sum' + (c + q) * (U16 - 1) /\ c + q \in Nat
  BY <1>1, <1>2, <1>3, <1>4, Widths
<1>6. sum' \in Nat /\ sum' > 0 /\ sum' <= sum
  BY <1>1, <1>2, <1>4, Widths
<1>7. congruent(sum', total')
  BY <1>1, <1>5 DEF congruent
<1>8. sum < UINT32 /\ total # 0
  BY <1>1, <1>6 DEF ChecksumInv
<1> QED
  BY <1>1, <1>6, <1>7, <1>8, Widths DEF ChecksumInv, congruent

\* The complement of a sum without a carry.
LEMMA ComplementStep == ChecksumInv /\ complement => ChecksumInv'
<1> SUFFICES ASSUME ChecksumInv, complement PROVE ChecksumInv'
  OBVIOUS
<1>1. /\ phase = "fold" /\ ~(sum \div U16 > 0) /\ sum \in Nat /\ phase' = "done"
      /\ checksum' = (UINT32 - 1 - sum) % U16 /\ UNCHANGED <<data, len, sum, total>>
  BY DEF complement, folds, ChecksumInv
<1>2. sum < U16
  <2>1. sum \div U16 \in Nat /\ sum % U16 \in 0 .. U16 - 1
        /\ sum = U16 * (sum \div U16) + (sum % U16)
    BY <1>1, Widths, Division
  <2>2. sum \div U16 = 0
    BY <1>1, <2>1
  <2> QED
    BY <2>1, <2>2, Widths
<1>3. checksum' = U16 - 1 - sum
  <2>1. U16 - 1 - sum \in 0 .. U16 - 1 /\ U16 - 1 \in Nat /\ U16 > 0
    BY <1>1, <1>2, Widths
  <2>2. UINT32 - 1 - sum = (U16 - 1) * U16 + (U16 - 1 - sum)
    BY <1>1, Widths
  <2>3. ((U16 - 1) * U16 + (U16 - 1 - sum)) % U16 = U16 - 1 - sum
    BY <2>1, Remainder, Widths, Zenon
  <2> QED
    BY <1>1, <2>2, <2>3
<1> QED
  BY <1>1, <1>2, <1>3 DEF ChecksumInv, congruent

\* A sum below 2^16 that is congruent to the total, and its complement.
LEMMA CompletesWords == ChecksumInv => Completes
<1> SUFFICES ASSUME ChecksumInv, phase = "done" PROVE Completes
  BY DEF Completes
<1> DEFINE M == U16 - 1
<1>1. PICK c \in Nat : total = sum + c * M
  BY DEF ChecksumInv, congruent
<1>2. /\ sum \in 0..M /\ total \in Nat /\ checksum = M - sum
      /\ M \in Nat /\ M > 0 /\ U16 \in Nat /\ M = U16 - 1
      /\ sum = 0 <=> total = 0
  BY Widths DEF ChecksumInv
<1> HIDE DEF M
<1>3. total + checksum = (c + 1) * M + 0 /\ c + 1 \in Nat
  BY <1>1, <1>2
<1>4. ((c + 1) * M + 0) % M = 0
  <2>1. M > 0 /\ 0 \in 0 .. M - 1
    BY <1>2
  <2> QED
    BY <1>2, <1>3, <2>1, Remainder, Zenon
<1>5. (total + checksum) % M = 0 /\ total + checksum > 0
  BY <1>2, <1>3, <1>4
<1>6. CASE sum = M
  <2>1. total = (c + 1) * M + 0
    BY <1>1, <1>2, <1>6
  <2>2. total % M = 0
    BY <1>4, <2>1
  <2> QED
    BY <1>2, <1>5, <1>6, <2>2 DEF Completes, verifyIpChecksum
<1>7. CASE sum < M
  <2>1. total = c * M + sum /\ sum \in 0 .. M - 1
    BY <1>1, <1>2, <1>7
  <2>2. total % M = sum
    BY <1>2, <2>1, Remainder
  <2> QED
    BY <1>2, <1>5, <1>7, <2>2 DEF Completes, verifyIpChecksum
<1> QED
  BY <1>2, <1>6, <1>7

\* In every behaviour of the checksum the invariant holds.
THEOREM ChecksumInvariant == ChecksumSpec => []ChecksumInv
<1>1. ChecksumInv /\ [ChecksumNext]_checksumVars => ChecksumInv'
  <2> SUFFICES ASSUME ChecksumInv, [ChecksumNext]_checksumVars PROVE ChecksumInv'
    OBVIOUS
  <2>1. CASE UNCHANGED checksumVars
    BY <2>1 DEF checksumVars, ChecksumInv, congruent
  <2> QED
    BY <2>1, WordsStep, FoldStep, ComplementStep DEF ChecksumNext
<1> QED
  BY <1>1, ChecksumInvInit, PTL DEF ChecksumSpec

\* For bytes of any base and data of any length for which the sum has room,
\* the checksum completes the words to zero in one's complement arithmetic.
THEOREM ChecksumCompletes == ChecksumSpec => []Completes
BY ChecksumInvariant, CompletesWords, PTL
-----------------------------------------------------------------------------
\* Sums over the positions of a sequence.  A fold over a set is a recursion that
\* takes any element first; that it is well defined, and does not depend on the
\* order, follows from every non-empty set of natural numbers having a least
\* element.

\* Every non-empty set of natural numbers has a least element.
LEMMA LeastElement ==
  ASSUME NEW T \in SUBSET Nat, T # {}
  PROVE  \E m \in T : \A k \in T : m <= k
<1> DEFINE R == OpToRel(<, Nat)
<1>1. IsWellFoundedOn(R, Nat)
  BY NatLessThanWellFounded, Zenon
<1>2. PICK m \in T : \A k \in T : ~ (<<k, m>> \in R)
  <2> HIDE DEF R
  <2> QED
    BY <1>1, WFMin, Zenon
<1>3. \A k \in T : <<k, m>> \in R <=> k < m
  BY DEF OpToRel
<1>4. \A k \in T : ~ (k < m)
  BY <1>2, <1>3, Zenon
<1> QED
  BY <1>4

\* g gives the sum of the weights w over every set of positions up to n:
\* taking any one position out takes its weight out.
sumsUp(g, w, n) ==
  /\ g \in [SUBSET (1..n) -> Nat]
  /\ g[{}] = 0
  /\ \A s \in SUBSET (1..n) : \A x \in s : g[s] = w[x] + g[s \ {x}]

\* The weights at the positions S are natural numbers.
weighs(w, S) == \A k \in S : w[k] \in Nat

\* There is such a g for every n: were there none for some n, there would be
\* one for the position before the least of them.
LEMMA SumsExist ==
  ASSUME NEW w, NEW n \in Nat, weighs(w, 1..n)
  PROVE  \E g : sumsUp(g, w, n)
<1> DEFINE B == {m \in 0..n : ~ \E g : sumsUp(g, w, m)}
<1>1. SUFFICES ASSUME B # {} PROVE FALSE
  <2>1. n \in 0..n
    OBVIOUS
  <2> QED
    BY <2>1, Zenon
<1>2. PICK m \in B : \A k \in B : m <= k
  <2>1. B \in SUBSET Nat
    OBVIOUS
  <2> HIDE DEF B
  <2> QED
    BY <1>1, <2>1, LeastElement
<1>3. m # 0
  <2> DEFINE g == [s \in SUBSET (1..0) |-> 0]
  <2>1. sumsUp(g, w, 0)
    BY DEF sumsUp
  <2> QED
    BY <1>2, <2>1
<1>4. m \in 1..n /\ m - 1 \in 0..n /\ m - 1 \notin B
  BY <1>2, <1>3
<1>5. PICK g : sumsUp(g, w, m - 1)
  BY <1>4
<1> DEFINE h == [s \in SUBSET (1..m) |-> IF m \in s THEN w[m] + g[s \ {m}] ELSE g[s]]
<1>6. \A s \in SUBSET (1..m) : /\ s \ {m} \in SUBSET (1..(m - 1))
                               /\ m \notin s => s \in SUBSET (1..(m - 1))
  BY <1>4
<1>7. h \in [SUBSET (1..m) -> Nat]
  BY <1>4, <1>5, <1>6 DEF sumsUp, weighs
<1>8. h[{}] = 0
  BY <1>4, <1>5, Zenon DEF sumsUp
<1>9. ASSUME NEW s \in SUBSET (1..m), NEW x \in s
      PROVE  h[s] = w[x] + h[s \ {x}]
  <2>1. s \ {x} \in SUBSET (1..m)
    BY Zenon
  <2>2. CASE x = m
    BY <2>1, <2>2
  <2>3. CASE x # m /\ m \notin s
    <3>1. x \in s /\ s \in SUBSET (1..(m - 1)) /\ m \notin s \ {x}
      BY <2>3, <1>6
    <3> QED
      BY <3>1, <2>1, <2>3, <1>5 DEF sumsUp
  <2>4. CASE x # m /\ m \in s
    <3> DEFINE r == (s \ {m}) \ {x}
    <3>1. s \ {m} \in SUBSET (1..(m - 1)) /\ x \in s \ {m} /\ r = (s \ {x}) \ {m}
      BY <2>4, <1>6
    <3>2. r \in SUBSET (1..(m - 1))
      BY <3>1
    <3>3. h[s] = w[m] + g[s \ {m}] /\ h[s \ {x}] = w[m] + g[r]
      BY <2>1, <2>4, <3>1, Zenon
    <3>4. g[s \ {m}] = w[x] + g[r] /\ g[r] \in Nat
      BY <3>1, <3>2, <1>5 DEF sumsUp
    <3>5. w[m] \in Nat /\ w[x] \in Nat
      BY <1>4 DEF weighs
    <3> HIDE DEF h, r
    <3> QED
      BY <3>3, <3>4, <3>5
  <2> QED
    BY <2>2, <2>3, <2>4
<1>10. sumsUp(h, w, m)
  <2> HIDE DEF h
  <2> QED
    BY <1>7, <1>8, <1>9 DEF sumsUp
<1> QED
  BY <1>2, <1>10

\* The sum that the code's models use, which takes the positions out one by one,
\* is the one that sumsUp gives.
LEMMA FoldSumsUp ==
  ASSUME NEW w, NEW n \in Nat, weighs(w, 1..n), NEW g, sumsUp(g, w, n),
         NEW S \in SUBSET (1..n)
  PROVE  SumFunctionOnSet(w, S) = g[S]
<1> DEFINE first(s) == CHOOSE x \in s : TRUE
           step(f, s) == IF s = {} THEN 0 ELSE w[first(s)] + f[s \ {first(s)}]
           fold[s \in SUBSET S] == step(fold, s)
           sums == [s \in SUBSET S |-> g[s]]
<1>1. SumFunctionOnSet(w, S) = fold[S]
  BY DEF SumFunctionOnSet, FoldFunctionOnSet, MapThenFoldSet
<1>2. \A s \in SUBSET S : s # {} => first(s) \in s
  OBVIOUS
<1>3. sums = [s \in SUBSET S |-> step(sums, s)]
  <2> HIDE DEF first
  <2> QED
    BY <1>2, Zenon DEF sumsUp
<1>4. fold = [s \in SUBSET S |-> step(fold, s)]
  <2> HIDE DEF step, sums
  <2> QED
    BY <1>3
<1>5. PICK size : sumsUp(size, [k \in 1..n |-> 1], n)
  BY SumsExist DEF weighs
<1> DEFINE B == {i \in Nat : \E s \in SUBSET S : i = size[s] /\ fold[s] # g[s]}
<1>6. SUFFICES ASSUME B # {} PROVE FALSE
  <2> HIDE DEF fold
  <2> QED
    BY <1>1, <1>5 DEF sumsUp
<1>7. PICK i \in B : \A j \in B : i <= j
  <2>1. B \in SUBSET Nat
    OBVIOUS
  <2> HIDE DEF B
  <2> QED
    BY <1>6, <2>1, LeastElement
<1>8. PICK s \in SUBSET S : i = size[s] /\ fold[s] # g[s]
  <2> HIDE DEF fold
  <2> QED
    BY <1>7
<1> HIDE DEF fold
<1>9. s # {}
  BY <1>4, <1>8, Zenon DEF sumsUp
<1> HIDE DEF first
<1>10. first(s) \in s /\ s \ {first(s)} \in SUBSET S /\ s \in SUBSET (1..n)
  BY <1>2, <1>9, Zenon
<1>11. size[s] = 1 + size[s \ {first(s)}] /\ size[s \ {first(s)}] \in Nat
  BY <1>5, <1>10, Zenon DEF sumsUp
<1>12. fold[s \ {first(s)}] = g[s \ {first(s)}]
  <2>1. size[s \ {first(s)}] \notin B
    <3> HIDE DEF B
    <3> QED
      BY <1>7, <1>8, <1>11
  <2> QED
    BY <1>10, <1>11, <2>1, Zenon
<1>13. fold[s] = w[first(s)] + fold[s \ {first(s)}]
  BY <1>4, <1>9, Zenon
<1>14. g[s] = w[first(s)] + g[s \ {first(s)}]
  BY <1>10, Zenon DEF sumsUp
<1> QED
  BY <1>8, <1>12, <1>13, <1>14

\* Nothing adds up to nothing, and one more position adds its weight.
LEMMA SumOneMore ==
  ASSUME NEW w, NEW n \in Nat, weighs(w, 1..n)
  PROVE  /\ SumFunctionOnSet(w, {}) = 0
         /\ SumFunctionOnSet(w, 1..n) \in Nat
         /\ n > 0 => SumFunctionOnSet(w, 1..n)
                      = w[n] + SumFunctionOnSet(w, 1..(n - 1))
<1>1. PICK g : sumsUp(g, w, n)
  BY SumsExist
<1>2. \A S \in SUBSET (1..n) : SumFunctionOnSet(w, S) = g[S] /\ g[S] \in Nat
  <2>1. ASSUME NEW S \in SUBSET (1..n) PROVE SumFunctionOnSet(w, S) = g[S]
    BY <1>1, FoldSumsUp
  <2> QED
    BY <1>1, <2>1 DEF sumsUp
<1>3. ASSUME n > 0
      PROVE  SumFunctionOnSet(w, 1..n) = w[n] + SumFunctionOnSet(w, 1..(n - 1))
  <2>1. n \in 1..n /\ (1..n) \ {n} = 1..(n - 1) /\ 1..(n - 1) \in SUBSET (1..n)
    BY <1>3
  <2>2. g[1..n] = w[n] + g[(1..n) \ {n}] /\ w[n] \in Nat
    BY <1>1, <2>1, 1..n \in SUBSET (1..n), Zenon DEF sumsUp, weighs
  <2>3. /\ SumFunctionOnSet(w, 1..n) = g[1..n]
        /\ SumFunctionOnSet(w, 1..(n - 1)) = g[1..(n - 1)] /\ g[1..(n - 1)] \in Nat
    BY <1>2, <2>1
  <2> QED
    BY <2>1, <2>2, <2>3, Zenon
<1> QED
  BY <1>1, <1>2, <1>3 DEF sumsUp

\* Without its first position a list of weights adds up to that much less.
LEMMA SumWithoutFirst ==
  ASSUME NEW n \in Nat, NEW w, weighs(w, 1..(n + 1)),
         NEW v, \A k \in 1..n : v[k] = w[k + 1]
  PROVE  SumFunctionOnSet(w, 1..(n + 1)) = w[1] + SumFunctionOnSet(v, 1..n)
<1>1. PICK g : sumsUp(g, w, n + 1)
  BY SumsExist
<1> DEFINE moved(s) == {k \in 2..(n + 1) : k - 1 \in s}
           h == [s \in SUBSET (1..n) |-> g[moved(s)]]
<1>2. \A s \in SUBSET (1..n) : moved(s) \in SUBSET (1..(n + 1))
  OBVIOUS
<1>3. moved({}) = {} /\ moved(1..n) = (1..(n + 1)) \ {1}
  OBVIOUS
<1>4. ASSUME NEW s \in SUBSET (1..n), NEW x \in s
      PROVE  h[s] = v[x] + h[s \ {x}]
  <2>1. x + 1 \in moved(s) /\ moved(s \ {x}) = moved(s) \ {x + 1}
    OBVIOUS
  <2>2. g[moved(s)] = w[x + 1] + g[moved(s) \ {x + 1}]
    <3> HIDE DEF moved
    <3> QED
      BY <1>1, <1>2, <2>1, Zenon DEF sumsUp
  <2> HIDE DEF moved
  <2> QED
    BY <2>1, <2>2, Zenon
<1>5. sumsUp(h, v, n)
  <2>1. h \in [SUBSET (1..n) -> Nat] /\ h[{}] = 0
    <3> HIDE DEF moved
    <3> QED
      BY <1>1, <1>2, <1>3, Zenon DEF sumsUp
  <2> HIDE DEF h
  <2> QED
    BY <2>1, <1>4, Zenon DEF sumsUp
<1>6. weighs(v, 1..n)
  BY DEF weighs
<1>7. SumFunctionOnSet(v, 1..n) = g[(1..(n + 1)) \ {1}]
  <2>1. SumFunctionOnSet(v, 1..n) = h[1..n]
    <3> HIDE DEF h
    <3> QED
      BY <1>5, <1>6, FoldSumsUp
  <2> QED
    BY <2>1, <1>3, Zenon
<1>8. SumFunctionOnSet(w, 1..(n + 1)) = g[1..(n + 1)]
  BY <1>1, FoldSumsUp
<1>9. g[1..(n + 1)] = w[1] + g[(1..(n + 1)) \ {1}]
  BY <1>1, 1 \in 1..(n + 1), 1..(n + 1) \in SUBSET (1..(n + 1)), Zenon DEF sumsUp
<1> QED
  BY <1>7, <1>8, <1>9, Zenon
-----------------------------------------------------------------------------
\* The limits of raw_packets.spring, one of which is on the sum of the sizes.

\* A queue without its head is no longer and has no more bytes, and an empty
\* one has none.
LEMMA RestWithinLimits ==
  ASSUME NEW q \in Seq(Message)
  PROVE  /\ withinLimits(<<>>)
         /\ q # <<>> /\ withinLimits(q) => withinLimits(without(q, 1))
<1>1. ASSUME NEW r \in Seq(Message)
      PROVE  /\ bytes(r) = SumFunctionOnSet([k \in DOMAIN r |-> r[k].size], 1..Len(r))
             /\ Len(r) \in Nat /\ DOMAIN r = 1..Len(r)
             /\ weighs([k \in DOMAIN r |-> r[k].size], 1..Len(r))
  <2> DEFINE w == [k \in DOMAIN r |-> r[k].size]
  <2>1. Len(r) \in Nat /\ DOMAIN r = 1..Len(r) /\ DOMAIN w = DOMAIN r
    BY MessageAt
  <2>2. weighs(w, 1..Len(r))
    <3>1. \A m \in Message : m.size \in Nat
      BY TopologyAssumption, Zenon DEF Message
    <3> QED
      BY <2>1, <3>1, MessageAt DEF weighs
  <2> HIDE DEF w
  <2> QED
    BY <2>1, <2>2, Zenon DEF bytes, SumFunction, w
<1>2. withinLimits(<<>>)
  <2> DEFINE w == [k \in DOMAIN <<>> |-> <<>>[k].size]
  <2>1. <<>> \in Seq(Message) /\ Len(<<>>) = 0 /\ 1..0 = {}
    OBVIOUS
  <2>2. bytes(<<>>) = SumFunctionOnSet(w, {}) /\ weighs(w, 1..0)
    BY <1>1, <2>1, Zenon
  <2> HIDE DEF w
  <2>3. bytes(<<>>) = 0
    BY <2>2, SumOneMore, 0 \in Nat
  <2> QED
    BY <2>1, <2>3, TopologyAssumption DEF withinLimits
<1>3. ASSUME q # <<>>, withinLimits(q) PROVE withinLimits(without(q, 1))
  <2> DEFINE r == without(q, 1)
             n == Len(q) - 1
             w == [k \in DOMAIN q |-> q[k].size]
             v == [k \in DOMAIN r |-> r[k].size]
  <2>1. n \in Nat /\ Len(q) = n + 1 /\ 1 \in 1..(n + 1)
    BY <1>1, <1>3
  <2>2. r \in Seq(Message) /\ Len(r) = n /\ \A k \in 1..n : r[k] = q[k + 1]
    BY <2>1 DEF without
  <2> HIDE DEF r, n
  <2>3. bytes(r) = SumFunctionOnSet(v, 1..n) /\ DOMAIN r = 1..n /\ weighs(v, 1..n)
    BY <1>1, <2>2
  <2>4. bytes(q) = SumFunctionOnSet(w, 1..(n + 1)) /\ DOMAIN q = 1..(n + 1)
        /\ weighs(w, 1..(n + 1))
    BY <1>1, <2>1
  <2>5. \A k \in 1..n : v[k] = w[k + 1]
    BY <2>1, <2>2, <2>3, <2>4
  <2> HIDE DEF v, w
  <2>6. bytes(q) = w[1] + bytes(r)
    BY <2>1, <2>3, <2>4, <2>5, SumWithoutFirst
  <2>7. w[1] \in Nat /\ bytes(r) \in Nat
    BY <2>1, <2>3, <2>4, SumOneMore DEF weighs
  <2> QED
    BY <1>3, <2>1, <2>2, <2>6, <2>7, TopologyAssumption DEF withinLimits, r
<1> QED
  BY <1>2, <1>3

\* No step takes raw_packets.spring over its limits.
LEMMA LimitsStep ==
  ASSUME TopologyInv, withinLimits(spring(content)), [TopologyNext]_topologyVars
  PROVE  withinLimits(spring(content'))
<1>1. spring(content) \in Seq(Message) /\ content \in [Queues -> Seq(Message)]
  BY QueuesOf DEF TopologyInv
<1>2. CASE accept
  <2>1. PICK size \in Sizes : content' \in overflow(content, message(published', size))
    BY <1>2 DEF accept
  <2> DEFINE m == message(published', size)
             added == through(content, "raw_packets", <<m>>)
  <2>2. PICK d \in 0..Len(spring(added)) :
          content' = deadLetter(added, d) /\ withinLimits(without(spring(added), d))
    BY <2>1 DEF overflow
  <2>3. spring(content') = without(spring(added), d)
    BY <2>2, Routes DEF deadLetter, through, spring, Queues
  <2> QED
    BY <2>2, <2>3
<1>3. CASE expire
  <2>1. spring(content) # <<>> /\ spring(content') = without(spring(content), 1)
    BY <1>1, <1>3, DeadLettered DEF expire
  <2> QED
    BY <1>1, <2>1, RestWithinLimits
<1>4. CASE consume
  <2>1. spring(content) # <<>> /\ spring(content') = Tail(spring(content))
    BY <1>1, <1>4 DEF consume, spring, Queues
  <2>2. Tail(spring(content)) = without(spring(content), 1)
    BY <1>1, <2>1 DEF without
  <2> QED
    BY <1>1, <2>1, <2>2, RestWithinLimits, Zenon
<1>5. ASSUME NEW qs \in SUBSET Queues, empty(qs) PROVE withinLimits(spring(content'))
  <2>1. spring(content') = <<>> \/ spring(content') = spring(content)
    BY <1>5 DEF empty, spring, Queues
  <2> QED
    BY <1>1, <2>1, RestWithinLimits
<1>6. CASE timePasses \/ UNCHANGED topologyVars
  BY <1>6 DEF timePasses, topologyVars
<1> QED
  BY <1>2, <1>3, <1>4, <1>5, <1>6, Zenon DEF TopologyNext, brokerRestart, purge_queue

\* raw_packets.spring never exceeds x-max-length or x-max-length-bytes, and
\* what it dead-letters for that are the oldest messages, whatever the limits
\* and the sizes of the messages.
THEOREM TopologyOldestGiveWay == TopologySpec => []OldestGiveWay
<1>1. TopologyInit => withinLimits(spring(content))
  <2>1. <<>> \in Seq(Message)
    OBVIOUS
  <2>2. TopologyInit => spring(content) = <<>>
    BY DEF TopologyInit, spring, Queues
  <2> QED
    BY <2>1, <2>2, RestWithinLimits, Zenon
<1>2. /\ TopologyInv /\ withinLimits(spring(content))
      /\ [TopologyNext]_topologyVars
      => withinLimits(spring(content))'
  BY LimitsStep DEF spring
<1>3. TopologyInv /\ withinLimits(spring(content)) => OldestGiveWay
  BY DEF TopologyInv, OldestGiveWay, failed
<1> QED
  BY <1>1, <1>2, <1>3, TopologyInvariant, PTL DEF TopologySpec
-----------------------------------------------------------------------------
\* The sum of the checksum.

\* What has been added are the bytes before the pointer, an even number of
\* them while words are left.
summed(n) == n \in 0..Len(data) /\ total = SumFunctionOnSet(weights, 1..n)
SummedInv ==
  /\ phase = "words" => \E h \in Nat : Len(data) - len = 2 * h /\ summed(2 * h)
  /\ phase # "words" => summed(Len(data))

\* The sum up to the next byte is that byte's weight more.
LEMMA ByteCounts ==
  ASSUME ChecksumInv, NEW n \in Nat, n < Len(data)
  PROVE  LET s == SumFunctionOnSet(weights, 1..n)
         IN /\ SumFunctionOnSet(weights, 1..(n + 1)) = weights[n + 1] + s
            /\ s \in Nat /\ weights[n + 1] \in Nat
<1>1. Len(data) \in Nat /\ data \in [1..Len(data) -> Bytes] /\ BYTE \in Nat
  BY ChecksumAssumption DEF ChecksumInv
<1>2. \A k \in 1..Len(data) : data[k] \in Nat
  BY <1>1, ChecksumAssumption DEF Bytes
<1>3. \A k \in 1..Len(data) : weights[k] \in Nat
  BY <1>1, <1>2 DEF weights
<1>4. weighs(weights, 1..(n + 1)) /\ weighs(weights, 1..n) /\ weights[n + 1] \in Nat
  BY <1>1, <1>3 DEF weighs
<1>5. SumFunctionOnSet(weights, 1..(n + 1))
        = weights[n + 1] + SumFunctionOnSet(weights, 1..((n + 1) - 1))
  BY <1>4, SumOneMore, n + 1 \in Nat, n + 1 > 0
<1>6. SumFunctionOnSet(weights, 1..n) \in Nat /\ (n + 1) - 1 = n
  BY <1>4, SumOneMore
<1> QED
  BY <1>4, <1>5, <1>6

\* Every step adds what its phase is to add: a word two bytes, the last byte of
\* odd data one, and folding none.
LEMMA SummedStep ==
  ASSUME ChecksumInv, SummedInv, [ChecksumNext]_checksumVars
  PROVE  SummedInv'
<1>1. Len(data) \in Nat /\ len \in 0..Len(data) /\ data' = data
  BY DEF ChecksumInv, ChecksumNext, addWord, addLast, foldCarry, complement,
         checksumVars
<1>2. weights' = weights
  BY <1>1 DEF weights
<1>3. CASE addWord
  <2>1. phase = "words" /\ phase' = phase /\ len > 1 /\ len' = len - 2
        /\ total' = total + (BYTE * next(0) + next(1))
    BY <1>3 DEF addWord, add
  <2>2. PICK h \in Nat : Len(data) - len = 2 * h /\ summed(2 * h)
    BY <2>1 DEF SummedInv
  <2> DEFINE n == 2 * h
             sums(k) == SumFunctionOnSet(weights, 1..k)
  <2>3. n \in Nat /\ n + 2 <= Len(data) /\ n = Len(data) - len
    BY <1>1, <2>1, <2>2
  <2>4. next(0) = data[n + 1] /\ next(1) = data[n + 2]
    BY <2>3 DEF next
  <2>5. weights[n + 1] = BYTE * data[n + 1] /\ weights[n + 2] = data[n + 2]
    <3>1. /\ (n + 1) % 2 = 1 /\ (n + 2) % 2 = 0
          /\ n + 1 \in 1..Len(data) /\ n + 2 \in 1..Len(data)
      BY <1>1, <2>3
    <3> QED
      BY <3>1 DEF weights
  <2>6. /\ sums(n + 1) = weights[n + 1] + sums(n) /\ sums(n) \in Nat
        /\ weights[n + 1] \in Nat
    BY <2>3, ByteCounts
  <2>7. /\ sums((n + 1) + 1) = weights[(n + 1) + 1] + sums(n + 1)
        /\ weights[(n + 1) + 1] \in Nat
    BY <1>1, <2>3, ByteCounts
  <2>8. total = sums(n)
    BY <2>2 DEF summed
  <2>9. (n + 1) + 1 = n + 2 /\ n + 2 = 2 * (h + 1) /\ h + 1 \in Nat
    BY <2>3
  <2> HIDE DEF n, sums
  <2>10. total' = sums(n + 2)
    BY <2>1, <2>4, <2>5, <2>6, <2>7, <2>8, <2>9
  <2>11. summed(n + 2)'
    BY <1>1, <1>2, <2>3, <2>10 DEF summed, sums
  <2>12. (Len(data) - len)' = 2 * (h + 1)
    BY <1>1, <2>1, <2>3, <2>9
  <2> QED
    BY <2>1, <2>9, <2>11, <2>12, Zenon DEF SummedInv
<1>4. CASE addLast
  <2>1. phase = "words" /\ phase' = "fold" /\ len <= 1
    BY <1>4 DEF addLast
  <2>2. PICK h \in Nat : Len(data) - len = 2 * h /\ summed(2 * h)
    BY <2>1 DEF SummedInv
  <2> DEFINE n == 2 * h
             sums(k) == SumFunctionOnSet(weights, 1..k)
  <2>3. n \in Nat /\ n = Len(data) - len /\ total = sums(n)
    BY <2>2 DEF summed
  <2>4. total' = sums(Len(data))
    <3>1. CASE len = 1
      <4>1. total' = total + BYTE * next(0)
        BY <1>4, <3>1 DEF addLast, add, lastWord
      <4>2. n + 1 = Len(data) /\ next(0) = data[n + 1]
        BY <1>1, <2>3, <3>1 DEF next
      <4>3. weights[n + 1] = BYTE * data[n + 1]
        <5>1. (n + 1) % 2 = 1 /\ n + 1 \in 1..Len(data)
          BY <1>1, <4>2
        <5> QED
          BY <5>1 DEF weights
      <4>4. /\ sums(n + 1) = weights[n + 1] + sums(n) /\ sums(n) \in Nat
            /\ weights[n + 1] \in Nat
        BY <1>1, <2>3, <4>2, ByteCounts
      <4> HIDE DEF n, sums
      <4> QED
        BY <2>3, <4>1, <4>2, <4>3, <4>4
    <3>2. CASE len # 1
      <4>1. len = 0 /\ n = Len(data) /\ total' = total
        BY <1>1, <1>4, <2>1, <2>3, <3>2 DEF addLast
      <4> HIDE DEF n, sums
      <4> QED
        BY <2>3, <4>1
    <3> QED
      BY <3>1, <3>2
  <2>5. summed(Len(data))'
    BY <1>1, <1>2, <2>4 DEF summed
  <2> QED
    BY <2>1, <2>5 DEF SummedInv
<1>5. CASE foldCarry \/ complement
  <2>1. phase # "words" /\ phase' # "words" /\ total' = total
    BY <1>5 DEF foldCarry, complement
  <2> QED
    BY <1>1, <1>2, <2>1 DEF SummedInv, summed
<1>6. CASE UNCHANGED checksumVars
  <2>1. phase' = phase /\ len' = len /\ total' = total
    BY <1>6 DEF checksumVars
  <2> QED
    BY <1>1, <1>2, <2>1 DEF SummedInv, summed
<1> QED
  BY <1>3, <1>4, <1>5, <1>6 DEF ChecksumNext

\* The sum that is folded is that of all bytes, each once and at its place in
\* its word, the last byte of odd data included, for data of any length.
THEOREM ChecksumSumsEveryByte == ChecksumSpec => []SumsEveryByte
<1>1. ChecksumInit => SummedInv
  <2> SUFFICES ASSUME ChecksumInit PROVE SummedInv
    OBVIOUS
  <2>1. Len(data) \in Nat /\ len = Len(data) /\ phase = "words" /\ total = 0
    BY ChecksumInvInit DEF ChecksumInit, ChecksumInv
  <2>2. SumFunctionOnSet(weights, {}) = 0 /\ 1..(2 * 0) = {}
    BY SumOneMore, 0 \in Nat DEF weighs
  <2>3. Len(data) - len = 2 * 0 /\ summed(2 * 0)
    BY <2>1, <2>2 DEF summed
  <2> QED
    BY <2>1, <2>3 DEF SummedInv
<1>2. ChecksumInv /\ SummedInv => SumsEveryByte
  <2>1. DOMAIN weights = 1..Len(data)
    BY DEF weights
  <2> QED
    BY <2>1 DEF SummedInv, summed, SumsEveryByte, SumFunction
<1>3. ChecksumInv /\ SummedInv /\ [ChecksumNext]_checksumVars => SummedInv'
  BY SummedStep
<1> QED
  BY <1>1, <1>2, <1>3, ChecksumInvariant, PTL DEF ChecksumSpec
=============================================================================
