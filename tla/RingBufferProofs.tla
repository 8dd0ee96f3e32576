-------------------------- MODULE RingBufferProofs --------------------------
(***************************************************************************)
(* Proofs about RingBuffer, for every number of producers and consumers    *)
(* and every capacity the constructor accepts, and about PacketBuffer,     *)
(* which owns the ring: with one producer and a clock that is not set      *)
(* back, the capture times do not decrease, for any frames, capacity,      *)
(* number of consumers and resolution of the clock.                        *)
(***************************************************************************)
EXTENDS PacketBuffer, TLAPS

\* The slot i places after slot b, without the modulo.
wrap(b, i) == IF b + i < Capacity THEN b + i ELSE b + i - Capacity

\* A thread holds mtx_ exactly when it is past its predicate and not blocked,
\* and no other thread then does.
MutexInv ==
  /\ \A t \in Threads : pc[t] \in {"sleep", "body"} <=> t \in mtx
  /\ \A t \in mtx : mtx = {t}

\* A thread past its wait has what it waited for, and a writer its data.
CallInv ==
  /\ \A t \in Threads : pc[t] = "body" => mayProceed(t)
  /\ \A w \in Writers : pc[w] # "idle" => buf[w] \in Data

\* head_ is count_ slots after tail_, and delivered followed by the slots from
\* tail_ to head_ is what was accepted.
OrderInv ==
  /\ head_ = wrap(tail_, count_)
  /\ Len(accepted) = Len(delivered) + count_
  /\ \A i \in 1..Len(delivered) : delivered[i] = accepted[i]
  /\ \A i \in 0 .. count_ - 1 :
       buffer_[wrap(tail_, i)] = accepted[Len(delivered) + i + 1]

\* The inductive invariant of the ring.
RingInv == RingTypeOK /\ MutexInv /\ CallInv /\ OrderInv
-----------------------------------------------------------------------------
\* The modulo of the code, for an argument that wraps around at most once.
LEMMA ModSmall == ASSUME NEW c \in Nat \ {0}, NEW x \in Nat, x < c
                  PROVE  x % c = x
  BY SMT

\* The same past one wrap-around.
LEMMA ModWrapped == ASSUME NEW c \in Nat \ {0}, NEW x \in Nat, x >= c, x < c + c
                    PROVE  x % c = x - c
  BY SMT

\* The capacity as the provers need it.
LEMMA CapacityNat == Capacity \in Nat \ {0}
  BY RingAssumption

\* An index at most capacity_ past a slot is the slot or wraps around once.
LEMMA ModWrap == ASSUME NEW b \in Slots, NEW i \in 0..Capacity
                 PROVE  /\ (b + i) % Capacity = wrap(b, i)
                        /\ wrap(b, i) \in Slots
  <1>1. b + i \in Nat /\ b + i < Capacity + Capacity
    BY CapacityNat DEF Slots
  <1>2. CASE b + i < Capacity
    BY <1>1, <1>2, CapacityNat, ModSmall DEF wrap, Slots
  <1>3. CASE b + i >= Capacity
    <2> DEFINE x == b + i
    <2>1. x \in Nat /\ x >= Capacity /\ x < Capacity + Capacity
      BY <1>1, <1>3
    <2>2. x % Capacity = x - Capacity
      <3> HIDE DEF x
      <3> QED  BY <2>1, CapacityNat, ModWrapped, Zenon
    <2> QED  BY <2>1, <2>2, CapacityNat DEF wrap, Slots
  <1> QED  BY <1>1, <1>2, <1>3, CapacityNat

\* Slots less than capacity_ places after the same slot are different.
LEMMA WrapDistinct ==
  ASSUME NEW b \in Slots, NEW n \in 0..Capacity, n < Capacity,
         NEW i \in 0 .. n - 1
  PROVE  wrap(b, i) \in Slots /\ wrap(b, i) # wrap(b, n)
  BY CapacityNat DEF wrap, Slots

\* One place and then n, or n and then one, are n + 1 places.
LEMMA WrapNext ==
  ASSUME NEW b \in Slots, NEW n \in 0..Capacity, n < Capacity
  PROVE  /\ wrap(wrap(b, n), 1) = wrap(b, n + 1)
         /\ wrap(wrap(b, 1), n) = wrap(b, n + 1)
  BY CapacityNat DEF wrap, Slots

\* Append adds one element at the end and keeps the others.
LEMMA AppendFacts ==
  ASSUME NEW S, NEW s \in Seq(S), NEW e \in S
  PROVE  /\ Append(s, e) \in Seq(S)
         /\ Len(s) \in Nat /\ Len(Append(s, e)) = Len(s) + 1
         /\ \A i \in 1..Len(s) : Append(s, e)[i] = s[i]
         /\ Append(s, e)[Len(s) + 1] = e
  OBVIOUS

\* One sequence followed by another, element by element.
LEMMA JoinFacts ==
  ASSUME NEW S, NEW s \in Seq(S), NEW t \in Seq(S)
  PROVE  /\ s \o t \in Seq(S) /\ Len(s \o t) = Len(s) + Len(t)
         /\ \A i \in 1 .. Len(s) + Len(t) :
              (s \o t)[i] = IF i <= Len(s) THEN s[i] ELSE t[i - Len(s)]
  OBVIOUS

\* The first element of a sequence that has one, and the others.
LEMMA TailFacts ==
  ASSUME NEW S, NEW s \in Seq(S), s # <<>>
  PROVE  /\ Head(s) = s[1]
         /\ Tail(s) \in Seq(S) /\ Len(Tail(s)) = Len(s) - 1
         /\ \A i \in 1..Len(Tail(s)) : Tail(s)[i] = s[i + 1]
  OBVIOUS

\* Two sequences of one length with the same elements are the same sequence.
LEMMA SameSequence ==
  ASSUME NEW S, NEW s \in Seq(S), NEW t \in Seq(S), Len(s) = Len(t),
         \A i \in 1..Len(s) : s[i] = t[i]
  PROVE  s = t
  OBVIOUS

\* The parts of the invariant that the order of the slots depends on.
LEMMA OrderFacts ==
  ASSUME RingInv
  PROVE  /\ count_ \in Nat /\ count_ \in 0..Capacity
         /\ head_ \in Slots /\ tail_ \in Slots /\ head_ = wrap(tail_, count_)
         /\ accepted \in Seq(Data) /\ delivered \in Seq(Data)
         /\ Len(delivered) \in Nat /\ Len(accepted) = Len(delivered) + count_
         /\ \A i \in 1..Len(delivered) : delivered[i] = accepted[i]
         /\ \A i \in 0 .. count_ - 1 :
              buffer_[wrap(tail_, i)] = accepted[Len(delivered) + i + 1]
  BY CapacityNat DEF RingInv, RingTypeOK, OrderInv

\* The numbers among them.
LEMMA LengthFacts ==
  ASSUME RingInv
  PROVE  /\ count_ \in Nat /\ count_ <= Capacity
         /\ Len(delivered) \in Nat /\ Len(accepted) = Len(delivered) + count_
  BY OrderFacts, CapacityNat

\* head_ and tail_ advance to the next slot, and from the last to slot 0.
LEMMA NextSlotWraps == ASSUME NEW i \in Slots
                       PROVE  nextSlot(i) = wrap(i, 1) /\ nextSlot(i) \in Slots
  BY CapacityNat, ModWrap DEF nextSlot

PCs == {"idle", "lock", "sleep", "waiting", "body"}

\* A notification moves blocked threads to "lock" and no other thread.
OnlyWakes(at, new) ==
  /\ new \in [Threads -> PCs]
  /\ \A t \in Threads : new[t] = at[t] \/ (at[t] = "waiting" /\ new[t] = "lock")

\* notify_one moves no thread but a waiting one, to where it takes the lock.
LEMMA NotifyOneWakes ==
  ASSUME NEW S \in SUBSET Threads, NEW at \in [Threads -> PCs],
         NEW new \in notify_one(S, at)
  PROVE  OnlyWakes(at, new)
  BY DEF notify_one, waiting, OnlyWakes, PCs

\* Neither does notify_all.
LEMMA NotifyAllWakes ==
  ASSUME NEW S \in SUBSET Threads, NEW at \in [Threads -> PCs]
  PROVE  OnlyWakes(at, notify_all(S, at))
  BY DEF notify_all, waiting, OnlyWakes, PCs
-----------------------------------------------------------------------------
\* The constructed ring satisfies the inductive invariant.
LEMMA RingInvInit == RingInit => RingInv
  <1> SUFFICES ASSUME RingInit PROVE RingInv
    OBVIOUS
  <1>1. RingTypeOK
    BY CapacityNat DEF RingInit, RingTypeOK, Slots
  <1>2. MutexInv /\ CallInv
    BY DEF RingInit, MutexInv, CallInv, Threads
  <1>3. OrderInv
    BY CapacityNat DEF RingInit, OrderInv, wrap
  <1> QED  BY <1>1, <1>2, <1>3 DEF RingInv

\* The calls, the lock and the waits leave the ring's contents alone.
LEMMA OrderUnchanged ==
  ASSUME OrderInv, UNCHANGED <<slotVars, accepted, delivered>>
  PROVE  OrderInv'
  BY DEF OrderInv, slotVars, wrap

\* Entering write(), or being refused by its size check, keeps it.
LEMMA CallWriteInv ==
  ASSUME RingInv, NEW w \in Writers, NEW d \in Data, callWrite(w, d)
  PROVE  RingInv'
  <1> USE DEF Threads
  <1>1. RingTypeOK'
    <2>1. UNCHANGED <<slotVars, mtx, stop_flag, handler, accepted, delivered>>
      BY DEF callWrite
    <2>2. /\ pc' = pc \/ pc' = [pc EXCEPT ![w] = "lock"]
          /\ buf' = buf \/ buf' = [buf EXCEPT ![w] = d]
          /\ \E v \in {"none", "false"} : ret' = [ret EXCEPT ![w] = v]
      BY DEF callWrite
    <2>3. /\ pc' \in [Threads -> {"idle", "lock", "sleep", "waiting", "body"}]
          /\ buf' \in [Threads -> Data \cup {NoData}]
          /\ ret' \in [Threads -> {"none", "true", "false"}]
      <3>1. pc' \in [Threads -> {"idle", "lock", "sleep", "waiting", "body"}]
        BY <2>2, Zenon DEF RingInv, RingTypeOK
      <3>2. buf' \in [Threads -> Data \cup {NoData}]
        BY <2>2 DEF RingInv, RingTypeOK
      <3>3. ret' \in [Threads -> {"none", "true", "false"}]
        BY <2>2 DEF RingInv, RingTypeOK
      <3> QED  BY <3>1, <3>2, <3>3
    <2> QED  BY <2>1, <2>3 DEF RingInv, RingTypeOK, slotVars
  <1>2. MutexInv'
    BY DEF RingInv, RingTypeOK, MutexInv, callWrite
  <1>3. CallInv'
    BY DEF RingInv, RingTypeOK, CallInv, callWrite, slotVars, mayProceed, isFull, isEmpty
  <1>4. OrderInv'
    BY OrderUnchanged DEF RingInv, callWrite
  <1> QED  BY <1>1, <1>2, <1>3, <1>4 DEF RingInv

\* Entering read() keeps it.
LEMMA CallReadInv ==
  ASSUME RingInv, NEW r \in Readers, callRead(r)
  PROVE  RingInv'
  <1> USE DEF Threads
  <1>1. RingTypeOK'
    BY DEF RingInv, RingTypeOK, callRead, slotVars
  <1>2. MutexInv'
    BY DEF RingInv, RingTypeOK, MutexInv, callRead
  <1>3. CallInv'
    BY RingAssumption
    DEF RingInv, RingTypeOK, CallInv, callRead, slotVars, mayProceed, isFull, isEmpty
  <1>4. OrderInv'
    BY OrderUnchanged DEF RingInv, callRead
  <1> QED  BY <1>1, <1>2, <1>3, <1>4 DEF RingInv

\* Taking the mutex and evaluating the predicate keeps it.
LEMMA AcquireInv ==
  ASSUME RingInv, NEW t \in Threads, acquire(t)
  PROVE  RingInv'
  <1>1. RingTypeOK'
    BY DEF RingInv, RingTypeOK, acquire, slotVars
  <1>2. MutexInv'
    BY DEF RingInv, RingTypeOK, MutexInv, acquire
  <1>3. CallInv'
    BY DEF RingInv, RingTypeOK, CallInv, acquire, slotVars, mayProceed, isFull,
           isEmpty, Threads
  <1>4. OrderInv'
    BY OrderUnchanged DEF RingInv, acquire
  <1> QED  BY <1>1, <1>2, <1>3, <1>4 DEF RingInv

\* Blocking in wait() keeps it.
LEMMA BlockInv ==
  ASSUME RingInv, NEW t \in Threads, block(t) \/ spuriousWakeup(t)
  PROVE  RingInv'
  <1> USE DEF block, spuriousWakeup
  <1>1. RingTypeOK'
    BY DEF RingInv, RingTypeOK, slotVars
  <1>2. MutexInv'
    BY DEF RingInv, RingTypeOK, MutexInv
  <1>3. CallInv'
    BY DEF RingInv, RingTypeOK, CallInv, slotVars, mayProceed, isFull, isEmpty, Threads
  <1>4. OrderInv'
    BY OrderUnchanged DEF RingInv
  <1> QED  BY <1>1, <1>2, <1>3, <1>4 DEF RingInv

\* The lock-free steps of signalHandler keep it.
LEMMA HandlerInv ==
  ASSUME RingInv, signalHandler
  PROVE  RingInv'
  <1> DEFINE woken == \E S \in {Writers, Readers} : pc' = notify_all(S, pc)
  <1>1. OnlyWakes(pc, pc')
    <2>1. pc \in [Threads -> PCs] /\ Writers \in SUBSET Threads /\ Readers \in SUBSET Threads
      BY DEF RingInv, RingTypeOK, PCs, Threads
    <2>2. CASE handlerStore
      BY <2>1, <2>2 DEF handlerStore, OnlyWakes
    <2>3. CASE woken
      BY <2>1, <2>3, NotifyAllWakes
    <2> QED
      BY <2>2, <2>3 DEF signalHandler, handlerNotifyData, handlerNotifySpace
  <1>2. /\ UNCHANGED <<slotVars, mtx, buf, ret, accepted, delivered>>
        /\ stop_flag \in BOOLEAN /\ stop_flag' \in {stop_flag, TRUE}
        /\ handler' \in {"idle", "stored", "notified"}
    BY Zenon DEF signalHandler, handlerStore, handlerNotifyData, handlerNotifySpace,
           RingInv, RingTypeOK
  <1>3. RingTypeOK'
    BY <1>1, <1>2, Zenon DEF RingInv, RingTypeOK, OnlyWakes, PCs, slotVars
  <1>4. MutexInv'
    BY <1>1, <1>2 DEF RingInv, MutexInv, OnlyWakes
  <1>5. CallInv'
    BY <1>1, <1>2, Zenon DEF RingInv, CallInv, OnlyWakes, slotVars, mayProceed,
                      isFull, isEmpty, Threads
  <1>6. OrderInv'
    BY <1>2, OrderUnchanged DEF RingInv
  <1> QED  BY <1>3, <1>4, <1>5, <1>6 DEF RingInv

\* A write that stores its data: there is a free slot, at head_.
LEMMA WriteStores ==
  ASSUME RingInv, NEW w \in Writers, write(w), ~(stop_flag /\ isFull)
  PROVE  /\ count_ < Capacity
         /\ buf[w] \in Data
         /\ OnlyWakes([pc EXCEPT ![w] = "idle"], pc')
  <1>1. w \in Threads /\ mayProceed(w) /\ buf[w] \in Data
    BY DEF RingInv, CallInv, write, Threads
  <1>2. count_ < Capacity
    BY <1>1, CapacityNat DEF mayProceed, isFull, RingInv, RingTypeOK
  <1>3. [pc EXCEPT ![w] = "idle"] \in [Threads -> PCs] /\ Readers \in SUBSET Threads
    BY <1>1 DEF RingInv, RingTypeOK, PCs, Threads
  <1>4. pc' \in notify_one(Readers, [pc EXCEPT ![w] = "idle"])
    BY DEF write
  <1> QED  BY <1>1, <1>2, <1>3, <1>4, NotifyOneWakes, Zenon

\* A read that returns data: there is a filled slot, at tail_.
LEMMA ReadTakes ==
  ASSUME RingInv, NEW r \in Readers, read(r), ~(stop_flag /\ isEmpty)
  PROVE  /\ count_ > 0
         /\ buffer_[tail_] = accepted[Len(delivered) + 1]
         /\ buffer_[tail_] \in Data
         /\ OnlyWakes([pc EXCEPT ![r] = "idle"], pc')
  <1>1. r \in Threads /\ mayProceed(r) /\ r \notin Writers
    BY RingAssumption DEF RingInv, CallInv, read, Threads
  <1>2. count_ > 0
    BY <1>1 DEF mayProceed, isEmpty, RingInv, RingTypeOK
  <1>3. wrap(tail_, 0) = tail_
    BY CapacityNat DEF wrap, RingInv, RingTypeOK, Slots
  <1>4. buffer_[tail_] = accepted[Len(delivered) + 1]
    BY <1>2, <1>3 DEF RingInv, RingTypeOK, OrderInv
  <1>5. buffer_[tail_] \in Data
    BY <1>2, <1>4 DEF RingInv, RingTypeOK, OrderInv
  <1>6. [pc EXCEPT ![r] = "idle"] \in [Threads -> PCs] /\ Writers \in SUBSET Threads
    BY <1>1 DEF RingInv, RingTypeOK, PCs, Threads
  <1>7. pc' \in notify_one(Writers, [pc EXCEPT ![r] = "idle"])
    BY DEF read
  <1> QED  BY <1>2, <1>4, <1>5, <1>6, <1>7, NotifyOneWakes, Zenon

\* The body of write() keeps it.
LEMMA WriteInv ==
  ASSUME RingInv, NEW w \in Writers, write(w)
  PROVE  RingInv'
  <1>t. w \in Threads /\ w \in mtx /\ mtx = {w}
    BY DEF RingInv, MutexInv, write, Threads
  <1>1. CASE stop_flag /\ isFull
    <2>1. /\ pc' = [pc EXCEPT ![w] = "idle"]
          /\ UNCHANGED <<slotVars, stop_flag, buf, handler, accepted, delivered>>
          /\ mtx' = {} /\ ret' = [ret EXCEPT ![w] = "false"]
      BY <1>1 DEF write
    <2>2. RingTypeOK'
      BY <2>1, Zenon DEF RingInv, RingTypeOK, slotVars
    <2>3. MutexInv'
      BY <2>1, <1>t DEF RingInv, RingTypeOK, MutexInv
    <2>4. CallInv'
      BY <2>1, <1>t DEF RingInv, RingTypeOK, CallInv, slotVars, mayProceed,
                        isFull, isEmpty, Threads
    <2>5. OrderInv'
      BY <2>1, OrderUnchanged DEF RingInv
    <2> QED  BY <2>2, <2>3, <2>4, <2>5 DEF RingInv
  <1>2. CASE ~(stop_flag /\ isFull)
    <2> DEFINE idled == [pc EXCEPT ![w] = "idle"]
    <2>1. /\ count_ < Capacity /\ buf[w] \in Data /\ OnlyWakes(idled, pc')
      BY <1>2, WriteStores
    <2>2. /\ buffer_' = [buffer_ EXCEPT ![head_] = buf[w]]
          /\ head_' = nextSlot(head_)
          /\ count_' = count_ + 1
          /\ ret' = [ret EXCEPT ![w] = "true"]
          /\ accepted' = Append(accepted, buf[w])
          /\ mtx' = {}
          /\ UNCHANGED <<tail_, stop_flag, buf, handler, delivered>>
      BY <1>2 DEF write
    <2>3. head_ \in Slots /\ head_' = wrap(head_, 1) /\ head_' \in Slots
      BY <2>2, NextSlotWraps DEF RingInv, RingTypeOK
    <2>4. RingTypeOK'
      <3>1. count_' \in 0..Capacity
        BY <2>1, <2>2, CapacityNat DEF RingInv, RingTypeOK
      <3>2. accepted' \in Seq(Data) /\ delivered' \in Seq(Data)
        BY <2>1, <2>2 DEF RingInv, RingTypeOK
      <3> QED
        BY <2>1, <2>2, <2>3, <3>1, <3>2, Zenon DEF RingInv, RingTypeOK, OnlyWakes, PCs
    <2>5. MutexInv'
      BY <2>1, <2>2, <1>t DEF RingInv, RingTypeOK, MutexInv, OnlyWakes
    <2>6. CallInv'
      BY <2>1, <2>2, <1>t, Zenon
        DEF RingInv, RingTypeOK, MutexInv, CallInv, OnlyWakes, Threads
    <2>7. OrderInv'
      <3>s. accepted \in Seq(Data) /\ accepted' = Append(accepted, buf[w])
        BY <2>2, OrderFacts
      <3>l. Len(accepted') = Len(accepted) + 1
        BY <2>1, <3>s, AppendFacts
      <3>a. /\ \A i \in 1..Len(accepted) : accepted'[i] = accepted[i]
            /\ accepted'[Len(accepted) + 1] = buf[w]
        BY <2>1, <3>s, AppendFacts
      <3>1. head_' = wrap(tail_', count_')
        BY <2>1, <2>2, <2>3, OrderFacts, WrapNext
      <3>2. Len(accepted') = Len(delivered') + count_'
        <4>1. count_' = count_ + 1 /\ Len(delivered') = Len(delivered)
          BY <2>2
        <4> QED  BY <3>l, <4>1, LengthFacts
      <3>3. ASSUME NEW i \in 1..Len(delivered')
            PROVE  delivered'[i] = accepted'[i]
        <4>1. i \in 1..Len(delivered) /\ i \in 1..Len(accepted)
          BY <2>2, LengthFacts
        <4> QED  BY <2>2, <3>a, <4>1, OrderFacts
      <3>4. ASSUME NEW i \in 0 .. count_' - 1
            PROVE  buffer_'[wrap(tail_', i)] = accepted'[Len(delivered') + i + 1]
        <4>1. CASE i = count_
          <5>1. wrap(tail_', i) = head_ /\ Len(delivered') + i + 1 = Len(accepted) + 1
            BY <2>2, <4>1, OrderFacts
          <5>2. buffer_'[head_] = buf[w]
            BY <2>2, <2>3 DEF RingInv, RingTypeOK
          <5> QED  BY <3>a, <5>1, <5>2
        <4>2. CASE i \in 0 .. count_ - 1
          <5>1. wrap(tail_, i) \in Slots /\ wrap(tail_, i) # head_
            BY <2>1, <4>2, OrderFacts, WrapDistinct
          <5>2. buffer_'[wrap(tail_, i)] = buffer_[wrap(tail_, i)]
            BY <2>2, <5>1 DEF RingInv, RingTypeOK
          <5>3. Len(delivered) + i + 1 \in 1..Len(accepted)
            BY <4>2, LengthFacts
          <5>4. accepted'[Len(delivered) + i + 1] = accepted[Len(delivered) + i + 1]
            BY <3>a, <5>3
          <5>5. buffer_[wrap(tail_, i)] = accepted[Len(delivered) + i + 1]
            BY <4>2, OrderFacts, Zenon
          <5>6. tail_' = tail_ /\ delivered' = delivered
            BY <2>2
          <5> QED  BY <5>2, <5>4, <5>5, <5>6
        <4>3. i = count_ \/ i \in 0 .. count_ - 1
          BY <2>2, LengthFacts
        <4> QED  BY <4>1, <4>2, <4>3
      <3> QED  BY <3>1, <3>2, <3>3, <3>4 DEF OrderInv, wrap
    <2> QED  BY <2>4, <2>5, <2>6, <2>7 DEF RingInv
  <1> QED  BY <1>1, <1>2

\* The body of read() keeps it.
LEMMA ReadInv ==
  ASSUME RingInv, NEW r \in Readers, read(r)
  PROVE  RingInv'
  <1>t. r \in Threads /\ mtx = {r} /\ r \notin Writers
    BY RingAssumption DEF RingInv, MutexInv, read, Threads
  <1>1. CASE stop_flag /\ isEmpty
    <2>1. /\ pc' = [pc EXCEPT ![r] = "idle"]
          /\ UNCHANGED <<slotVars, stop_flag, buf, handler, accepted, delivered>>
          /\ mtx' = {} /\ ret' = [ret EXCEPT ![r] = "false"]
      BY <1>1 DEF read
    <2>2. RingTypeOK'
      BY <2>1, Zenon DEF RingInv, RingTypeOK, slotVars
    <2>3. MutexInv'
      BY <2>1, <1>t DEF RingInv, RingTypeOK, MutexInv
    <2>4. CallInv'
      BY <2>1, <1>t DEF RingInv, RingTypeOK, CallInv, slotVars, mayProceed,
                        isFull, isEmpty, Threads
    <2>5. OrderInv'
      BY <2>1, OrderUnchanged DEF RingInv
    <2> QED  BY <2>2, <2>3, <2>4, <2>5 DEF RingInv
  <1>2. CASE ~(stop_flag /\ isEmpty)
    <2> DEFINE idled == [pc EXCEPT ![r] = "idle"]
    <2>1. /\ count_ > 0 /\ buffer_[tail_] \in Data
          /\ buffer_[tail_] = accepted[Len(delivered) + 1]
          /\ OnlyWakes(idled, pc')
      BY <1>2, ReadTakes
    <2>2. /\ buf' = [buf EXCEPT ![r] = buffer_[tail_]]
          /\ tail_' = nextSlot(tail_)
          /\ count_' = count_ - 1
          /\ ret' = [ret EXCEPT ![r] = "true"]
          /\ delivered' = Append(delivered, buffer_[tail_])
          /\ mtx' = {}
          /\ UNCHANGED <<head_, buffer_, stop_flag, handler, accepted>>
      BY <1>2 DEF read
    <2>3. tail_ \in Slots /\ tail_' = wrap(tail_, 1) /\ tail_' \in Slots
      BY <2>2, NextSlotWraps DEF RingInv, RingTypeOK
    <2>4. RingTypeOK'
      <3>1. count_' \in 0..Capacity
        BY <2>1, <2>2, CapacityNat DEF RingInv, RingTypeOK
      <3>2. accepted' \in Seq(Data) /\ delivered' \in Seq(Data)
        BY <2>1, <2>2 DEF RingInv, RingTypeOK
      <3> QED
        BY <2>1, <2>2, <2>3, <3>1, <3>2, Zenon DEF RingInv, RingTypeOK, OnlyWakes, PCs
    <2>5. MutexInv'
      BY <2>1, <2>2, <1>t DEF RingInv, RingTypeOK, MutexInv, OnlyWakes
    <2>6. CallInv'
      BY <2>1, <2>2, <1>t, Zenon
        DEF RingInv, RingTypeOK, MutexInv, CallInv, OnlyWakes, Threads
    <2>7. OrderInv'
      <3>s. delivered \in Seq(Data) /\ delivered' = Append(delivered, buffer_[tail_])
        BY <2>2, OrderFacts
      <3>l. Len(delivered') = Len(delivered) + 1
        BY <2>1, <3>s, AppendFacts
      <3>a. /\ \A i \in 1..Len(delivered) : delivered'[i] = delivered[i]
            /\ delivered'[Len(delivered) + 1] = accepted[Len(delivered) + 1]
        BY <2>1, <3>s, AppendFacts
      <3>b. count_' \in 0..Capacity /\ count_' < Capacity /\ count_ = count_' + 1
        <4>1. count_' = count_ - 1
          BY <2>2
        <4> QED  BY <2>1, <4>1, LengthFacts, CapacityNat
      <3>1. head_' = wrap(tail_', count_')
        BY <2>2, <2>3, <3>b, OrderFacts, WrapNext
      <3>2. Len(accepted') = Len(delivered') + count_'
        <4>1. Len(accepted') = Len(accepted)
          BY <2>2
        <4> QED  BY <3>l, <3>b, <4>1, LengthFacts
      <3>3. ASSUME NEW i \in 1..Len(delivered')
            PROVE  delivered'[i] = accepted'[i]
        <4>1. i \in 1..Len(delivered) \/ i = Len(delivered) + 1
          BY <3>l, LengthFacts
        <4> QED  BY <2>2, <3>a, <4>1, OrderFacts
      <3>4. ASSUME NEW i \in 0 .. count_' - 1
            PROVE  buffer_'[wrap(tail_', i)] = accepted'[Len(delivered') + i + 1]
        <4>1. /\ i + 1 \in 0 .. count_ - 1 /\ i \in 0..Capacity /\ i < Capacity
              /\ Len(delivered') + i + 1 = Len(delivered) + (i + 1) + 1
          <5>a. count_' = count_ - 1
            BY <2>2
          <5>b. count_ \in Nat /\ count_ <= Capacity
            BY LengthFacts
          <5>1. i \in Nat /\ i + 1 <= count_ - 1
            BY <5>a, <5>b
          <5>2. ASSUME NEW l \in Nat, NEW k \in Nat
                PROVE  l + 1 + k + 1 = l + (k + 1) + 1
            OBVIOUS
          <5>3. Len(delivered') + i + 1 = Len(delivered) + (i + 1) + 1
            BY <3>l, <5>1, <5>2, LengthFacts
          <5> QED  BY <5>b, <5>1, <5>3, CapacityNat
        <4>2. wrap(tail_', i) = wrap(tail_, i + 1)
          BY <2>3, <4>1, WrapNext
        <4>3. buffer_[wrap(tail_, i + 1)] = accepted[Len(delivered) + (i + 1) + 1]
          BY <4>1, OrderFacts
        <4> QED  BY <2>2, <4>1, <4>2, <4>3
      <3> QED  BY <3>1, <3>2, <3>3, <3>4 DEF OrderInv, wrap
    <2> QED  BY <2>4, <2>5, <2>6, <2>7 DEF RingInv
  <1> QED  BY <1>1, <1>2

\* Every step of the ring keeps it.
LEMMA RingInvStep == RingInv /\ [RingNext]_ringVars => RingInv'
  <1> SUFFICES ASSUME RingInv, [RingNext]_ringVars PROVE RingInv'
    OBVIOUS
  <1>1. CASE UNCHANGED ringVars
    BY <1>1 DEF RingInv, ringVars, RingTypeOK, MutexInv, CallInv, OrderInv,
                mayProceed, isFull, isEmpty, wrap
  <1>2. CASE RingNext
    BY <1>2, CallWriteInv, CallReadInv, AcquireInv, BlockInv, WriteInv, ReadInv,
         HandlerInv
    DEF RingNext, threadStep
  <1> QED  BY <1>1, <1>2

\* Every behaviour of the ring satisfies the inductive invariant: the mutex
\* excludes, a thread in the body found its predicate true, and the slots from
\* tail_ on hold what was accepted and not yet delivered.
THEOREM RingInvariant == RingSpec => []RingInv
  BY RingInvInit, RingInvStep, PTL DEF RingSpec

\* The ring's type invariant, for every capacity and every set of threads.
THEOREM TypeCorrect == RingSpec => []RingTypeOK
  <1>1. RingInv => RingTypeOK
    BY DEF RingInv
  <1> QED  BY <1>1, RingInvariant, PTL
-----------------------------------------------------------------------------
\* A notification leaves a thread that is outside of the ring outside.
LEMMA WakesInside ==
  ASSUME NEW at \in [Threads -> PCs], NEW new, OnlyWakes(at, new), NEW t \in Threads
  PROVE  new[t] = "idle" <=> at[t] = "idle"
  BY DEF OnlyWakes

\* What a step of a producer inside write() can be: it stays inside, or the
\* ring refuses its data after a stop, or it stores them.  No other thread
\* enters or leaves the ring.
LEMMA WriterStep ==
  ASSUME RingInv, NEW w \in Writers, threadStep(w)
  PROVE  /\ pc[w] # "idle"
         /\ \A t \in Threads \ {w} :
              (pc'[t] = "idle" <=> pc[t] = "idle") /\ ret'[t] = ret[t]
         /\ UNCHANGED <<buf, stop_flag, delivered>>
         /\ \/ pc'[w] # "idle" /\ ret'[w] = ret[w] /\ UNCHANGED accepted
            \/ /\ pc'[w] = "idle" /\ ret'[w] = "false" /\ stop_flag
               /\ UNCHANGED accepted
            \/ /\ pc'[w] = "idle" /\ ret'[w] = "true"
               /\ accepted' = Append(accepted, buf[w]) /\ buf[w] \in Data
  <1>t. /\ pc \in [Threads -> PCs] /\ ret \in [Threads -> {"none", "true", "false"}]
        /\ w \in Threads /\ w \notin Readers
    BY RingAssumption DEF RingInv, RingTypeOK, PCs, Threads
  <1>1. CASE acquire(w)
    BY <1>1, <1>t DEF acquire
  <1>2. CASE block(w)
    BY <1>2, <1>t DEF block
  <1>3. CASE write(w)
    <2>1. CASE stop_flag /\ isFull
      BY <1>3, <1>t, <2>1 DEF write
    <2>2. CASE ~(stop_flag /\ isFull)
      <3>1. buf[w] \in Data /\ OnlyWakes([pc EXCEPT ![w] = "idle"], pc')
        BY <1>3, <2>2, WriteStores
      <3>2. [pc EXCEPT ![w] = "idle"] \in [Threads -> PCs]
        BY <1>t DEF PCs
      <3>3. /\ pc'[w] = "idle"
            /\ \A t \in Threads \ {w} : pc'[t] = "idle" <=> pc[t] = "idle"
        BY <1>t, <3>1, <3>2, WakesInside, Zenon
      <3> QED  BY <1>3, <1>t, <2>2, <3>1, <3>3 DEF write
    <2> QED  BY <2>1, <2>2
  <1> QED  BY <1>t, <1>1, <1>2, <1>3, Zenon DEF threadStep

\* What a step of a consumer inside read() can be: it stays inside, or the
\* ring has nothing for it after a stop, or it takes the oldest data.
LEMMA ReaderStep ==
  ASSUME RingInv, NEW r \in Readers, threadStep(r)
  PROVE  /\ pc[r] # "idle"
         /\ \A t \in Threads \ {r} : /\ pc'[t] = "idle" <=> pc[t] = "idle"
                                     /\ ret'[t] = ret[t] /\ buf'[t] = buf[t]
         /\ UNCHANGED <<stop_flag, accepted>>
         /\ \/ pc'[r] # "idle" /\ UNCHANGED delivered
            \/ pc'[r] = "idle" /\ ret'[r] = "false" /\ UNCHANGED delivered
            \/ /\ pc'[r] = "idle" /\ ret'[r] = "true" /\ buf'[r] \in Data
               /\ delivered' = Append(delivered, buf'[r])
  <1>t. /\ pc \in [Threads -> PCs] /\ ret \in [Threads -> {"none", "true", "false"}]
        /\ buf \in [Threads -> Data \cup {NoData}] /\ r \in Threads /\ r \notin Writers
    BY RingAssumption DEF RingInv, RingTypeOK, PCs, Threads
  <1>1. CASE acquire(r)
    BY <1>1, <1>t DEF acquire
  <1>2. CASE block(r)
    BY <1>2, <1>t DEF block
  <1>3. CASE read(r)
    <2>1. CASE stop_flag /\ isEmpty
      BY <1>3, <1>t, <2>1 DEF read
    <2>2. CASE ~(stop_flag /\ isEmpty)
      <3>1. buffer_[tail_] \in Data /\ OnlyWakes([pc EXCEPT ![r] = "idle"], pc')
        BY <1>3, <2>2, ReadTakes
      <3>2. [pc EXCEPT ![r] = "idle"] \in [Threads -> PCs]
        BY <1>t DEF PCs
      <3>3. /\ pc'[r] = "idle"
            /\ \A t \in Threads \ {r} : pc'[t] = "idle" <=> pc[t] = "idle"
        BY <1>t, <3>1, <3>2, WakesInside, Zenon
      <3> QED  BY <1>3, <1>t, <2>2, <3>1, <3>3 DEF read
    <2> QED  BY <2>1, <2>2
  <1> QED  BY <1>t, <1>1, <1>2, <1>3, Zenon DEF threadStep

\* A wakeup and the signal handler move no thread into or out of the ring.
LEMMA WakeStep ==
  ASSUME RingInv, signalHandler \/ \E t \in Threads : spuriousWakeup(t)
  PROVE /\ \A t \in Threads : pc'[t] = "idle" <=> pc[t] = "idle"
        /\ stop_flag => stop_flag'
        /\ UNCHANGED <<buf, ret, accepted, delivered>>
  <1>t. pc \in [Threads -> PCs]
    BY DEF RingInv, RingTypeOK, PCs
  <1>1. CASE signalHandler
    <2>1. pc' = pc \/ \E S \in SUBSET Threads : pc' = notify_all(S, pc)
      BY <1>1 DEF signalHandler, handlerStore, handlerNotifyData,
                  handlerNotifySpace, Threads
    <2>2. \A t \in Threads : pc'[t] = "idle" <=> pc[t] = "idle"
      BY <1>t, <2>1, NotifyAllWakes, WakesInside
    <2>3. (stop_flag => stop_flag') /\ UNCHANGED <<buf, ret, accepted, delivered>>
      BY <1>1 DEF signalHandler, handlerStore, handlerNotifyData, handlerNotifySpace
    <2> QED
      BY <2>2, <2>3
  <1>2. CASE \E t \in Threads : spuriousWakeup(t)
    BY <1>2, <1>t DEF spuriousWakeup
  <1> QED
    BY <1>1, <1>2
-----------------------------------------------------------------------------
\* contents as a sequence, one slot after the other from tail_.
ContentsInv ==
  /\ contents \in Seq(Data)
  /\ Len(contents) = count_
  /\ \A i \in 1..count_ : contents[i] = accepted[Len(delivered) + i]

\* The contents of the ring are a sequence of count_ accepted data.
LEMMA ContentsIsSeq == RingInv => ContentsInv
  <1> SUFFICES ASSUME RingInv PROVE ContentsInv
    OBVIOUS
  <1>t. /\ count_ \in Nat /\ count_ <= Capacity /\ tail_ \in Slots
        /\ accepted \in Seq(Data) /\ delivered \in Seq(Data)
        /\ Len(delivered) \in Nat /\ Len(accepted) = Len(delivered) + count_
    BY CapacityNat DEF RingInv, RingTypeOK, OrderInv
  <1>1. ASSUME NEW i \in 1..count_
        PROVE  /\ contents[i] = accepted[Len(delivered) + i]
               /\ contents[i] \in Data
    <2>1. i - 1 \in 0 .. count_ - 1 /\ i - 1 \in 0..Capacity
      BY <1>t, CapacityNat
    <2>2. contents[i] = buffer_[wrap(tail_, i - 1)]
      BY <1>t, <2>1, ModWrap DEF contents
    <2>3. buffer_[wrap(tail_, i - 1)] = accepted[Len(delivered) + (i - 1) + 1]
      BY <2>1 DEF RingInv, OrderInv
    <2>4. Len(delivered) + (i - 1) + 1 = Len(delivered) + i
      BY <1>t
    <2>5. accepted[Len(delivered) + i] \in Data
      BY <1>t
    <2> QED  BY <2>2, <2>3, <2>4, <2>5
  <1>2. contents \in [1..count_ -> Data]
    BY <1>1 DEF contents
  <1> QED  BY <1>t, <1>1, <1>2 DEF ContentsInv

\* The same of the next state.
LEMMA ContentsIsSeqNext == RingInv' => ContentsInv'
  BY ContentsIsSeq, PTL

\* In a state of the invariant the ring is first in, first out.
LEMMA RingInvFifo == RingInv => Fifo
  <1>1. ASSUME RingInv PROVE Fifo
    <2>1. /\ accepted \in Seq(Data) /\ delivered \in Seq(Data) /\ contents \in Seq(Data)
          /\ Len(contents) = count_
          /\ Len(accepted) = Len(delivered) + count_
          /\ \A i \in 1..Len(delivered) : delivered[i] = accepted[i]
          /\ \A i \in 1..count_ : contents[i] = accepted[Len(delivered) + i]
          /\ count_ \in Nat /\ Len(delivered) \in Nat
      BY <1>1, ContentsIsSeq, OrderFacts DEF ContentsInv
    <2>2. delivered \o contents \in Seq(Data) /\ Len(delivered \o contents) = Len(accepted)
      BY <2>1, JoinFacts
    <2>3. ASSUME NEW i \in 1..Len(accepted)
          PROVE  accepted[i] = (delivered \o contents)[i]
      <3>1. CASE i \in 1..Len(delivered)
        <4>1. (delivered \o contents)[i] = delivered[i]
          BY <2>1, <3>1, JoinFacts
        <4> QED  BY <2>1, <3>1, <4>1
      <3>2. CASE i \in Len(delivered) + 1 .. Len(accepted)
        <4>1. /\ i - Len(delivered) \in 1..count_
              /\ Len(delivered) + (i - Len(delivered)) = i
          BY <2>1, <3>2
        <4>2. (delivered \o contents)[i] = contents[i - Len(delivered)]
          BY <2>1, <3>2, JoinFacts
        <4> QED  BY <2>1, <4>1, <4>2
      <3>3. i \in 1..Len(delivered) \/ i \in Len(delivered) + 1 .. Len(accepted)
        BY <2>1
      <3> QED  BY <3>1, <3>2, <3>3, Zenon
    <2> QED  BY <2>1, <2>2, <2>3, SameSequence DEF Fifo
  <1> QED  BY <1>1

\* First in, first out, for every capacity, number of threads and
\* interleaving, the stop signal included.
THEOREM FifoOrder == RingSpec => []Fifo
  BY RingInvFifo, RingInvariant, PTL
-----------------------------------------------------------------------------
\* A write that stores its data is a Put.
LEMMA WriteIsPut ==
  ASSUME RingInv, RingInv', NEW w \in Writers, write(w), ~(stop_flag /\ isFull)
  PROVE  Queue!Put(buf[w]) /\ buf[w] \in Data
  <1>1. count_ < Capacity /\ buf[w] \in Data
    BY WriteStores, Zenon
  <1>2. /\ count_' = count_ + 1 /\ count_ \in Nat
        /\ delivered' = delivered
        /\ accepted' = Append(accepted, buf[w])
    BY LengthFacts DEF write
  <1>3. /\ contents \in Seq(Data) /\ Len(contents) = count_
        /\ \A i \in 1..count_ : contents[i] = accepted[Len(delivered) + i]
    BY ContentsIsSeq DEF ContentsInv
  <1>4. /\ contents' \in Seq(Data) /\ Len(contents') = count_ + 1
        /\ \A i \in 1 .. count_ + 1 : contents'[i] = Append(accepted, buf[w])[Len(delivered) + i]
    BY <1>2, ContentsIsSeqNext, Zenon DEF ContentsInv
  <1>5. /\ accepted \in Seq(Data) /\ Len(accepted) = Len(delivered) + count_
        /\ Len(delivered) \in Nat
    BY OrderFacts
  <1>6. ASSUME NEW i \in 1 .. count_ + 1
        PROVE  contents'[i] = Append(contents, buf[w])[i]
    <2>1. CASE i = count_ + 1
      <3>1. contents'[i] = Append(accepted, buf[w])[Len(accepted) + 1]
        BY <1>2, <1>4, <1>5, <2>1
      <3>2. Append(accepted, buf[w])[Len(accepted) + 1] = buf[w]
        BY <1>1, <1>5, AppendFacts
      <3>3. Append(contents, buf[w])[count_ + 1] = buf[w]
        BY <1>1, <1>3, AppendFacts
      <3> QED  BY <2>1, <3>1, <3>2, <3>3
    <2>2. CASE i \in 1..count_
      <3>1. Len(delivered) + i \in 1..Len(accepted)
        BY <1>2, <1>5, <2>2
      <3>2. Append(accepted, buf[w])[Len(delivered) + i] = accepted[Len(delivered) + i]
        BY <1>1, <1>5, <3>1, AppendFacts
      <3>3. Append(contents, buf[w])[i] = contents[i]
        BY <1>1, <1>3, <2>2, AppendFacts
      <3> QED  BY <1>3, <1>4, <2>2, <3>2, <3>3, Zenon
    <2>3. i = count_ + 1 \/ i \in 1..count_
      BY <1>2
    <2> QED  BY <2>1, <2>2, <2>3, Zenon
  <1>7. contents' = Append(contents, buf[w])
    <2>1. /\ Append(contents, buf[w]) \in Seq(Data)
          /\ Len(Append(contents, buf[w])) = count_ + 1
      BY <1>1, <1>3, AppendFacts
    <2> QED  BY <1>4, <1>6, <2>1, SameSequence
  <1> QED  BY <1>1, <1>2, <1>3, <1>7 DEF Queue!Put

\* A read that returns data is a Take.
LEMMA ReadIsTake ==
  ASSUME RingInv, RingInv', NEW r \in Readers, read(r), ~(stop_flag /\ isEmpty)
  PROVE  Queue!Take
  <1>1. /\ count_ > 0 /\ buffer_[tail_] = accepted[Len(delivered) + 1]
        /\ buffer_[tail_] \in Data
    BY ReadTakes, Zenon
  <1>2. /\ count_' = count_ - 1 /\ count_ \in Nat
        /\ delivered' = Append(delivered, buffer_[tail_])
        /\ accepted' = accepted
    BY LengthFacts DEF read
  <1>3. /\ contents \in Seq(Data) /\ Len(contents) = count_
        /\ \A i \in 1..count_ : contents[i] = accepted[Len(delivered) + i]
    BY ContentsIsSeq DEF ContentsInv
  <1>4. delivered \in Seq(Data) /\ Len(delivered) \in Nat /\ Len(delivered') = Len(delivered) + 1
    BY <1>1, <1>2, OrderFacts, AppendFacts
  <1>5. /\ contents' \in Seq(Data) /\ Len(contents') = count_ - 1
        /\ \A i \in 1 .. count_ - 1 : contents'[i] = accepted[Len(delivered) + 1 + i]
    BY <1>2, <1>4, ContentsIsSeqNext DEF ContentsInv
  <1>6. contents # <<>> /\ Head(contents) = buffer_[tail_]
    <2>1. 1 \in 1..count_ /\ contents[1] = buffer_[tail_]
      BY <1>1, <1>2, <1>3
    <2>2. contents # <<>>
      BY <1>1, <1>3
    <2> QED  BY <1>3, <2>1, <2>2, TailFacts
  <1>7. /\ Tail(contents) \in Seq(Data) /\ Len(Tail(contents)) = count_ - 1
        /\ \A i \in 1 .. count_ - 1 : Tail(contents)[i] = contents[i + 1]
    BY <1>2, <1>3, <1>6, TailFacts
  <1>8. ASSUME NEW i \in 1 .. count_ - 1
        PROVE  contents'[i] = Tail(contents)[i]
    <2>1. i + 1 \in 1..count_ /\ Len(delivered) + (i + 1) = Len(delivered) + 1 + i
      BY <1>2, <1>4
    <2> QED  BY <1>3, <1>5, <1>7, <2>1, Zenon
  <1>9. contents' = Tail(contents)
    BY <1>5, <1>7, <1>8, SameSequence
  <1> QED  BY <1>2, <1>6, <1>9 DEF Queue!Take

\* Every step of the ring is a step of the queue or leaves it as it is.
LEMMA QueueStep ==
  ASSUME RingInv, RingInv', [RingNext]_ringVars
  PROVE  [Queue!QueueNext]_(Queue!queueVars)
  <1>1. CASE UNCHANGED <<slotVars, delivered>>
    BY <1>1 DEF slotVars, contents, Queue!queueVars
  <1>2. CASE \E w \in Writers : write(w) /\ ~(stop_flag /\ isFull)
    BY <1>2, WriteIsPut DEF Queue!QueueNext
  <1>3. CASE \E r \in Readers : read(r) /\ ~(stop_flag /\ isEmpty)
    BY <1>3, ReadIsTake DEF Queue!QueueNext
  <1>4. CASE UNCHANGED ringVars
    BY <1>1, <1>4 DEF ringVars, slotVars
  <1>5. ASSUME NEW w \in Writers, NEW d \in Data, callWrite(w, d)
        PROVE  UNCHANGED <<slotVars, delivered>>
    BY <1>5 DEF callWrite
  <1>6. ASSUME NEW r \in Readers, callRead(r)
        PROVE  UNCHANGED <<slotVars, delivered>>
    BY <1>6 DEF callRead
  <1>7. ASSUME NEW t \in Threads, acquire(t) \/ block(t) \/ spuriousWakeup(t)
        PROVE  UNCHANGED <<slotVars, delivered>>
    BY <1>7 DEF acquire, block, spuriousWakeup
  <1>8. ASSUME signalHandler
        PROVE  UNCHANGED <<slotVars, delivered>>
    BY <1>8 DEF signalHandler, handlerStore, handlerNotifyData, handlerNotifySpace
  <1>9. ASSUME NEW w \in Writers, write(w), stop_flag /\ isFull
        PROVE  UNCHANGED <<slotVars, delivered>>
    BY <1>9 DEF write
  <1>10. ASSUME NEW r \in Readers, read(r), stop_flag /\ isEmpty
         PROVE  UNCHANGED <<slotVars, delivered>>
    BY <1>10 DEF read
  <1>11. CASE RingNext
    BY <1>1, <1>2, <1>3, <1>5, <1>6, <1>7, <1>8, <1>9, <1>10, <1>11, Zenon
       DEF RingNext, threadStep
  <1> QED  BY <1>4, <1>11

\* The ring buffer implements the bounded FIFO queue, for every capacity, set
\* of threads and interleaving: a step is a Put, a Take, or invisible.
THEOREM RingImplementsQueue == RingSpec => ImplementsQueue
  <1>1. RingInit => Queue!QueueInit
    BY DEF RingInit, contents, Queue!QueueInit
  <1>2. RingInv /\ RingInv' /\ [RingNext]_ringVars => [Queue!QueueNext]_(Queue!queueVars)
    BY QueueStep
  <1> QED  BY <1>1, <1>2, RingInvariant, PTL DEF RingSpec, ImplementsQueue, Queue!QueueSpec
-----------------------------------------------------------------------------
\* The capture times of PacketBuffer.

\* A function on the threads.
total(g) == g = [t \in Threads |-> g[t]]

\* What write() can put into a slot.
Stamped(frames) ==
  {[frame |-> f, ts |-> n, size |-> TIMESTAMP_SIZE + f.size] : f \in frames, n \in Nat}

\* The inductive invariant, for the producer w: no stored time is later than
\* the clock nor, while a call is under way, than the time it has read, which
\* may be long ago when it gets its slot.
ClockInv(w, frames) ==
  /\ now \in Nat
  /\ total(pc) /\ total(buf)
  /\ accepted \in Seq(Stamped(frames))
  /\ \A i \in 1..Len(accepted) : accepted[i].ts <= nowMillis
  /\ pc[w] # "idle" =>
       /\ buf[w] \in Stamped(frames) /\ buf[w].ts <= nowMillis
       /\ \A i \in 1..Len(accepted) : accepted[i].ts <= buf[w].ts
  /\ TimestampsNonDecreasing

\* A time that was read is a number of milliseconds.
LEMMA StampedTime ==
  ASSUME NEW frames, NEW d \in Stamped(frames)
  PROVE  d.ts \in Nat
BY DEF Stamped

\* Whole milliseconds do not decrease with the clock.
LEMMA MillisMonotone ==
  ASSUME NEW x \in Nat
  PROVE  /\ x \div TicksPerMilli \in Nat
         /\ x \div TicksPerMilli <= (x + 1) \div TicksPerMilli
<1>1. TicksPerMilli \in Nat \ {0}
  BY PacketAssumption
<1>2. ASSUME NEW y \in Nat, NEW u \in Nat \ {0}
      PROVE  y = u * (y \div u) + (y % u) /\ y % u \in 0 .. u - 1 /\ y \div u \in Nat
  BY <1>2
<1>3. ASSUME NEW u \in Nat \ {0}, NEW p \in Nat, NEW q \in Nat, p < q
      PROVE  u * p + u <= u * q
  BY <1>3
<1>4. ASSUME NEW u \in Nat \ {0}
      PROVE  x \div u \in Nat /\ x \div u <= (x + 1) \div u
  <2> DEFINE q == x \div u
             r == x % u
             p == (x + 1) \div u
             s == (x + 1) % u
  <2>1. x = u * q + r /\ r \in 0 .. u - 1 /\ q \in Nat
    BY <1>2, Zenon
  <2>2. x + 1 = u * p + s /\ s \in 0 .. u - 1 /\ p \in Nat
    <3>1. x + 1 \in Nat
      OBVIOUS
    <3> QED
      BY <3>1, <1>2, Zenon
  <2> HIDE DEF q, r, p, s
  <2>3. p < q => u * p + u <= u * q
    BY <1>3, <2>1, <2>2
  <2>4. u * p \in Nat /\ u * q \in Nat
    BY <2>1, <2>2
  <2>5. q <= p
    BY <2>1, <2>2, <2>3, <2>4
  <2> QED
    BY <2>1, <2>5 DEF q, p
<1> QED
  BY <1>1, <1>4

\* A notification makes no thread idle and calls none.
LEMMA NotifiedBusy ==
  ASSUME NEW S \in SUBSET Threads, NEW pcs, total(pcs),
         NEW new, new \in notify_one(S, pcs) \/ new = notify_all(S, pcs)
  PROVE  total(new) /\ \A t \in Threads : new[t] = "idle" <=> pcs[t] = "idle"
<1>1. CASE new = notify_all(S, pcs)
  BY <1>1 DEF notify_all, waiting, total
<1>2. CASE new = pcs
  BY <1>2
<1>3. CASE \E t \in waiting(S, pcs) : new = [pcs EXCEPT ![t] = "lock"]
  BY <1>3 DEF waiting, total
<1> QED
  BY <1>1, <1>2, <1>3 DEF notify_one

\* The same for the notification that a consumer sends.
LEMMA WriterNotified ==
  ASSUME NEW pcs, total(pcs), NEW new, new \in notify_one(Writers, pcs)
  PROVE  total(new) /\ \A t \in Threads : new[t] = "idle" <=> pcs[t] = "idle"
<1>1. Writers \in SUBSET Threads
  BY DEF Threads
<1> QED
  BY <1>1, NotifiedBusy

\* A step that stores nothing, does not touch the producer's argument and
\* starts no call of the producer keeps the invariant.
LEMMA QuietStep ==
  ASSUME NEW w, NEW frames, ClockInv(w, frames),
         now' = now, accepted' = accepted, buf'[w] = buf[w],
         total(pc'), total(buf'),
         pc'[w] # "idle" => pc[w] # "idle"
  PROVE  ClockInv(w, frames)'
BY DEF ClockInv, nowMillis, TimestampsNonDecreasing

\* The clock advances.
LEMMA TickStep ==
  ASSUME NEW w, NEW frames, ClockInv(w, frames), tick
  PROVE  ClockInv(w, frames)'
<1>1. now \in Nat /\ now' = now + 1 /\ UNCHANGED <<pc, buf, accepted>>
  BY DEF ClockInv, tick, ringVars
<1>2. nowMillis \in Nat /\ nowMillis' \in Nat /\ nowMillis <= nowMillis'
  BY <1>1, MillisMonotone DEF nowMillis
<1> HIDE DEF nowMillis
<1>3. ASSUME NEW d \in Stamped(frames), d.ts <= nowMillis PROVE d.ts <= nowMillis'
  BY <1>2, <1>3, StampedTime
<1>4. \A i \in 1..Len(accepted) : accepted[i] \in Stamped(frames)
  BY DEF ClockInv
<1>5. \A i \in 1..Len(accepted) : accepted[i].ts <= nowMillis'
  BY <1>3, <1>4 DEF ClockInv
<1>6. pc[w] # "idle" => buf[w].ts <= nowMillis'
  BY <1>3 DEF ClockInv
<1> QED
  BY <1>1, <1>5, <1>6 DEF ClockInv, TimestampsNonDecreasing

\* The producer reads the clock and calls write() of the ring.
LEMMA BufferWriteStep ==
  ASSUME NEW w \in Threads, NEW frames, ClockInv(w, frames),
         NEW f \in frames, bufferWrite(w, f), now' = now
  PROVE  ClockInv(w, frames)'
<1>1. CASE pc' = pc /\ buf' = buf /\ accepted' = accepted
  BY <1>1, QuietStep, Zenon DEF ClockInv
<1>2. CASE /\ pc' = [pc EXCEPT ![w] = "lock"]
           /\ buf' = [buf EXCEPT ![w] = slotOf(f)]
           /\ accepted' = accepted
  <2>1. nowMillis \in Nat /\ nowMillis' = nowMillis
    BY MillisMonotone, Zenon DEF ClockInv, nowMillis
  <2>2. slotOf(f) \in Stamped(frames) /\ slotOf(f).ts = nowMillis
    BY <2>1 DEF slotOf, Stamped
  <2>3. buf'[w] = slotOf(f) /\ total(buf') /\ total(pc')
    BY <1>2, Zenon DEF ClockInv, total
  <2> HIDE DEF slotOf, nowMillis
  <2> QED
    BY <1>2, <2>1, <2>2, <2>3 DEF ClockInv, TimestampsNonDecreasing
<1> QED
  BY <1>1, <1>2 DEF bufferWrite, callWrite

\* The producer's slot is stored: its time is not before the earlier ones.
LEMMA StoreStep ==
  ASSUME NEW w \in Threads, NEW frames, ClockInv(w, frames),
         w \notin Readers, write(w), now' = now
  PROVE  ClockInv(w, frames)'
<1> DEFINE pcs == [pc EXCEPT ![w] = "idle"]
<1>1. buf' = buf /\ total(buf) /\ pc[w] = "body"
  BY DEF write, ClockInv
<1>2. total(pcs) /\ pcs[w] = "idle"
  BY Zenon DEF ClockInv, total
<1>3. CASE pc' = pcs /\ accepted' = accepted
  BY <1>1, <1>2, <1>3, QuietStep, Zenon
<1>4. CASE pc' \in notify_one(Readers, pcs) /\ accepted' = Append(accepted, buf[w])
  <2> DEFINE n == Len(accepted)
  <2>1. total(pc') /\ pc'[w] = "idle"
    <3>1. Readers \in SUBSET Threads
      BY DEF Threads
    <3> HIDE DEF pcs
    <3> QED
      BY <1>2, <1>4, <3>1, NotifiedBusy, Zenon
  <2>2. /\ buf[w] \in Stamped(frames) /\ buf[w].ts <= nowMillis
        /\ accepted \in Seq(Stamped(frames)) /\ n \in Nat
        /\ \A i \in 1..n : accepted[i].ts <= buf[w].ts
    BY <1>1 DEF ClockInv
  <2>3. /\ accepted' \in Seq(Stamped(frames)) /\ Len(accepted') = n + 1
        /\ accepted'[n + 1] = buf[w]
        /\ \A i \in 1..n : accepted'[i] = accepted[i]
    BY <1>4, <2>2
  <2>4. nowMillis' = nowMillis
    BY DEF nowMillis
  <2> HIDE DEF n, nowMillis
  <2>5. buf[w].ts <= buf[w].ts
    BY <2>2, StampedTime
  <2>6. \A i \in 1 .. n + 1 : accepted'[i].ts <= nowMillis'
    <3>1. \A i \in 1..n : accepted[i].ts <= nowMillis
      BY DEF ClockInv, n
    <3> QED
      BY <2>2, <2>3, <2>4, <3>1
  <2>7. ASSUME NEW i \in 1 .. n + 1, NEW j \in 1 .. n + 1, i < j
        PROVE  accepted'[i].ts <= accepted'[j].ts
    <3>1. CASE j = n + 1
      BY <2>2, <2>3, <2>7, <3>1
    <3>2. CASE j # n + 1
      <4>1. i \in 1..n /\ j \in 1..n
        BY <2>2, <2>7, <3>2
      <4>2. accepted[i].ts <= accepted[j].ts
        BY <2>7, <4>1 DEF ClockInv, TimestampsNonDecreasing, n
      <4> QED
        BY <2>3, <4>1, <4>2
    <3> QED
      BY <3>1, <3>2
  <2>8. TimestampsNonDecreasing'
    BY <2>3, <2>7 DEF TimestampsNonDecreasing
  <2>9. now' \in Nat
    BY DEF ClockInv
  <2> QED
    BY <1>1, <2>1, <2>3, <2>6, <2>8, <2>9 DEF ClockInv
<1> QED
  BY <1>3, <1>4 DEF write

\* The steps of the ring that store nothing: the consumers', the producer's
\* waiting, and the signal handler's.
LEMMA OtherStep ==
  ASSUME NEW w \in Threads, NEW frames, ClockInv(w, frames), Writers = {w},
         now' = now,
         \/ \E r \in Readers : callRead(r)
         \/ \E t \in Threads : acquire(t) \/ block(t) \/ spuriousWakeup(t)
         \/ \E r \in Readers : read(r)
         \/ signalHandler
  PROVE  ClockInv(w, frames)'
<1>1. w \notin Readers /\ Readers \in SUBSET Threads /\ Writers \in SUBSET Threads
  BY RingAssumption DEF Threads
<1>2. total(pc) /\ total(buf)
  BY DEF ClockInv
<1>3. CASE \E r \in Readers : callRead(r)
  BY <1>1, <1>2, <1>3, QuietStep DEF callRead, total
<1>4. CASE \E t \in Threads : acquire(t) \/ block(t) \/ spuriousWakeup(t)
  <2>1. PICK t \in Threads : acquire(t) \/ block(t) \/ spuriousWakeup(t)
    BY <1>4
  <2>2. /\ pc[t] # "idle" /\ \E p : pc' = [pc EXCEPT ![t] = p]
        /\ buf' = buf /\ accepted' = accepted
    BY <2>1 DEF acquire, block, spuriousWakeup
  <2> QED
    BY <1>2, <2>2, QuietStep DEF total
<1>5. ASSUME NEW r \in Readers, read(r) PROVE ClockInv(w, frames)'
  <2> DEFINE pcs == [pc EXCEPT ![r] = "idle"]
  <2>1. total(pcs) /\ pcs[w] = pc[w]
    BY <1>1, <1>2, <1>5 DEF total
  <2>2. accepted' = accepted /\ buf'[w] = buf[w] /\ total(buf')
    BY <1>1, <1>2, <1>5 DEF read, total
  <2>3. pc' = pcs \/ pc' \in notify_one(Writers, pcs)
    BY <1>5 DEF read
  <2> HIDE DEF pcs
  <2>4. total(pc') /\ (pc'[w] = "idle" <=> pc[w] = "idle")
    <3>1. CASE pc' = pcs
      BY <2>1, <3>1
    <3>2. CASE pc' \in notify_one(Writers, pcs)
      <4>1. total(pc') /\ \A t \in Threads : pc'[t] = "idle" <=> pcs[t] = "idle"
        BY <2>1, <3>2, WriterNotified, Zenon
      <4> QED
        BY <2>1, <4>1, Zenon
    <3> QED
      BY <2>3, <3>1, <3>2
  <2> QED
    BY <2>2, <2>4, QuietStep, Zenon
<1>6. CASE signalHandler
  <2>1. buf' = buf /\ accepted' = accepted
    BY <1>6 DEF signalHandler, handlerStore, handlerNotifyData, handlerNotifySpace
  <2>2. \/ pc' = pc \/ pc' = notify_all(Readers, pc) \/ pc' = notify_all(Writers, pc)
    BY <1>6 DEF signalHandler, handlerStore, handlerNotifyData, handlerNotifySpace
  <2>3. total(pc') /\ (pc'[w] = "idle" <=> pc[w] = "idle")
    BY <1>1, <1>2, <2>2, NotifiedBusy, Zenon
  <2> QED
    BY <1>2, <2>1, <2>3, QuietStep
<1> QED
  BY <1>3, <1>4, <1>5, <1>6

\* Every step of the buffer keeps the invariant.
LEMMA ClockStep ==
  ASSUME NEW w, Writers = {w}, NEW frames, ClockInv(w, frames),
         [PacketNext(frames)]_packetVars
  PROVE  ClockInv(w, frames)'
<1>1. w \in Threads /\ w \notin Readers
  BY RingAssumption DEF Threads
<1>2. CASE UNCHANGED packetVars
  BY <1>2, QuietStep, Zenon DEF packetVars, ringVars, ClockInv
<1>3. ASSUME NEW f \in frames, bufferWrite(w, f), now' = now
      PROVE  ClockInv(w, frames)'
  BY <1>1, <1>3, BufferWriteStep
<1>4. CASE write(w) /\ now' = now
  BY <1>1, <1>4, StoreStep
<1>5. CASE /\ now' = now
           /\ \/ \E r \in Readers : callRead(r)
              \/ \E t \in Threads : acquire(t) \/ block(t) \/ spuriousWakeup(t)
              \/ \E r \in Readers : read(r)
              \/ signalHandler
  BY <1>1, <1>5, OtherStep
<1>6. CASE tick
  BY <1>6, TickStep
<1> QED
  BY <1>2, <1>3, <1>4, <1>5, <1>6, Zenon DEF PacketNext, threadStep

\* With one producer, and a clock that only goes forward, the capture times
\* do not decrease in the order in which the consumer gets the frames.
THEOREM PacketTimestamps ==
  ASSUME NEW w, Writers = {w}, NEW frames
  PROVE  PacketSpec(frames) => []TimestampsNonDecreasing
<1>1. PacketInit => ClockInv(w, frames)
  <2> SUFFICES ASSUME PacketInit PROVE ClockInv(w, frames)
    OBVIOUS
  <2>1. now \in Nat /\ accepted = <<>> /\ pc[w] = "idle"
    BY DEF PacketInit, RingInit, Threads
  <2>2. total(pc) /\ total(buf)
    BY DEF PacketInit, RingInit, total
  <2> QED
    BY <2>1, <2>2 DEF ClockInv, TimestampsNonDecreasing
<1>2. ClockInv(w, frames) /\ [PacketNext(frames)]_packetVars => ClockInv(w, frames)'
  BY ClockStep
<1>3. ClockInv(w, frames) => TimestampsNonDecreasing
  BY DEF ClockInv
<1> QED
  BY <1>1, <1>2, <1>3, PTL DEF PacketSpec
=============================================================================
