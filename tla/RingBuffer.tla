----------------------------- MODULE RingBuffer -----------------------------
(***************************************************************************)
(* The bounded ring buffer between the capture thread and the pipeline     *)
(* thread (utils/ring_buffer.cpp), with the mutex, the two condition       *)
(* variables and the atomic stop flag it borrows from main.cpp, and the    *)
(* signal handler that sets the flag.                                      *)
(*                                                                         *)
(* A thread inside write() or read() is at one of                          *)
(*   "lock"     about to take mtx_: on entry, or woken up in wait()        *)
(*   "sleep"    holds mtx_, the wait predicate was false, not yet blocked  *)
(*   "waiting"  blocked on its condition variable, mtx_ released           *)
(*   "body"     holds mtx_, the wait predicate was true                    *)
(* and at "idle" outside of both.  Between "sleep" and "waiting" only the  *)
(* signal handler, which takes no lock, can act on the state that the      *)
(* predicate has read; the code after the predicate is one step, since     *)
(* every other access to the ring needs mtx_.                              *)
(***************************************************************************)
EXTENDS Naturals, Sequences, FiniteSets

CONSTANTS
  Writers,     \* threads that call write()
  Readers,     \* threads that call read()
  Data,        \* what can be passed to write(): records with a field size
  NoData,      \* content of a slot or of a caller's buffer never filled
  Capacity,    \* capacity_
  SLOT_SIZE    \* bytes in a slot

Threads == Writers \cup Readers

MaxCapacity == 65536

\* What the constructor enforces (it throws otherwise), and that a thread is
\* either a producer or a consumer, of which there are finitely many.
ASSUME RingAssumption ==
  /\ Capacity \in Nat \ {0} /\ Capacity <= MaxCapacity
  /\ Writers \cap Readers = {}
  /\ IsFiniteSet(Writers) /\ IsFiniteSet(Readers)
  /\ SLOT_SIZE \in Nat
  /\ \A d \in Data : d.size \in Nat

VARIABLES
  head_, tail_, count_,   \* next slot to write, next to read, slots in use
  buffer_,                \* slot contents: buffer_ together with slot_sizes_
  mtx,                    \* the threads holding mtx_: {} or one thread
  stop_flag,
  pc,                     \* where each thread is in write() or read()
  buf,                    \* the data argument of the thread's call
  ret,                    \* the result of its last call, "none" before it
  handler,                \* where signalHandler is
  accepted, delivered     \* history: data stored by write(), returned by read()

ringVars == <<head_, tail_, count_, buffer_, mtx, stop_flag, pc, buf, ret,
              handler, accepted, delivered>>

slotVars == <<head_, tail_, count_, buffer_>>

Slots == 0 .. Capacity - 1
-----------------------------------------------------------------------------
isEmpty == count_ = 0
isFull  == count_ = Capacity

nextSlotEarly(i) == (i + 1) % (Capacity - 1)
nextSlot(i) == (i + 1) % Capacity

\* The predicate a thread waits for, on space_cv_ or on data_cv_.
mayProceedUnchecked(t) == TRUE
mayProceedIgnoringStop(t) == IF t \in Writers THEN ~isFull ELSE ~isEmpty
mayProceed(t) ==
  IF t \in Writers THEN ~isFull \/ stop_flag ELSE ~isEmpty \/ stop_flag

\* The program counters after a notification to the threads of S, which all
\* wait on the same condition variable.
waiting(S, at) == {t \in S : at[t] = "waiting"}
notifyNobody(S, at) == {at}
notify_one(S, at) ==
  IF waiting(S, at) = {} THEN {at}
  ELSE {[at EXCEPT ![t] = "lock"] : t \in waiting(S, at)}
notify_all(S, at) ==
  [t \in Threads |-> IF t \in waiting(S, at) THEN "lock" ELSE at[t]]
-----------------------------------------------------------------------------
RingInit ==
  /\ head_ = 0 /\ tail_ = 0 /\ count_ = 0
  /\ buffer_ = [i \in Slots |-> NoData]
  /\ mtx = {}
  /\ stop_flag = FALSE
  /\ pc = [t \in Threads |-> "idle"]
  /\ buf = [t \in Threads |-> NoData]
  /\ ret = [t \in Threads |-> "none"]
  /\ handler = "idle"
  /\ accepted = <<>> /\ delivered = <<>>

\* write() is called; a size that fits no slot is refused before locking.
callWrite(w, d) ==
  /\ pc[w] = "idle"
  /\ \/ /\ d.size = 0 \/ d.size > SLOT_SIZE
        /\ ret' = [ret EXCEPT ![w] = "false"]
        /\ UNCHANGED <<pc, buf>>
     \/ /\ d.size \in 1..SLOT_SIZE
        /\ pc' = [pc EXCEPT ![w] = "lock"]
        /\ buf' = [buf EXCEPT ![w] = d]
        /\ ret' = [ret EXCEPT ![w] = "none"]
  /\ UNCHANGED <<slotVars, mtx, stop_flag, handler, accepted, delivered>>

callRead(r) ==
  /\ pc[r] = "idle"
  /\ pc' = [pc EXCEPT ![r] = "lock"]
  /\ ret' = [ret EXCEPT ![r] = "none"]
  /\ UNCHANGED <<slotVars, mtx, stop_flag, buf, handler, accepted, delivered>>

\* The mutex is taken and the wait predicate evaluated.
acquire(t) ==
  /\ pc[t] = "lock"
  /\ mtx = {}
  /\ mtx' = {t}
  /\ pc' = [pc EXCEPT ![t] = IF mayProceed(t) THEN "body" ELSE "sleep"]
  /\ UNCHANGED <<slotVars, stop_flag, buf, ret, handler, accepted, delivered>>

\* wait() releases the mutex and blocks, in one step.
block(t) ==
  /\ pc[t] = "sleep"
  /\ mtx' = {}
  /\ pc' = [pc EXCEPT ![t] = "waiting"]
  /\ UNCHANGED <<slotVars, stop_flag, buf, ret, handler, accepted, delivered>>

\* A condition variable may wake a thread that nobody notified.
spuriousWakeup(t) ==
  /\ pc[t] = "waiting"
  /\ pc' = [pc EXCEPT ![t] = "lock"]
  /\ UNCHANGED <<slotVars, mtx, stop_flag, buf, ret, handler, accepted,
                 delivered>>

\* write() and read() from the end of wait() to the release of the mutex.
write(w) ==
  /\ pc[w] = "body"
  /\ mtx' = {}
  /\ \/ /\ stop_flag /\ isFull
        /\ pc' = [pc EXCEPT ![w] = "idle"]
        /\ ret' = [ret EXCEPT ![w] = "false"]
        /\ UNCHANGED <<slotVars, accepted>>
     \/ /\ ~(stop_flag /\ isFull)
        /\ buffer_' = [buffer_ EXCEPT ![head_] = buf[w]]
        /\ head_' = nextSlot(head_)
        /\ count_' = count_ + 1
        /\ pc' \in notify_one(Readers, [pc EXCEPT ![w] = "idle"])
        /\ ret' = [ret EXCEPT ![w] = "true"]
        /\ accepted' = Append(accepted, buf[w])
        /\ UNCHANGED tail_
  /\ UNCHANGED <<stop_flag, buf, handler, delivered>>

read(r) ==
  /\ pc[r] = "body"
  /\ mtx' = {}
  /\ \/ /\ stop_flag /\ isEmpty
        /\ pc' = [pc EXCEPT ![r] = "idle"]
        /\ ret' = [ret EXCEPT ![r] = "false"]
        /\ UNCHANGED <<slotVars, buf, delivered>>
     \/ /\ ~(stop_flag /\ isEmpty)
        /\ buf' = [buf EXCEPT ![r] = buffer_[tail_]]
        /\ tail_' = nextSlot(tail_)
        /\ count_' = count_ - 1
        /\ pc' \in notify_one(Writers, [pc EXCEPT ![r] = "idle"])
        /\ ret' = [ret EXCEPT ![r] = "true"]
        /\ delivered' = Append(delivered, buffer_[tail_])
        /\ UNCHANGED <<head_, buffer_>>
  /\ UNCHANGED <<stop_flag, handler, accepted>>

\* signalHandler: three steps, none of them under the mutex.
handlerStore ==
  /\ handler = "idle"
  /\ stop_flag' = TRUE
  /\ handler' = "stored"
  /\ UNCHANGED <<slotVars, mtx, pc, buf, ret, accepted, delivered>>

handlerNotifyData ==
  /\ handler = "stored"
  /\ pc' = notify_all(Readers, pc)
  /\ handler' = "notified"
  /\ UNCHANGED <<slotVars, mtx, stop_flag, buf, ret, accepted, delivered>>

handlerNotifySpaceSkipped ==
  /\ handler = "notified"
  /\ handler' = "idle"
  /\ UNCHANGED <<slotVars, mtx, stop_flag, pc, buf, ret, accepted, delivered>>
handlerNotifySpace ==
  /\ handler = "notified"
  /\ pc' = notify_all(Writers, pc)
  /\ handler' = "idle"
  /\ UNCHANGED <<slotVars, mtx, stop_flag, buf, ret, accepted, delivered>>

signalHandler == handlerStore \/ handlerNotifyData \/ handlerNotifySpace

\* What a thread inside write() or read() does by itself.
threadStep(t) ==
  \/ acquire(t)
  \/ block(t)
  \/ t \in Writers /\ write(t)
  \/ t \in Readers /\ read(t)

RingNext ==
  \/ \E w \in Writers, d \in Data : callWrite(w, d)
  \/ \E r \in Readers : callRead(r)
  \/ \E t \in Threads : threadStep(t) \/ spuriousWakeup(t)
  \/ signalHandler

RingSpec == RingInit /\ [][RingNext]_ringVars
-----------------------------------------------------------------------------
\* Every variable of the ring stays in its type; head_ and tail_ index
\* buffer_, and count_ never leaves 0..capacity_.
RingTypeOK ==
  /\ head_ \in Slots /\ tail_ \in Slots /\ count_ \in 0..Capacity
  /\ buffer_ \in [Slots -> Data \cup {NoData}]
  /\ mtx \in SUBSET Threads
  /\ stop_flag \in BOOLEAN
  /\ pc \in [Threads -> {"idle", "lock", "sleep", "waiting", "body"}]
  /\ buf \in [Threads -> Data \cup {NoData}]
  /\ ret \in [Threads -> {"none", "true", "false"}]
  /\ handler \in {"idle", "stored", "notified"}
  /\ accepted \in Seq(Data) /\ delivered \in Seq(Data)

\* The data in the ring, oldest first.
contents == [i \in 1..count_ |-> buffer_[(tail_ + (i - 1)) % Capacity]]

\* First in, first out: what write() stored is what read() returned followed
\* by what is still in the ring, through every wrap-around of head_ and tail_
\* and every interleaving of producers, consumers and the stop signal.
Fifo == accepted = delivered \o contents

\* No wakeup is lost between write() and read(), although both notify only
\* one thread: while a reader is blocked in data_cv_.wait, at most as many
\* slots are filled as there are readers awake to empty them, and while a
\* writer is blocked in space_cv_.wait, at most as many slots are free as
\* there are writers awake to fill them.
NoLostWakeup ==
  LET awake(S) == {t \in S : pc[t] \in {"lock", "body"}}
  IN /\ waiting(Readers, pc) # {} => count_ <= Cardinality(awake(Readers))
     /\ waiting(Writers, pc) # {} =>
          Capacity - count_ <= Cardinality(awake(Writers))

\* The ring implements the queue: each step of the ring is a Put of the data
\* written, a Take of the oldest data, or leaves the queue as it is.
Queue == INSTANCE FrameQueue WITH queue <- contents
ImplementsQueue == Queue!QueueSpec
=============================================================================
