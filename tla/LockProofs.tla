----------------------------- MODULE LockProofs -----------------------------
(***************************************************************************)
(* Proofs about the mutex and the condition variables that threads share:  *)
(* the logger's, and the ring's.                                           *)
(*                                                                         *)
(* The lines of a caller of the logger are its calls, with any number of   *)
(* callers.                                                                *)
(*                                                                         *)
(* No wakeup is lost in the ring, for every capacity and any finite number *)
(* of producers and consumers, although write() and read() each notify a   *)
(* single thread.  The two sides are alike: a side is a set S of threads   *)
(* that wait for n to be positive, where n is the number of filled slots   *)
(* for the readers and of free slots for the writers.                      *)
(***************************************************************************)
EXTENDS Logger, RingBufferProofs, FiniteSetTheorems
-----------------------------------------------------------------------------
\* The logger, with any number of callers.

Calls == [level : Levels, time : Nat]
Lines == [from : Callers, stamp : Nat, message : Nat]

\* The inductive invariant: who formats or writes has the mutex, what is in
\* localtime's buffer before the line goes out is the writer's time, and a
\* call that is not over is the caller's last, at or above the level.
LoggerInv ==
  /\ place \in [Callers -> {"idle", "lock", "localtime", "write"}]
  /\ call \in [Callers -> [time : Nat, message : Nat]]
  /\ calls \in [Callers -> Seq(Calls)]
  /\ cout \in Seq(Lines) /\ tm \in Nat /\ wallClock \in Nat
  /\ \A c \in Callers :
       /\ place[c] \in {"localtime", "write"} => logMutex = c
       /\ place[c] = "write" => tm = call[c].time
       /\ place[c] # "idle" =>
            /\ call[c].message = Len(calls[c]) /\ call[c].message # 0
            /\ call[c].time = calls[c][Len(calls[c])].time
            /\ ~(calls[c][Len(calls[c])].level < level_)
  /\ LinesAreCalls

\* The lines and the calls over, apart from the state they are taken from.
lineAt(c, k, cs) == [from |-> c, stamp |-> cs[c][k].time, message |-> k]

LinesMatch(pl, cs, out) ==
  /\ \A c \in Callers : \A k \in over(pl[c], cs[c]) :
       ~(cs[c][k].level < level_) <=> \E j \in 1..Len(out) : out[j] = lineAt(c, k, cs)
  /\ \A j \in 1..Len(out) : \E c \in Callers :
       \E k \in over(pl[c], cs[c]) : out[j] = lineAt(c, k, cs)
  /\ \A i, j \in 1..Len(out) :
       i < j /\ out[i].from = out[j].from => out[i].message < out[j].message

\* That is what LinesAreCalls says of a state, and of the next one.
LEMMA MatchIsLines ==
  /\ LinesAreCalls <=> LinesMatch(place, calls, cout)
  /\ LinesAreCalls' <=> LinesMatch(place', calls', cout')
BY DEF LinesAreCalls, LinesMatch, lineAt, line

\* Only which callers are idle matters.
LEMMA NothingWritten ==
  ASSUME NEW pl, NEW new, NEW cs, NEW out, LinesMatch(pl, cs, out),
         \A c \in Callers : new[c] = "idle" <=> pl[c] = "idle"
  PROVE  LinesMatch(new, cs, out)
<1>1. \A c \in Callers : over(new[c], cs[c]) = over(pl[c], cs[c])
  BY Zenon DEF over
<1> QED
  BY <1>1, Zenon DEF LinesMatch

\* A new call of an idle caller leaves its earlier calls and their lines alone;
\* below the level it is over at once, without a line.
LEMMA CallBegins ==
  ASSUME NEW pl, NEW new, NEW cs \in [Callers -> Seq(Calls)], NEW out,
         NEW w \in Callers, NEW x \in Calls, LinesMatch(pl, cs, out),
         pl[w] = "idle", \A c \in Callers \ {w} : new[c] = pl[c],
         new[w] = "idle" <=> x.level < level_
  PROVE  LinesMatch(new, [cs EXCEPT ![w] = Append(@, x)], out)
<1> DEFINE ds == [cs EXCEPT ![w] = Append(@, x)]
           n == Len(cs[w])
<1>1. /\ n \in Nat /\ Len(ds[w]) = n + 1 /\ ds[w][n + 1] = x
      /\ \A k \in 1..n : ds[w][k] = cs[w][k]
      /\ \A c \in Callers \ {w} : ds[c] = cs[c]
  OBVIOUS
<1> HIDE DEF ds, n
<1>2. over(pl[w], cs[w]) = 1..n
  BY DEF over, n
<1>3. \A k : k \in over(new[w], ds[w]) <=> k \in 1..n \/ (k = n + 1 /\ x.level < level_)
  BY <1>1 DEF over
<1>4. \A c \in Callers \ {w} : over(new[c], ds[c]) = over(pl[c], cs[c])
  BY <1>1, Zenon DEF over
<1>5. \A c \in Callers : \A k \in over(pl[c], cs[c]) :
        /\ lineAt(c, k, ds) = lineAt(c, k, cs) /\ ds[c][k] = cs[c][k]
        /\ k \in over(new[c], ds[c])
  BY <1>1, <1>2, <1>3, <1>4, Zenon DEF lineAt
<1>6. \A j \in 1..Len(out) : out[j] # lineAt(w, n + 1, ds)
  <2> SUFFICES ASSUME NEW j \in 1..Len(out), out[j] = lineAt(w, n + 1, ds)
               PROVE  FALSE
    OBVIOUS
  <2>1. PICK c \in Callers : \E k \in over(pl[c], cs[c]) : out[j] = lineAt(c, k, cs)
    BY DEF LinesMatch
  <2>2. PICK k \in over(pl[c], cs[c]) : out[j] = lineAt(c, k, cs)
    BY <2>1
  <2>3. out[j].from = c /\ out[j].message = k /\ out[j].from = w /\ out[j].message = n + 1
    BY <2>2 DEF lineAt
  <2> QED
    BY <1>1, <1>2, <2>3
<1>7. ASSUME NEW c \in Callers, NEW k \in over(new[c], ds[c])
      PROVE  ~(ds[c][k].level < level_) <=> \E j \in 1..Len(out) : out[j] = lineAt(c, k, ds)
  <2>1. CASE k \in over(pl[c], cs[c])
    <3>1. ~(cs[c][k].level < level_) <=> \E j \in 1..Len(out) : out[j] = lineAt(c, k, cs)
      BY <2>1 DEF LinesMatch
    <3>2. lineAt(c, k, ds) = lineAt(c, k, cs) /\ ds[c][k] = cs[c][k]
      BY <1>5, <2>1
    <3> QED
      BY <3>1, <3>2
  <2>2. CASE k \notin over(pl[c], cs[c])
    <3>1. c = w /\ k = n + 1 /\ x.level < level_
      BY <1>2, <1>3, <1>4, <2>2, Zenon
    <3> QED
      BY <1>1, <1>6, <3>1
  <2> QED
    BY <2>1, <2>2
<1>8. ASSUME NEW j \in 1..Len(out)
      PROVE  \E c \in Callers : \E k \in over(new[c], ds[c]) : out[j] = lineAt(c, k, ds)
  BY <1>5, <1>8 DEF LinesMatch
<1> QED
  BY <1>7, <1>8, Zenon DEF LinesMatch, ds

\* The line of a caller's last call ends the call.
LEMMA LineWritten ==
  ASSUME NEW pl, NEW new, NEW cs \in [Callers -> Seq(Calls)], NEW out \in Seq(Lines),
         NEW w \in Callers, LinesMatch(pl, cs, out), pl[w] # "idle", new[w] = "idle",
         \A c \in Callers \ {w} : new[c] = pl[c],
         Len(cs[w]) # 0, ~(cs[w][Len(cs[w])].level < level_),
         lineAt(w, Len(cs[w]), cs) \in Lines
  PROVE  LinesMatch(new, cs, Append(out, lineAt(w, Len(cs[w]), cs)))
<1> DEFINE m == Len(cs[w])
           l == lineAt(w, m, cs)
           n == Len(out)
           res == Append(out, l)
<1>0. m \in Nat \ {0}
  OBVIOUS
<1>1. l.from = w /\ l.message = m /\ l \in Lines
  BY DEF lineAt
<1>2. /\ n \in Nat /\ Len(res) = n + 1 /\ res[n + 1] = l
      /\ \A j \in 1..n : res[j] = out[j]
  <2> HIDE DEF l
  <2> QED
    BY <1>1
<1>3. /\ \A c \in Callers \ {w} : over(new[c], cs[c]) = over(pl[c], cs[c])
      /\ \A k : k \in over(new[w], cs[w]) <=> k \in over(pl[w], cs[w]) \/ k = m
      /\ \A k \in over(pl[w], cs[w]) : k \in Nat /\ k < m
  BY <1>0 DEF over
<1>4. \A c, k : lineAt(c, k, cs) = l => c = w /\ k = m
  BY <1>1 DEF lineAt
<1>5. ~(cs[w][m].level < level_)
  OBVIOUS
<1>6. \A j \in 1..n : out[j].from = w => out[j].message \in Nat /\ out[j].message < m
  <2> SUFFICES ASSUME NEW j \in 1..n, out[j].from = w
               PROVE  out[j].message \in Nat /\ out[j].message < m
    OBVIOUS
  <2>1. PICK c \in Callers : \E k \in over(pl[c], cs[c]) : out[j] = lineAt(c, k, cs)
    BY DEF LinesMatch
  <2>2. PICK k \in over(pl[c], cs[c]) : out[j] = lineAt(c, k, cs)
    BY <2>1
  <2>3. out[j].from = c /\ out[j].message = k
    BY <2>2 DEF lineAt
  <2> QED
    BY <1>3, <2>3
<1>7. \A j : j \in 1 .. n + 1 <=> j \in 1..n \/ j = n + 1
  BY <1>2
<1> HIDE DEF m, l, res
<1>8. ASSUME NEW c \in Callers, NEW k \in over(new[c], cs[c])
      PROVE  ~(cs[c][k].level < level_) <=>
               \E j \in 1 .. n + 1 : res[j] = lineAt(c, k, cs)
  <2>1. CASE c = w /\ k = m
    BY <1>2, <1>5, <1>7, <2>1 DEF l
  <2>2. CASE ~(c = w /\ k = m)
    <3>1. k \in over(pl[c], cs[c])
      BY <1>3, <2>2
    <3>2. ~(cs[c][k].level < level_) <=> \E j \in 1..n : out[j] = lineAt(c, k, cs)
      BY <3>1 DEF LinesMatch
    <3> HIDE DEF n
    <3> QED
      BY <1>2, <1>4, <1>7, <2>2, <3>2, Zenon
  <2> QED
    BY <2>1, <2>2
<1>9. ASSUME NEW j \in 1 .. n + 1
      PROVE  \E c \in Callers : \E k \in over(new[c], cs[c]) : res[j] = lineAt(c, k, cs)
  <2>1. CASE j = n + 1
    <3>1. m \in over(new[w], cs[w])
      BY <1>3
    <3> QED
      BY <1>2, <2>1, <3>1 DEF l
  <2>2. CASE j \in 1..n
    <3>1. \A c \in Callers : over(pl[c], cs[c]) \subseteq over(new[c], cs[c])
      BY <1>3, Zenon
    <3>2. \E c \in Callers : \E k \in over(pl[c], cs[c]) : out[j] = lineAt(c, k, cs)
      BY <2>2 DEF LinesMatch
    <3> QED
      BY <1>2, <2>2, <3>1, <3>2, Zenon
  <2> QED
    BY <1>7, <2>1, <2>2
<1>10. ASSUME NEW i \in 1 .. n + 1, NEW j \in 1 .. n + 1, i < j, res[i].from = res[j].from
       PROVE  res[i].message < res[j].message
  <2>1. i \in 1..n /\ res[i] = out[i]
    BY <1>2, <1>10
  <2>2. CASE j = n + 1
    BY <1>1, <1>2, <1>6, <1>10, <2>1, <2>2
  <2>3. CASE j \in 1..n
    BY <1>2, <1>10, <2>1, <2>3 DEF LinesMatch
  <2> QED
    BY <1>7, <2>2, <2>3
<1>11. LinesMatch(new, cs, res)
  BY <1>2, <1>8, <1>9, <1>10, Zenon DEF LinesMatch
<1> QED
  BY <1>11 DEF res, l, m

\* Each step keeps the invariant: the mutex is one caller's from localtime to
\* the line.
LEMMA LoggerStep == LoggerInv /\ [LoggerNext]_loggerVars => LoggerInv'
<1> SUFFICES ASSUME LoggerInv, [LoggerNext]_loggerVars PROVE LoggerInv'
  OBVIOUS
<1>m. LinesMatch(place, calls, cout)
  BY MatchIsLines DEF LoggerInv
<1>1. CASE UNCHANGED loggerVars
  <2>1. LinesAreCalls'
    BY <1>1, <1>m, MatchIsLines DEF loggerVars
  <2> QED
    BY <1>1, <2>1 DEF loggerVars, LoggerInv
<1>2. CASE clockTicks
  <2>1. LinesAreCalls'
    BY <1>2, <1>m, MatchIsLines DEF clockTicks
  <2>2. wallClock' \in Nat
    BY <1>2 DEF clockTicks, LoggerInv
  <2> QED
    BY <1>2, <2>1, <2>2, Zenon DEF clockTicks, LoggerInv
<1>3. ASSUME NEW c \in Callers, enter(c)
      PROVE  LoggerInv'
  <2>1. PICK level \in Levels :
          /\ calls' = [calls EXCEPT ![c] = Append(@, [level |-> level, time |-> wallClock])]
          /\ IF level < level_
             THEN UNCHANGED <<place, call>>
             ELSE /\ call' = [call EXCEPT ![c] = [time |-> wallClock,
                                                 message |-> Len(calls'[c])]]
                  /\ goes(c, "lock")
    BY <1>3, Zenon DEF enter
  <2> DEFINE x == [level |-> level, time |-> wallClock]
  <2>2. x \in Calls /\ calls[c] \in Seq(Calls) /\ calls \in [Callers -> Seq(Calls)]
    BY Zenon DEF LoggerInv, Calls
  <2>3. x.level = level /\ x.time = wallClock
    OBVIOUS
  <2>4. calls' = [calls EXCEPT ![c] = Append(@, x)] /\ calls'[c] = Append(calls[c], x)
    BY <2>1, <2>2
  <2> HIDE DEF x
  <2>5. /\ calls' \in [Callers -> Seq(Calls)] /\ Len(calls'[c]) = Len(calls[c]) + 1
        /\ Len(calls[c]) \in Nat /\ calls'[c][Len(calls'[c])] = x
        /\ \A d \in Callers \ {c} : calls'[d] = calls[d]
    BY <2>2, <2>4
  <2>6. /\ place[c] = "idle" /\ UNCHANGED <<wallClock, logMutex, tm, cout>>
        /\ \A d \in Callers \ {c} : place'[d] = place[d] /\ call'[d] = call[d]
        /\ place' \in [Callers -> {"idle", "lock", "localtime", "write"}]
        /\ call' \in [Callers -> [time : Nat, message : Nat]]
        /\ place'[c] = (IF level < level_ THEN "idle" ELSE "lock")
        /\ ~(level < level_) =>
             call'[c].time = wallClock /\ call'[c].message = Len(calls'[c])
    <3>1. place[c] = "idle" /\ UNCHANGED <<wallClock, logMutex, tm, cout>>
      BY <1>3 DEF enter
    <3>2. CASE level < level_
      BY <2>1, <3>1, <3>2 DEF LoggerInv
    <3>3. CASE ~(level < level_)
      <4>1. /\ call' = [call EXCEPT ![c] = [time |-> wallClock, message |-> Len(calls'[c])]]
            /\ place' = [place EXCEPT ![c] = "lock"]
        BY <2>1, <3>3 DEF goes
      <4>2. [time |-> wallClock, message |-> Len(calls'[c])] \in [time : Nat, message : Nat]
        <5>1. wallClock \in Nat
          BY DEF LoggerInv
        <5>2. Len(calls'[c]) \in Nat
          BY <2>5
        <5> QED
          BY <5>1, <5>2
      <4>3. place \in [Callers -> {"idle", "lock", "localtime", "write"}]
        BY DEF LoggerInv
      <4>4. call \in [Callers -> [time : Nat, message : Nat]]
        BY DEF LoggerInv
      <4> QED
        BY <3>1, <3>3, <4>1, <4>2, <4>3, <4>4
    <3> QED
      BY <3>2, <3>3
  <2>7. LinesAreCalls'
    <3>1. LinesMatch(place', [calls EXCEPT ![c] = Append(@, x)], cout)
      <4>1. /\ place'[c] = "idle" <=> x.level < level_
            /\ \A d \in Callers \ {c} : place'[d] = place[d]
        BY <2>3, <2>6
      <4> QED
        BY <1>m, <2>2, <2>6, <4>1, CallBegins, Zenon
    <3> QED
      BY <2>4, <2>6, <3>1, MatchIsLines
  <2>8. ASSUME NEW d \in Callers
        PROVE  /\ place'[d] \in {"localtime", "write"} => logMutex' = d
               /\ place'[d] = "write" => tm' = call'[d].time
               /\ place'[d] # "idle" =>
                    /\ call'[d].message = Len(calls'[d]) /\ call'[d].message # 0
                    /\ call'[d].time = calls'[d][Len(calls'[d])].time
                    /\ ~(calls'[d][Len(calls'[d])].level < level_)
    <3>1. CASE d = c
      BY <2>3, <2>5, <2>6, <3>1
    <3>2. CASE d # c
      BY <2>5, <2>6, <3>2 DEF LoggerInv
    <3> QED
      BY <3>1, <3>2
  <2> QED
    BY <2>5, <2>6, <2>7, <2>8 DEF LoggerInv
<1>4. ASSUME NEW c \in Callers, lock(c)
      PROVE  LoggerInv'
  <2>1. LinesMatch(place', calls, cout)
    <3>1. \A d \in Callers : place'[d] = "idle" <=> place[d] = "idle"
      BY <1>4 DEF lock, goes, LoggerInv
    <3> QED
      BY <1>m, <3>1, NothingWritten, Zenon
  <2>2. LinesAreCalls'
    BY <1>4, <2>1, MatchIsLines DEF lock
  <2>3. \A d \in Callers : place[d] \notin {"localtime", "write"}
    BY <1>4, LoggerAssumption DEF lock, free, LoggerInv
  <2> QED
    BY <1>4, <2>2, <2>3 DEF lock, goes, LoggerInv
<1>5. ASSUME NEW c \in Callers, localtime(c)
      PROVE  LoggerInv'
  <2>1. LinesMatch(place', calls, cout)
    <3>1. \A d \in Callers : place'[d] = "idle" <=> place[d] = "idle"
      BY <1>5 DEF localtime, goes, LoggerInv
    <3> QED
      BY <1>m, <3>1, NothingWritten, Zenon
  <2>2. LinesAreCalls'
    BY <1>5, <2>1, MatchIsLines DEF localtime
  <2>3. \A d \in Callers : d # c => place[d] # "write"
    BY <1>5 DEF localtime, LoggerInv
  <2> QED
    BY <1>5, <2>2, <2>3 DEF localtime, goes, LoggerInv
<1>6. ASSUME NEW c \in Callers, writeLine(c)
      PROVE  LoggerInv'
  <2> DEFINE n == Len(calls[c])
             l == lineAt(c, n, calls)
  <2>1. /\ place[c] = "write" /\ place' = [place EXCEPT ![c] = "idle"]
        /\ call[c].message = n /\ n # 0 /\ tm = calls[c][n].time
        /\ ~(calls[c][n].level < level_) /\ calls \in [Callers -> Seq(Calls)]
        /\ cout \in Seq(Lines) /\ tm \in Nat /\ n \in Nat
        /\ UNCHANGED <<wallClock, call, tm, calls>>
    BY <1>6 DEF writeLine, goes, LoggerInv
  <2>2. l = [from |-> c, stamp |-> tm, message |-> call[c].message] /\ l \in Lines
    BY <2>1 DEF lineAt, Lines
  <2>3. cout' = Append(cout, l)
    BY <1>6, <2>2 DEF writeLine
  <2>4. LinesMatch(place', calls, Append(cout, l))
    <3>1. place'[c] = "idle" /\ \A d \in Callers \ {c} : place'[d] = place[d]
      BY <2>1 DEF LoggerInv
    <3> QED
      BY <1>m, <2>1, <2>2, <3>1, LineWritten, Zenon
  <2>5. LinesAreCalls' /\ cout' \in Seq(Lines)
    <3> HIDE DEF l
    <3> QED
      BY <2>1, <2>2, <2>3, <2>4, MatchIsLines
  <2>6. \A d \in Callers : d # c => place[d] \notin {"localtime", "write"}
    BY <1>6 DEF writeLine, LoggerInv
  <2> QED
    BY <2>1, <2>5, <2>6, Zenon DEF LoggerInv
<1> QED
  BY <1>1, <1>2, <1>3, <1>4, <1>5, <1>6 DEF LoggerNext, logStep

\* With any number of callers, calls and seconds, the lines of a caller are its
\* calls at or above the level, in order, each with the time of its own call.
THEOREM LoggerLinesAreCalls == LoggerSpec => []LinesAreCalls
<1>1. LoggerInit => LoggerInv
  BY DEF LoggerInit, LoggerInv, NoCall, LinesAreCalls, over
<1>2. LoggerInv => LinesAreCalls
  BY DEF LoggerInv
<1> QED
  BY <1>1, <1>2, LoggerStep, PTL DEF LoggerSpec
-----------------------------------------------------------------------------
\* The threads of a side that will run.
Awake(S, pcs) == {t \in S : pcs[t] \in {"lock", "body"}}

\* What holds of a side: if anyone is blocked, enough threads are awake for
\* what there is; and a thread that has seen nothing still sees nothing, since
\* it holds the mutex.
SideInv(S, n, pcs) ==
  /\ waiting(S, pcs) # {} => n <= Cardinality(Awake(S, pcs))
  /\ \A t \in S : pcs[t] = "sleep" => n = 0

WakeupInv ==
  /\ SideInv(Readers, count_, pc)
  /\ SideInv(Writers, Capacity - count_, pc)
-----------------------------------------------------------------------------
\* The threads awake on a side are finitely many.
LEMMA AwakeFinite ==
  ASSUME NEW S, IsFiniteSet(S), NEW pcs
  PROVE  IsFiniteSet(Awake(S, pcs)) /\ Cardinality(Awake(S, pcs)) \in Nat
<1>1. Awake(S, pcs) \in SUBSET S
  BY DEF Awake
<1> QED
  BY <1>1, FS_Subset, FS_CardinalityType

\* Where there is nothing to wake up for, nothing is missed.
LEMMA SideZero ==
  ASSUME NEW S, IsFiniteSet(S), NEW pcs
  PROVE  SideInv(S, 0, pcs)
  BY AwakeFinite DEF SideInv

\* Threads that only wake up, or enter, while there is no more to take.
LEMMA SideGrows ==
  ASSUME NEW S, IsFiniteSet(S), NEW pcs, NEW new,
         NEW n \in Nat, NEW m \in Nat, m <= n, SideInv(S, n, pcs),
         \A t \in S : /\ pcs[t] \in {"lock", "body"} => new[t] \in {"lock", "body"}
                      /\ new[t] \in {"waiting", "sleep"} => pcs[t] = new[t]
  PROVE  SideInv(S, m, new)
<1>1. Awake(S, pcs) \in SUBSET Awake(S, new) /\ waiting(S, new) \subseteq waiting(S, pcs)
  BY DEF Awake, waiting
<1>2. /\ Cardinality(Awake(S, pcs)) <= Cardinality(Awake(S, new))
      /\ Cardinality(Awake(S, pcs)) \in Nat /\ Cardinality(Awake(S, new)) \in Nat
  BY <1>1, AwakeFinite, FS_Subset
<1>3. waiting(S, new) # {} => m <= Cardinality(Awake(S, new))
  BY <1>1, <1>2 DEF SideInv
<1>4. \A t \in S : new[t] = "sleep" => m = 0
  BY DEF SideInv
<1> QED
  BY <1>3, <1>4 DEF SideInv

\* A thread leaves with one of what there is.
LEMMA SideLeaves ==
  ASSUME NEW S, IsFiniteSet(S), NEW pcs, NEW new, NEW u \in S,
         pcs[u] = "body", new[u] = "idle", \A t \in S \ {u} : new[t] = pcs[t],
         NEW n \in Nat, n > 0, SideInv(S, n, pcs)
  PROVE  SideInv(S, n - 1, new)
<1>1. /\ Awake(S, new) = Awake(S, pcs) \ {u} /\ u \in Awake(S, pcs)
      /\ waiting(S, new) = waiting(S, pcs)
  BY DEF Awake, waiting
<1>2. /\ Cardinality(Awake(S, new)) = Cardinality(Awake(S, pcs)) - 1
      /\ Cardinality(Awake(S, pcs)) \in Nat
  BY <1>1, AwakeFinite, FS_RemoveElement, Zenon
<1>3. \A t \in S : new[t] # "sleep"
  BY DEF SideInv
<1> QED
  BY <1>1, <1>2, <1>3 DEF SideInv

\* There is one more, and one of the blocked threads is notified.
LEMMA SideNotified ==
  ASSUME NEW S \in SUBSET Threads, IsFiniteSet(S), NEW pcs \in [Threads -> PCs],
         NEW new \in notify_one(S, pcs), \A t \in S : pcs[t] # "sleep",
         NEW n \in Nat, SideInv(S, n, pcs)
  PROVE  SideInv(S, n + 1, new)
<1>1. CASE waiting(S, pcs) = {}
  BY <1>1 DEF notify_one, SideInv
<1>2. CASE waiting(S, pcs) # {}
  <2>1. PICK u \in waiting(S, pcs) : new = [pcs EXCEPT ![u] = "lock"]
    BY <1>2 DEF notify_one
  <2>2. u \in S /\ pcs[u] = "waiting" /\ new[u] = "lock"
        /\ \A t \in S \ {u} : new[t] = pcs[t]
    BY <2>1 DEF waiting
  <2>3. Awake(S, new) = Awake(S, pcs) \cup {u} /\ u \notin Awake(S, pcs)
    BY <2>2 DEF Awake
  <2>4. /\ Cardinality(Awake(S, new)) = Cardinality(Awake(S, pcs)) + 1
        /\ Cardinality(Awake(S, pcs)) \in Nat
    BY <2>3, AwakeFinite, FS_AddElement, Zenon
  <2>5. n <= Cardinality(Awake(S, pcs))
    BY <1>2 DEF SideInv
  <2>6. \A t \in S : new[t] # "sleep"
    BY <2>2
  <2> QED
    BY <2>4, <2>5, <2>6 DEF SideInv
<1> QED
  BY <1>1, <1>2
-----------------------------------------------------------------------------
\* No step of a thread or of the signal handler disturbs either side.
LEMMA WakeupStep ==
  RingInv /\ RingInv' /\ WakeupInv /\ [RingNext]_ringVars => WakeupInv'
<1> SUFFICES ASSUME RingInv, RingInv', WakeupInv, [RingNext]_ringVars
             PROVE WakeupInv'
  OBVIOUS
<1> DEFINE room == Capacity - count_
<1>f. /\ IsFiniteSet(Readers) /\ IsFiniteSet(Writers)
      /\ Readers \in SUBSET Threads /\ Writers \in SUBSET Threads
      /\ \A t \in Readers : t \notin Writers
  BY RingAssumption DEF Threads
<1>t. /\ count_ \in Nat /\ room \in Nat /\ pc \in [Threads -> PCs]
      /\ \A t, u \in Threads : t \in mtx /\ u \in mtx => t = u
      /\ \A t \in Threads : pc[t] \in {"sleep", "body"} => t \in mtx
  BY CapacityNat DEF RingInv, RingTypeOK, MutexInv, PCs
<1>g. ASSUME UNCHANGED count_,
             \A t \in Threads :
               /\ pc[t] \in {"lock", "body"} => pc'[t] \in {"lock", "body"}
               /\ pc'[t] \in {"waiting", "sleep"} => pc[t] = pc'[t]
      PROVE WakeupInv'
  <2>1. SideInv(Readers, count_', pc')
    BY <1>f, <1>t, <1>g, SideGrows DEF WakeupInv
  <2>2. SideInv(Writers, Capacity - count_', pc')
    BY <1>f, <1>t, <1>g, SideGrows DEF WakeupInv
  <2> QED
    BY <2>1, <2>2 DEF WakeupInv
<1>1. ASSUME NEW w \in Writers, NEW d \in Data, callWrite(w, d) PROVE WakeupInv'
  BY <1>f, <1>t, <1>g, <1>1 DEF callWrite, slotVars
<1>2. ASSUME NEW r \in Readers, callRead(r) PROVE WakeupInv'
  BY <1>f, <1>t, <1>g, <1>2 DEF callRead, slotVars
<1>3. ASSUME NEW t \in Threads, spuriousWakeup(t) PROVE WakeupInv'
  BY <1>t, <1>g, <1>3 DEF spuriousWakeup, slotVars
<1>4. ASSUME signalHandler PROVE WakeupInv'
  <2>1. OnlyWakes(pc, pc') /\ UNCHANGED count_
    BY <1>f, <1>t, <1>4, NotifyAllWakes DEF signalHandler, handlerStore,
       handlerNotifyData, handlerNotifySpace, slotVars, OnlyWakes
  <2> QED
    BY <1>g, <2>1 DEF OnlyWakes
<1>s. ASSUME NEW t \in Threads, UNCHANGED count_,
             \A u \in Threads \ {t} : pc'[u] = pc[u],
             t \in Readers => count_ = 0, t \in Writers => room = 0
      PROVE WakeupInv'
  <2>1. SideInv(Readers, count_', pc')
    <3>1. CASE t \in Readers
      BY <1>f, <1>s, <3>1, SideZero
    <3>2. CASE t \notin Readers
      BY <1>f, <1>t, <1>s, <3>2, SideGrows DEF WakeupInv
    <3> QED
      BY <3>1, <3>2
  <2>2. SideInv(Writers, Capacity - count_', pc')
    <3>1. CASE t \in Writers
      BY <1>f, <1>s, <3>1, SideZero
    <3>2. CASE t \notin Writers
      BY <1>f, <1>t, <1>s, <3>2, SideGrows DEF WakeupInv
    <3> QED
      BY <3>1, <3>2
  <2> QED
    BY <2>1, <2>2 DEF WakeupInv
<1>5. ASSUME NEW t \in Threads, acquire(t) PROVE WakeupInv'
  <2>1. UNCHANGED count_ /\ pc' = [pc EXCEPT ![t] = IF mayProceed(t) THEN "body" ELSE "sleep"]
    BY <1>5 DEF acquire, slotVars
  <2>2. CASE mayProceed(t)
    BY <1>t, <1>g, <1>5, <2>1, <2>2 DEF acquire
  <2>3. CASE ~mayProceed(t)
    <3>1. (t \in Readers => count_ = 0) /\ (t \in Writers => room = 0)
      BY <1>f, <1>t, <2>3 DEF mayProceed, isEmpty, isFull
    <3> QED
      BY <1>t, <1>s, <2>1, <3>1
  <2> QED
    BY <2>2, <2>3
<1>6. ASSUME NEW t \in Threads, block(t) PROVE WakeupInv'
  <2>1. (t \in Readers => count_ = 0) /\ (t \in Writers => room = 0)
    BY <1>6 DEF block, WakeupInv, SideInv
  <2>2. UNCHANGED count_ /\ \A u \in Threads \ {t} : pc'[u] = pc[u]
    BY <1>t, <1>6 DEF block, slotVars
  <2> QED
    BY <1>s, <2>1, <2>2
<1>7. ASSUME NEW w \in Writers, write(w) PROVE WakeupInv'
  <2> DEFINE left == [pc EXCEPT ![w] = "idle"]
  <2>1. CASE stop_flag /\ isFull
    <3>1. /\ UNCHANGED count_ /\ room = 0 /\ w \in Threads /\ w \notin Readers
          /\ \A u \in Threads \ {w} : pc'[u] = pc[u]
      BY <1>f, <1>t, <1>7, <2>1 DEF write, slotVars, isFull
    <3> QED
      BY <1>s, <3>1
  <2>2. CASE ~(stop_flag /\ isFull)
    <3>1. /\ count_ < Capacity /\ count_' = count_ + 1
          /\ pc' \in notify_one(Readers, left) /\ pc[w] = "body"
      BY <1>7, <2>2, WriteStores DEF write
    <3>2. /\ left \in [Threads -> PCs] /\ left[w] = "idle"
          /\ \A t \in Threads \ {w} : left[t] = pc[t]
      BY <1>f, <1>t DEF PCs
    <3>3. \A t \in Threads : left[t] # "sleep"
      BY <1>f, <1>t, <3>1, <3>2
    <3> HIDE DEF left
    <3>4. SideInv(Readers, count_, left)
      BY <1>f, <1>t, <3>2, SideGrows DEF WakeupInv
    <3>5. SideInv(Readers, count_', pc')
      BY <1>f, <1>t, <3>1, <3>2, <3>3, <3>4, SideNotified
    <3>6. \A t \in Writers : pc'[t] = left[t]
      BY <1>f, <3>1, <3>2 DEF notify_one, waiting
    <3>7. SideInv(Writers, room - 1, pc')
      BY <1>f, <1>t, <3>1, <3>2, <3>6, CapacityNat, SideLeaves DEF WakeupInv
    <3>8. Capacity - count_' = room - 1
      BY <1>t, <3>1, CapacityNat
    <3> QED
      BY <3>5, <3>7, <3>8 DEF WakeupInv
  <2> QED
    BY <2>1, <2>2
<1>8. ASSUME NEW r \in Readers, read(r) PROVE WakeupInv'
  <2> DEFINE left == [pc EXCEPT ![r] = "idle"]
  <2>1. CASE stop_flag /\ isEmpty
    <3>1. /\ UNCHANGED count_ /\ count_ = 0 /\ r \in Threads /\ r \notin Writers
          /\ \A u \in Threads \ {r} : pc'[u] = pc[u]
      BY <1>f, <1>t, <1>8, <2>1 DEF read, slotVars, isEmpty
    <3> QED
      BY <1>s, <3>1
  <2>2. CASE ~(stop_flag /\ isEmpty)
    <3>1. /\ count_ > 0 /\ count_' = count_ - 1
          /\ pc' \in notify_one(Writers, left) /\ pc[r] = "body"
      BY <1>8, <2>2, ReadTakes DEF read
    <3>2. /\ left \in [Threads -> PCs] /\ left[r] = "idle"
          /\ \A t \in Threads \ {r} : left[t] = pc[t]
      BY <1>f, <1>t DEF PCs
    <3>3. \A t \in Threads : left[t] # "sleep"
      BY <1>f, <1>t, <3>1, <3>2
    <3> HIDE DEF left
    <3>4. SideInv(Writers, room, left)
      BY <1>f, <1>t, <3>2, SideGrows DEF WakeupInv
    <3>5. SideInv(Writers, room + 1, pc')
      BY <1>f, <1>t, <3>1, <3>2, <3>3, <3>4, SideNotified
    <3>6. \A t \in Readers : pc'[t] = left[t]
      BY <1>f, <3>1, <3>2 DEF notify_one, waiting
    <3>7. SideInv(Readers, count_', pc')
      BY <1>f, <1>t, <3>1, <3>2, <3>6, SideLeaves DEF WakeupInv
    <3>8. Capacity - count_' = room + 1
      BY <1>t, <3>1, CapacityNat
    <3> QED
      BY <3>5, <3>7, <3>8 DEF WakeupInv
  <2> QED
    BY <2>1, <2>2
<1>9. CASE UNCHANGED ringVars
  BY <1>g, <1>9 DEF ringVars
<1> QED
  BY <1>1, <1>2, <1>3, <1>4, <1>5, <1>6, <1>7, <1>8, <1>9, Zenon DEF RingNext, threadStep

\* While a thread is blocked, pcs most as many slots are filled, or room, as
\* there are threads awake to take them.
THEOREM RingNoLostWakeup == RingSpec => []NoLostWakeup
<1>1. RingInit => WakeupInv
  <2> SUFFICES ASSUME RingInit PROVE WakeupInv
    OBVIOUS
  <2>1. \A S \in SUBSET Threads : waiting(S, pc) = {} /\ \A t \in S : pc[t] # "sleep"
    BY DEF RingInit, waiting
  <2>2. Readers \in SUBSET Threads /\ Writers \in SUBSET Threads
    BY DEF Threads
  <2> QED
    BY <2>1, <2>2 DEF WakeupInv, SideInv
<1>2. WakeupInv => NoLostWakeup
  BY DEF WakeupInv, SideInv, Awake, NoLostWakeup
<1> QED
  BY <1>1, <1>2, WakeupStep, RingInvariant, PTL DEF RingSpec
=============================================================================
