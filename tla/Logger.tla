------------------------------- MODULE Logger -------------------------------
(***************************************************************************)
(* Logger (utils/logger.cpp) as main() and the two threads call it.  The   *)
(* time is read before the mutex is taken; localtime() returns a pointer   *)
(* to one static struct tm that all threads share.                         *)
(***************************************************************************)
EXTENDS Naturals, Sequences

CONSTANTS
  Callers,    \* main() and the threads
  level_,     \* the level main() sets before it starts the threads
  Levels,     \* INFO, WARN and ERROR are 0, 1 and 2
  MaxCalls,   \* bound: calls of each caller
  MaxSeconds  \* bound: the clock

NoOne == "none"

ASSUME LoggerAssumption == NoOne \notin Callers

VARIABLES
  wallClock,
  place,      \* where a caller is in log()
  call,       \* its current call: [time, message]
  logMutex,   \* who holds the mutex
  tm,         \* localtime's static buffer
  cout,       \* the lines written: [from, stamp, message]
  calls       \* history: each caller's calls: [level, time]

loggerVars == <<wallClock, place, call, logMutex, tm, cout, calls>>

NoCall == [time |-> 0, message |-> 0]

LoggerInit ==
  /\ wallClock = 0 /\ logMutex = NoOne /\ tm = 0 /\ cout = <<>>
  /\ place = [c \in Callers |-> "idle"]
  /\ call = [c \in Callers |-> NoCall]
  /\ calls = [c \in Callers |-> <<>>]
-----------------------------------------------------------------------------
goes(c, p) == place' = [place EXCEPT ![c] = p]

\* log(): below the level nothing happens, else the time is read.  A caller's
\* messages are numbered, so that no two of its calls have the same one.
enter(c) ==
  /\ place[c] = "idle" /\ Len(calls[c]) < MaxCalls
  /\ \E level \in Levels :
       /\ calls' = [calls EXCEPT ![c] = Append(@, [level |-> level, time |-> wallClock])]
       /\ IF level < level_
          THEN UNCHANGED <<place, call>>
          ELSE /\ call' = [call EXCEPT ![c] = [time |-> wallClock,
                                              message |-> Len(calls'[c])]]
               /\ goes(c, "lock")
  /\ UNCHANGED <<wallClock, logMutex, tm, cout>>

freeAlways == TRUE
free == logMutex = NoOne

lock(c) ==
  /\ place[c] = "lock" /\ free
  /\ logMutex' = c /\ goes(c, "localtime")
  /\ UNCHANGED <<wallClock, call, tm, cout, calls>>

localtime(c) ==
  /\ place[c] = "localtime"
  /\ tm' = call[c].time /\ goes(c, "write")
  /\ UNCHANGED <<wallClock, call, logMutex, cout, calls>>

\* put_time formats what is in tm; the line goes out and the mutex is free.
writeLine(c) ==
  /\ place[c] = "write"
  /\ cout' = Append(cout, [from |-> c, stamp |-> tm, message |-> call[c].message])
  /\ logMutex' = NoOne /\ goes(c, "idle")
  /\ UNCHANGED <<wallClock, call, tm, calls>>

clockTicks ==
  /\ wallClock < MaxSeconds /\ wallClock' = wallClock + 1
  /\ UNCHANGED <<place, call, logMutex, tm, cout, calls>>

logStep(c) == lock(c) \/ localtime(c) \/ writeLine(c)
LoggerNext == clockTicks \/ \E c \in Callers : enter(c) \/ logStep(c)

LoggerSpec == LoggerInit /\ [][LoggerNext]_loggerVars
-----------------------------------------------------------------------------
\* Of a caller's calls cs, those that are over: all, but the one it may be in.
over(p, cs) == {k \in 1..Len(cs) : p = "idle" \/ k # Len(cs)}

\* The line of the k-th call of c, with the time of that very call.
line(c, k) == [from |-> c, stamp |-> calls[c][k].time, message |-> k]

\* The lines of a caller are its calls at or above the level, in order, each
\* with the time of that very call: no line is lost or written twice, and no
\* thread's time shows up in another thread's line.
LinesAreCalls ==
  /\ \A c \in Callers : \A k \in over(place[c], calls[c]) :
       ~(calls[c][k].level < level_) <=> \E j \in 1..Len(cout) : cout[j] = line(c, k)
  /\ \A j \in 1..Len(cout) : \E c \in Callers :
       \E k \in over(place[c], calls[c]) : cout[j] = line(c, k)
  /\ \A i, j \in 1..Len(cout) :
       i < j /\ cout[i].from = cout[j].from => cout[i].message < cout[j].message
=============================================================================
