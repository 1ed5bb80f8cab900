-------------------------------- MODULE Callout --------------------------------
(***************************************************************************)
(* The callout queue of kern/kern_clock.c: timeout, untimeout, the part of *)
(* hardclock that counts it down and softclock, which makes the calls.     *)
(*                                                                         *)
(* calltodo is the list of callout structures in use, each with c_time,    *)
(* the ticks from the event before it to its own.  The list holds callfree *)
(* too, in effect: NCallout structures less those in use.  Each pass over  *)
(* the list runs at splhigh and is one action.  softclock lowers the level *)
(* around each call, so while one is being made (calling) hardclock ticks, *)
(* and interrupts and the function itself call timeout and untimeout.      *)
(***************************************************************************)
EXTENDS Integers, Sequences, FiniteSets

CONSTANTS Func,      \* the functions that can be scheduled, with their argument
          Ticks,     \* the delays that are asked for
          NCallout,  \* ncallout: how many callout structures there are
          MaxLate,   \* bound: the ticks softclock may be late (0 or more)
          NoFunc     \* no call is being made

ASSUME NCalloutAssumption == NCallout \in Nat \ {0}
ASSUME TicksAssumption    == Ticks \subseteq Int
ASSUME MaxLateAssumption  == MaxLate \in Nat
ASSUME NoFuncAssumption   == NoFunc \notin Func

VARIABLES calltodo,  \* the callouts, [func, time] each, the first due first
          calling,   \* the function softclock is calling, or NoFunc
          panicked   \* timeout has found no free structure

vars == <<calltodo, calling, panicked>>

Callout == [func : Func, time : Int]

Init == calltodo = <<>> /\ calling = NoFunc /\ panicked = FALSE

\* c_time > 0: the event is a delta from the one before it.  c_time <= 0: it is
\* due, or it follows another event in the same tick.
Delta(c) == IF c.time > 0 THEN c.time ELSE 0

\* The ticks that go by with the first k callouts
Passed ==
    LET sum[k \in 0 .. Len(calltodo)] ==
          IF k = 0 THEN 0 ELSE sum[k-1] + Delta(calltodo[k])
    IN  sum

\* A mistake: an event that is overdue takes its lateness off the ticks too.
BadRest(ticks) ==
    LET rest[i \in 1 .. Len(calltodo) + 1] ==
          IF i = 1 THEN ticks ELSE rest[i-1] - calltodo[i-1].time
    IN  rest

\* What is left of the ticks asked for where the i-th callout is looked at: the
\* callouts before it have been passed.
Rest(ticks) == [i \in 1 .. Len(calltodo) + 1 |-> ticks - Passed[i-1]]

\* Where the walk stops: at the first callout that is not before the new one
Place(ticks) ==
    CHOOSE i \in 1 .. Len(calltodo) + 1 :
        /\ i = Len(calltodo) + 1 \/ Rest(ticks)[i] <= calltodo[i].time
        /\ \A j \in 1 .. i-1 : Rest(ticks)[j] > calltodo[j].time

\* A mistake: the time of the next callout stays as it is.
BadInsert(i, c) ==
    [k \in 1 .. Len(calltodo) + 1 |->
        IF k < i THEN calltodo[k] ELSE IF k = i THEN c ELSE calltodo[k-1]]

\* The list with a new callout c at place i, and the next one's time reduced
Insert(i, c) ==
    [k \in 1 .. Len(calltodo) + 1 |->
        IF k < i THEN calltodo[k]
        ELSE IF k = i THEN c
        ELSE IF k = i + 1 THEN [calltodo[i] EXCEPT !.time = @ - c.time]
        ELSE calltodo[k-1]]

\* A mistake: the lateness of a callout that is due goes to the next one too.
BadDelete(i) ==
    [k \in 1 .. Len(calltodo) - 1 |->
        IF k < i THEN calltodo[k]
        ELSE IF k = i THEN [calltodo[i+1] EXCEPT !.time = @ + calltodo[i].time]
        ELSE calltodo[k+1]]

\* The list without callout i, whose time goes to the next one unless it is due
Delete(i) ==
    [k \in 1 .. Len(calltodo) - 1 |->
        IF k < i THEN calltodo[k]
        ELSE IF k = i THEN [calltodo[i+1] EXCEPT !.time = @ + Delta(calltodo[i])]
        ELSE calltodo[k+1]]

\* How far hardclock goes: past the callouts that were due before this tick
Reached(i) == \A j \in 1 .. i-1 : calltodo[j].time <= 0

CountDown ==
    [i \in 1 .. Len(calltodo) |->
        IF Reached(i) THEN [calltodo[i] EXCEPT !.time = @ - 1] ELSE calltodo[i]]
--------------------------------------------------------------------------------
Timeout(f, n) ==
    LET ticks == IF n <= 0 THEN 1 ELSE n
        place == Place(ticks)
    IN  /\ ~panicked
        /\ Len(calltodo) < NCallout
        /\ calltodo' = Insert(place, [func |-> f, time |-> Rest(ticks)[place]])
        /\ UNCHANGED <<calling, panicked>>

TimeoutPanics ==
    /\ ~panicked
    /\ Len(calltodo) = NCallout
    /\ panicked' = TRUE
    /\ UNCHANGED <<calltodo, calling>>

Untimeout(f) ==
    /\ ~panicked
    /\ \E i \in DOMAIN calltodo :
          /\ calltodo[i].func = f
          /\ \A j \in 1 .. i-1 : calltodo[j].func # f
          /\ calltodo' = Delete(i)
    /\ UNCHANGED <<calling, panicked>>

Hardclock ==
    /\ ~panicked
    /\ calltodo # <<>> /\ Head(calltodo).time > -MaxLate
    /\ calltodo' = CountDown
    /\ UNCHANGED <<calling, panicked>>

\* The callout goes to the free list before its function is called.
Softclock ==
    /\ ~panicked
    /\ calling = NoFunc
    /\ calltodo # <<>> /\ Head(calltodo).time <= 0
    /\ calling' = Head(calltodo).func
    /\ calltodo' = Tail(calltodo)
    /\ UNCHANGED panicked

Return ==
    /\ ~panicked
    /\ calling # NoFunc
    /\ calling' = NoFunc
    /\ UNCHANGED <<calltodo, panicked>>

Next == \/ \E f \in Func : Untimeout(f) \/ \E n \in Ticks : Timeout(f, n)
        \/ TimeoutPanics
        \/ Hardclock
        \/ Softclock
        \/ Return

Spec == Init /\ [][Next]_vars

\* The clock ticks, the software interrupt it asks for is served, and a function
\* that was called returns.
FairSpec == /\ Spec
            /\ WF_vars(Hardclock)
            /\ WF_vars(Softclock)
            /\ WF_vars(Return)
--------------------------------------------------------------------------------
\* The queue holds functions and times, no more of them than there are
\* structures, and softclock is in one function at most (struct callout).  It has
\* the form hardclock relies on (its comment: "at front of queue are some number
\* of events which are due"): due events come first, the longest due in front,
\* and no time behind a future event is negative.
TypeOK ==
    /\ calltodo \in Seq(Callout)
    /\ Len(calltodo) <= NCallout
    /\ calling \in Func \cup {NoFunc}
    /\ panicked \in BOOLEAN
    /\ \A i, j \in DOMAIN calltodo : i < j =>
           /\ calltodo[i].time > 0 => calltodo[j].time >= 0
           /\ calltodo[j].time < 0 => calltodo[i].time <= calltodo[j].time

\* The ticks that callout i has left: the sum of the times up to its own, in
\* which an event that is due counts for nothing.  A due one is as late as it says.
Left(i) == IF Passed[i] > 0 THEN Passed[i] ELSE calltodo[i].time

Entry(i) == [func |-> calltodo[i].func, left |-> Left(i)]
Entries  == {Entry(i) : i \in DOMAIN calltodo}

Promise == INSTANCE Timeouts
             WITH scheduled <- [e \in Entries |->
                     Cardinality({i \in DOMAIN calltodo : Entry(i) = e})]

\* The list of differences keeps the promise of timeout.9: each call is made
\* when its own delay is over, in the order of the deadlines, however late
\* softclock is and whatever is inserted and cancelled around it.
KeepsPromise == Promise!Spec

\* What is scheduled is called in the end once nobody calls untimeout for it any
\* more: neither a late softclock nor a stream of other timeouts holds it up.
Scheduled(f) == \E i \in DOMAIN calltodo : calltodo[i].func = f
CalledInTheEnd ==
    \A f \in Func : <>[][~Untimeout(f)]_vars =>
        (Scheduled(f) ~> (calling = f \/ ~Scheduled(f) \/ panicked))
===============================================================================
