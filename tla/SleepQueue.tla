------------------------------ MODULE SleepQueue -------------------------------
(***************************************************************************)
(* Sleeping, waking, stopping and timing out: kern/kern_synch.c with the   *)
(* part of kern/kern_sig.c that ends or suspends a sleep, the two steps of *)
(* the clock in kern/kern_clock.c that end one, and the swap state of      *)
(* vm/vm_glue.c that a wake-up looks at.                                   *)
(*                                                                         *)
(* All of it runs at splhigh on one processor: each entry, from its        *)
(* beginning or from the return of mi_switch to the next mi_switch or the  *)
(* end, is one action.  Interrupts come between actions; one place needs   *)
(* care: softclock takes an entry off the callout queue, drops to its own  *)
(* level, and only then calls it, so other interrupts, but no process, run *)
(* in between.                                                             *)
(*                                                                         *)
(* The signals: STOP and CONT have their default action; TSTP and CHLD are *)
(* caught.  No signal is masked and no process is traced.  A process whose *)
(* parent is modelled sends it SIGCHLD when it stops.  A SIGCONT that finds *)
(* nothing to continue stays in p_siglist in the code; all that ever       *)
(* happens to it there is to be dropped, and it is not recorded.           *)
(***************************************************************************)
EXTENDS Naturals, FiniteSets

CONSTANTS Proc,      \* the processes; the address of one is an identifier too
          Parent,    \* p_pptr: a function from Proc to Proc or NoProc
          NoProc,    \* no process
          Event,     \* the other identifiers one can sleep on
          NoWchan,   \* p_wchan == 0
          Proc0,     \* the identifier &proc0, on which the swapper sleeps
          Lookup,    \* LOOKUP: the queue of each identifier
          Signals,   \* the signals in use
          Swapping   \* TRUE iff the pageout daemon swaps processes out

Ident == Event \cup Proc
AllSignals == {"STOP", "CONT", "TSTP", "CHLD"}

ASSUME ProcAssumption ==
    /\ IsFiniteSet(Proc) /\ NoProc \notin Proc
    /\ Parent \in [Proc -> Proc \cup {NoProc}]
    /\ \A p \in Proc : Parent[p] # p
ASSUME IdentAssumption ==
    NoWchan \notin Ident \cup {Proc0} /\ DOMAIN Lookup = Ident \cup {Proc0}
ASSUME SignalAssumption == Signals \subseteq AllSignals /\ Swapping \in BOOLEAN

VARIABLES proc,      \* the fields of each struct proc
          timer,     \* the processes endtsleep is queued for in the callouts
          firing,    \* the process whose endtsleep softclock is about to call
          panicked   \* TRUE once "panic: wakeup" has stopped the machine

vars == <<proc, timer, firing, panicked>>

(***************************************************************************)
(* stat, wchan, siglist and inmem are the fields of struct proc; sintr and *)
(* timedout are P_SINTR and P_TIMEOUT.  pc tells which mi_switch the       *)
(* process is in: "sleep" of tsleep, "stop1" and "stop2" of issignal       *)
(* called before and after that sleep, "ustop" of issignal on the way to   *)
(* user mode, or "out".  catch and timo are the arguments of its tsleep,   *)
(* ret what the last one returned, and woken whether a wakeup met it.      *)
(***************************************************************************)
ProcType ==
    [stat : {"SRUN", "SSLEEP", "SSTOP"}, wchan : Ident \cup {NoWchan},
     sintr : BOOLEAN, timedout : BOOLEAN, inmem : BOOLEAN,
     siglist : SUBSET {"STOP", "TSTP", "CHLD"},
     pc : {"out", "sleep", "stop1", "stop2", "ustop"},
     catch : BOOLEAN, timo : BOOLEAN,
     ret : {"none", "0", "EWOULDBLOCK", "EINTR"}, woken : BOOLEAN]

TypeOK ==
    /\ proc \in [Proc -> ProcType]
    /\ timer \subseteq Proc
    /\ firing \in Proc \cup {NoProc}
    /\ panicked \in BOOLEAN

Init ==
    /\ proc = [p \in Proc |->
                 [stat |-> "SRUN", wchan |-> NoWchan, sintr |-> FALSE,
                  timedout |-> FALSE, inmem |-> TRUE, siglist |-> {},
                  pc |-> "out", catch |-> FALSE, timo |-> FALSE,
                  ret |-> "none", woken |-> FALSE]]
    /\ timer = {}
    /\ firing = NoProc
    /\ panicked = FALSE

--------------------------------------------------------------------------------
\* The state P of the processes after a call, for each function of kern_synch.c
\* and kern_sig.c that changes it.  Definitions whose names start with Bad are
\* slips a maintainer could make, and no part of the specification.

Unsleep(P, p) == [P EXCEPT ![p].wchan = NoWchan]

Setrunnable(P, p) == [P EXCEPT ![p].wchan = NoWchan, ![p].stat = "SRUN"]

\* wakeup(i): whoever sleeps on i leaves the queue; a stopped one stays stopped.
Wakeup(P, i) ==
    [p \in Proc |->
       IF P[p].wchan = i
       THEN [P[p] EXCEPT !.wchan = NoWchan, !.woken = TRUE,
                         !.stat = IF @ = "SSLEEP" THEN "SRUN" ELSE @]
       ELSE P[p]]

\* The DIAGNOSTIC test of wakeup(i) meets a process on the queue of i that is
\* neither asleep nor stopped.
WakeupPanics(P, i) ==
    \E p \in Proc : /\ P[p].wchan # NoWchan
                    /\ Lookup[P[p].wchan] = Lookup[i]
                    /\ P[p].stat = "SRUN"

\* psignal of a caught signal to a process that the signal does not stop
Interrupt(P, p, s) ==
    LET Q == [P EXCEPT ![p].siglist = @ \cup {s}]
    IN  CASE P[p].stat = "SSLEEP" /\ P[p].sintr -> Setrunnable(Q, p)
          [] P[p].stat = "SSTOP" /\ P[p].sintr  -> Unsleep(Q, p)
          [] OTHER                              -> Q

\* psignal(p->p_pptr, SIGCHLD)
TellParent(P, p) ==
    IF Parent[p] = NoProc THEN P ELSE Interrupt(P, Parent[p], "CHLD")

\* The parent that is told becomes runnable while it is swapped out: setrunnable
\* wakes the swapper.
ParentWakesSwapper(P, p) ==
    /\ Parent[p] # NoProc
    /\ ~P[Parent[p]].inmem
    /\ P[Parent[p]].stat = "SSLEEP" /\ P[Parent[p]].sintr

\* Take a stop signal: tell the parent, and stop(p), which wakes it from wait4.
Stop(P, p) ==
    LET Q == [TellParent(P, p) EXCEPT ![p].stat = "SSTOP",
                                      ![p].siglist = @ \ {"STOP"}]
    IN  IF Parent[p] = NoProc THEN Q ELSE Wakeup(Q, Parent[p])

\* A SIGCONT that always sends the process back to sleep
BadContinue(P, p) ==
    LET Q == [P EXCEPT ![p].siglist = @ \ {"STOP", "TSTP"}]
    IN  IF P[p].stat # "SSTOP" THEN Q ELSE [Q EXCEPT ![p].stat = "SSLEEP"]

\* A SIGCONT that stays pending after it has done its work
BadContinueKept(P, p) ==
    LET Q == [P EXCEPT ![p].siglist = (@ \ {"STOP", "TSTP"}) \cup {"CONT"}]
    IN  IF P[p].stat # "SSTOP" THEN Q
        ELSE IF P[p].wchan = NoWchan THEN Setrunnable(Q, p)
        ELSE [Q EXCEPT ![p].stat = "SSLEEP"]

\* psignal(p, SIGCONT): the stop signals that are pending are forgotten, and a
\* stopped process goes back to where it was, asleep or runnable.
Continue(P, p) ==
    LET Q == [P EXCEPT ![p].siglist = @ \ {"STOP", "TSTP"}]
    IN  IF P[p].stat # "SSTOP" THEN Q
        ELSE IF P[p].wchan = NoWchan THEN Setrunnable(Q, p)
        ELSE [Q EXCEPT ![p].stat = "SSLEEP"]

\* psignal(p, s).  A stop signal, caught or not, is taken away from a process
\* that is stopped already.
PsignalOf(P, p, s) ==
    CASE s = "CONT" -> Continue(P, p)
      [] s \in {"STOP", "TSTP"} /\ P[p].stat = "SSTOP" ->
            [P EXCEPT ![p].siglist = @ \ {s}]
      [] s = "STOP" /\ P[p].stat = "SSLEEP" /\ P[p].sintr -> Stop(P, p)
      [] s = "STOP" /\ P[p].stat # "SSTOP"
                    /\ ~(P[p].stat = "SSLEEP" /\ P[p].sintr) ->
            [P EXCEPT ![p].siglist = @ \cup {s}]
      [] OTHER -> Interrupt(P, p, s)

\* issignal: the lowest pending signal.  A stop signal comes before the caught
\* ones.
Stops(P, p) == "STOP" \in P[p].siglist
Caught(P, p) == ~Stops(P, p) /\ P[p].siglist # {}

--------------------------------------------------------------------------------
\* The parts of tsleep, for p after P and with the callouts T

\* tsleep returns.
Return(P, p, why) ==
    proc' = [P EXCEPT ![p].pc = "out", ![p].ret = why,
                      ![p].sintr = FALSE, ![p].timedout = FALSE]

\* The second look at the signals
LastCheck(P, p) ==
    IF Stops(P, p)
    THEN proc' = [Stop(P, p) EXCEPT ![p].pc = "stop2"]
    ELSE Return(P, p, IF Caught(P, p) THEN "EINTR" ELSE "0")

\* A resume that leaves the callout of the sleep behind
BadAwake(P, p, T, sig, catch) ==
    /\ timer' = T
    /\ CASE P[p].timedout /\ ~sig -> Return(P, p, "EWOULDBLOCK")
         [] catch /\ sig          -> Return(P, p, "EINTR")
         [] ~P[p].timedout /\ catch /\ ~sig ->
               LastCheck([P EXCEPT ![p].sintr = FALSE], p)
         [] ~P[p].timedout /\ ~catch -> Return(P, p, "0")

\* From "resume:" on.  sig tells whether the first look found a signal, catch
\* whether there is to be a second.
Awake(P, p, T, sig, catch) ==
    /\ timer' = IF P[p].timedout THEN T ELSE T \ {p}
    /\ CASE P[p].timedout /\ ~sig -> Return(P, p, "EWOULDBLOCK")
         [] catch /\ sig          -> Return(P, p, "EINTR")
         [] ~P[p].timedout /\ catch /\ ~sig ->
               LastCheck([P EXCEPT ![p].sintr = FALSE], p)
         [] ~P[p].timedout /\ ~catch -> Return(P, p, "0")

\* A first look after which p sleeps although it was woken while stopped
BadFirstCheck(P, p, T) ==
    CASE Stops(P, p) ->
            proc' = [Stop(P, p) EXCEPT ![p].pc = "stop1"] /\ timer' = T
      [] Caught(P, p) -> Awake(Unsleep(P, p), p, T, TRUE, TRUE)
      [] ~Stops(P, p) /\ ~Caught(P, p) ->
            /\ proc' = [P EXCEPT ![p].stat = "SSLEEP", ![p].pc = "sleep"]
            /\ timer' = T

\* The first look at the signals, by a process that is on the sleep queue, and
\* what follows it up to the switch
FirstCheck(P, p, T) ==
    CASE Stops(P, p) ->
            proc' = [Stop(P, p) EXCEPT ![p].pc = "stop1"] /\ timer' = T
      [] Caught(P, p) -> Awake(Unsleep(P, p), p, T, TRUE, TRUE)
      [] ~Stops(P, p) /\ ~Caught(P, p) /\ P[p].wchan = NoWchan ->
            Awake(P, p, T, FALSE, FALSE)
      [] ~Stops(P, p) /\ ~Caught(P, p) /\ P[p].wchan # NoWchan ->
            /\ proc' = [P EXCEPT ![p].stat = "SSLEEP", ![p].pc = "sleep"]
            /\ timer' = T

--------------------------------------------------------------------------------
\* The actions

\* A process does something: no interrupt is being served.
ProcessTurn == ~panicked /\ firing = NoProc

\* p has the processor.
Current(p) == ProcessTurn /\ proc[p].stat = "SRUN" /\ proc[p].inmem

\* tsleep(i, catch, timo), or sleep(i), which neither catches nor times out
Tsleep(p, i, catch, timo) ==
    LET P == [proc EXCEPT ![p].wchan = i, ![p].sintr = catch,
                          ![p].catch = catch, ![p].timo = timo,
                          ![p].ret = "none", ![p].woken = FALSE]
        T == IF timo THEN timer \cup {p} ELSE timer
    IN  /\ Current(p) /\ proc[p].pc = "out"
        /\ UNCHANGED firing
        /\ \/ /\ ~catch
              /\ proc' = [P EXCEPT ![p].stat = "SSLEEP", ![p].pc = "sleep"]
              /\ timer' = T
              /\ UNCHANGED panicked
           \/ /\ catch
              /\ Stops(P, p) /\ ParentWakesSwapper(P, p) /\ WakeupPanics(P, Proc0)
              /\ panicked' = TRUE
              /\ UNCHANGED <<proc, timer>>
           \/ /\ catch
              /\ ~(Stops(P, p) /\ ParentWakesSwapper(P, p) /\ WakeupPanics(P, Proc0))
              /\ FirstCheck(P, p, T)
              /\ UNCHANGED panicked

\* mi_switch returns in p.
Resume(p) ==
    /\ Current(p) /\ proc[p].pc # "out"
    /\ UNCHANGED <<firing, panicked>>
    /\ \/ /\ proc[p].pc = "sleep"
          /\ Awake(proc, p, timer, FALSE, proc[p].catch)
       \/ /\ proc[p].pc = "stop1"
          /\ FirstCheck(proc, p, timer)
       \/ /\ proc[p].pc = "stop2"
          /\ LastCheck(proc, p)
          /\ UNCHANGED timer
       \/ /\ proc[p].pc = "ustop"
          /\ proc' = IF Stops(proc, p) THEN Stop(proc, p)
                     ELSE [proc EXCEPT ![p].pc = "out"]
          /\ UNCHANGED timer

\* On the way to user mode p looks at its signals: it stops, or the handlers of
\* those it catches are called.
UserReturn(p) ==
    /\ Current(p) /\ proc[p].pc = "out" /\ proc[p].siglist # {}
    /\ UNCHANGED <<timer, firing, panicked>>
    /\ proc' = IF Stops(proc, p)
               THEN [Stop(proc, p) EXCEPT ![p].pc = "ustop"]
               ELSE [proc EXCEPT ![p].siglist = {}]

\* A wakeup by a process or by an interrupt
WakeupEvent(i) ==
    /\ ~panicked
    /\ IF WakeupPanics(proc, i)
       THEN panicked' = TRUE /\ UNCHANGED proc
       ELSE proc' = Wakeup(proc, i) /\ UNCHANGED panicked
    /\ UNCHANGED <<timer, firing>>

\* A signal from a process or from an interrupt
Psignal(p, s) ==
    /\ ~panicked
    /\ proc' = PsignalOf(proc, p, s)
    /\ UNCHANGED <<timer, firing, panicked>>

\* softclock takes the entry of p, which is due, off the callout queue.
Softclock(p) ==
    /\ ~panicked /\ firing = NoProc
    /\ p \in timer
    /\ timer' = timer \ {p}
    /\ firing' = p
    /\ UNCHANGED <<proc, panicked>>

\* An endtsleep that does not see that the process is stopped
BadTimedOut(P, p) ==
    IF P[p].wchan = NoWchan THEN P
    ELSE [Setrunnable(P, p) EXCEPT ![p].timedout = TRUE]

\* An endtsleep that does not see that the process has been awakened
BadTimedOutLate(P, p) ==
    [IF P[p].stat = "SSLEEP" THEN Setrunnable(P, p) ELSE Unsleep(P, p)
       EXCEPT ![p].timedout = TRUE]

\* An endtsleep that passes over a process that is stopped
BadTimedOutStopped(P, p) ==
    IF P[p].wchan = NoWchan \/ P[p].stat # "SSLEEP" THEN P
    ELSE [Setrunnable(P, p) EXCEPT ![p].timedout = TRUE]

\* What endtsleep does to a process that has not been awakened
TimedOut(P, p) ==
    IF P[p].wchan = NoWchan THEN P
    ELSE [IF P[p].stat = "SSLEEP" THEN Setrunnable(P, p) ELSE Unsleep(P, p)
            EXCEPT ![p].timedout = TRUE]

Endtsleep(p) ==
    /\ ~panicked /\ firing = p
    /\ proc' = TimedOut(proc, p)
    /\ firing' = NoProc
    /\ UNCHANGED <<timer, panicked>>

\* The pageout daemon swaps p out, and the swapper a runnable p in.
Swapout(p) ==
    /\ ProcessTurn /\ Swapping
    /\ proc[p].inmem
    /\ proc' = [proc EXCEPT ![p].inmem = FALSE]
    /\ UNCHANGED <<timer, firing, panicked>>

Swapin(p) ==
    /\ ProcessTurn
    /\ ~proc[p].inmem /\ proc[p].stat = "SRUN"
    /\ proc' = [proc EXCEPT ![p].inmem = TRUE]
    /\ UNCHANGED <<timer, firing, panicked>>

Next ==
    \/ \E p \in Proc :
         \/ \E i \in Event \cup {p}, catch, timo \in BOOLEAN :
              Tsleep(p, i, catch, timo)
         \/ Resume(p) \/ UserReturn(p)
         \/ \E s \in Signals : Psignal(p, s)
         \/ Softclock(p) \/ Endtsleep(p)
         \/ Swapout(p) \/ Swapin(p)
    \/ \E i \in Event : WakeupEvent(i)

Spec == Init /\ [][Next]_vars

\* The clock ticks and serves the callouts in the order of their times, so none
\* waits for ever behind the others; a runnable process gets the processor in
\* the end, however often an interrupt comes first.
Fairness ==
    \A p \in Proc : /\ SF_vars(Softclock(p)) /\ WF_vars(Endtsleep(p))
                    /\ SF_vars(Resume(p)) /\ WF_vars(Swapin(p))

FairSpec == Spec /\ Fairness

--------------------------------------------------------------------------------
\* Properties

\* A process that is asleep is on a sleep queue, where wakeup finds it, and one
\* that is on a queue is asleep or stopped: what the DIAGNOSTIC tests of tsleep
\* and wakeup assume (kern_synch.c:319, 525), and what keeps a SIGCONT from
\* putting to sleep for ever a process whose wake-up came while it was stopped
\* (kern_synch.c:335-342).
SleepersWakeable ==
    \A p \in Proc :
      /\ proc[p].stat = "SSLEEP" => proc[p].wchan # NoWchan
      /\ proc[p].wchan # NoWchan => /\ proc[p].stat \in {"SSLEEP", "SSTOP"}
                                    /\ proc[p].pc \in {"sleep", "stop1"}

\* No callout outlives its sleep: an endtsleep that is queued, or that softclock
\* holds in its hand, is for the timed sleep its process is still in, so it can
\* never end a later sleep (kern_synch.c:378 and kern_clock.c:707-715).
TimerOwned ==
    \A p \in (timer \cup {firing}) \ {NoProc} :
      proc[p].timo /\ proc[p].pc \in {"sleep", "stop1"}

\* tsleep tells why it returned (kern_synch.c:278-279): 0 if the process was
\* awakened, EWOULDBLOCK if the timeout of this sleep expired first.
ReturnTellsWhy ==
    \A p \in Proc :
      /\ proc[p].ret = "0" => proc[p].woken
      /\ proc[p].ret = "EWOULDBLOCK" => proc[p].timo /\ ~proc[p].woken

\* Of the signals modelled only SIGCONT ends a stop: neither a wake-up, nor a
\* timeout, nor a signal that is caught makes a stopped process run or sleep
\* (kern_synch.c:399, kern_sig.c:714-719).  SIGKILL, which sets a stopped process
\* running too (kern_sig.c:678-682), is left out of the model.
StopHolds ==
    [][\A p \in Proc :
         proc[p].stat = "SSTOP" /\ proc'[p].stat # "SSTOP"
           => proc' = PsignalOf(proc, p, "CONT")]_vars

\* A sleep with a timeout ends, unless its process is stopped.
TimedSleepEnds ==
    \A p \in Proc :
      proc[p].pc = "sleep" /\ proc[p].timo
        ~> proc[p].pc = "out" \/ proc[p].stat = "SSTOP"

\* Who was awakened comes back from tsleep, unless stopped: no wake-up is lost,
\* not even one that comes while the process is stopped inside tsleep.
WokenReturns ==
    \A p \in Proc :
      proc[p].pc # "out" /\ proc[p].woken
        ~> proc[p].pc = "out" \/ proc[p].stat = "SSTOP"

================================================================================
