---------------------------- MODULE SleepQueueProofs ----------------------------
(***************************************************************************)
(* The safety of sleeping and waking, for every set of processes, events   *)
(* and signals.                                                            *)
(*                                                                         *)
(* A process takes its own record through tsleep.  What a wake-up, a signal *)
(* or the swapper does to the record of a process, wherever that is, is    *)
(* always of one kind (Nudge), and a record that was sound stays so.       *)
(***************************************************************************)
EXTENDS SleepQueue, TLAPS

NoTstp == "TSTP" \notin Signals

InSleep == {"sleep", "stop1"}

\* Asleep only on a queue, and on a queue only asleep or stopped
Placed(r) == /\ r.stat = "SSLEEP" => r.wchan # NoWchan
             /\ r.wchan # NoWchan => r.stat # "SRUN"

\* Within a tsleep: it is over because of a wake-up, the timeout or a signal.
Inside(r) ==
    /\ r.wchan # NoWchan => ~r.woken /\ ~r.timedout
    /\ r.timedout => r.timo /\ ~r.woken
    /\ r.sintr => r.catch
    /\ NoTstp =>
         /\ r.ret = "none" /\ "TSTP" \notin r.siglist
         /\ r.wchan = NoWchan /\ ~r.timedout
              => r.woken \/ (r.catch /\ "CHLD" \in r.siglist)

\* After a tsleep that has told why it ended
Outside(r) ==
    /\ r.wchan = NoWchan /\ ~r.timedout
    /\ NoTstp =>
         /\ "TSTP" \notin r.siglist
         /\ r.ret = "0" => r.woken
         /\ r.ret = "EWOULDBLOCK" => r.timo /\ ~r.woken

Sound(r) ==
    /\ r \in ProcType
    /\ Placed(r)
    /\ r.pc \in InSleep \cup {"stop2"} => Inside(r)
    /\ r.pc = "stop1" => r.catch
    /\ r.pc = "stop2" => r.wchan = NoWchan /\ ~r.timedout
    /\ r.pc \in {"out", "ustop"} => Outside(r)

\* The callout of q, in the queue T or in the hand f of softclock
Timed(q, r, T, f) ==
    /\ q \in T \/ f = q => r.timo /\ r.pc \in InSleep /\ ~r.timedout
    /\ ~(q \in T /\ f = q)

\* The invariant
IInv ==
    /\ proc \in [Proc -> ProcType]
    /\ timer \subseteq Proc /\ firing \in Proc \cup {NoProc} /\ panicked \in BOOLEAN
    /\ \A q \in Proc : Sound(proc[q]) /\ Timed(q, proc[q], timer, firing)

\* What others do to a process: they take it off its queue, for a reason, stop it,
\* continue it, swap it or send it a signal.
Nudge(r, s) ==
    /\ s \in ProcType
    /\ s.pc = r.pc /\ s.timo = r.timo /\ s.timedout = r.timedout
    /\ s.sintr = r.sintr /\ s.catch = r.catch /\ s.ret = r.ret
    /\ "CHLD" \in r.siglist => "CHLD" \in s.siglist
    /\ NoTstp /\ "TSTP" \notin r.siglist => "TSTP" \notin s.siglist
    /\ Placed(r) => Placed(s)
    /\ \/ s.wchan = r.wchan /\ s.woken = r.woken
       \/ /\ r.wchan # NoWchan /\ s.wchan = NoWchan
          /\ \/ s.woken
             \/ r.sintr /\ s.woken = r.woken /\ (NoTstp => "CHLD" \in s.siglist)

\* The same but for the state, the queue and whether a wakeup came
Alike(r, s) ==
    /\ s \in ProcType /\ s.siglist = r.siglist
    /\ s.pc = r.pc /\ s.timo = r.timo /\ s.timedout = r.timedout
    /\ s.sintr = r.sintr /\ s.catch = r.catch /\ s.ret = r.ret

Nudged(P, Q) == Q \in [Proc -> ProcType] /\ \A q \in Proc : Nudge(P[q], Q[q])

\* p runs within tsleep, with the processes at P and the callouts at T.
Working(P, p, T) ==
    /\ P \in [Proc -> ProcType]
    /\ \A q \in Proc \ {p} : Nudge(proc[q], P[q])
    /\ P[p].stat = "SRUN" /\ Inside(P[p])
    /\ T \subseteq Proc /\ \A q \in Proc \ {p} : q \in T <=> q \in timer
    /\ p \in T => P[p].timo /\ ~P[p].timedout

\* The same but for the place and what tsleep returns
Beside(r, s) ==
    /\ s \in ProcType /\ s.siglist = r.siglist /\ s.wchan = r.wchan
    /\ s.woken = r.woken /\ s.timo = r.timo /\ s.timedout = r.timedout
    /\ s.sintr = r.sintr /\ s.catch = r.catch

--------------------------------------------------------------------------------
\* What others do

\* Neither what is known within a tsleep nor what is known outside is lost.
LEMMA NudgeKeeps ==
  ASSUME NEW r \in ProcType, NEW s, Nudge(r, s)
  PROVE  (Inside(r) => Inside(s)) /\ (Outside(r) => Outside(s))
BY DEF Nudge, Inside, Outside, ProcType

\* A record that was sound stays so.
LEMMA NudgeSound ==
  ASSUME NEW r, NEW s, Sound(r), Nudge(r, s)
  PROVE  Sound(s) /\ \A q, T, f : Timed(q, r, T, f) => Timed(q, s, T, f)
<1>1. (Inside(r) => Inside(s)) /\ (Outside(r) => Outside(s))
  BY NudgeKeeps DEF Sound
<1>2. r.pc = "stop2" => s.wchan = NoWchan /\ ~s.timedout
  BY DEF Sound, Nudge
<1> QED
  BY <1>1, <1>2 DEF Sound, Nudge, Timed

\* Nudges add up.
LEMMA NudgeTwice ==
  ASSUME NEW r, NEW s, NEW t, Nudge(r, s), Nudge(s, t), r \in ProcType
  PROVE  Nudge(r, t)
BY DEF Nudge, ProcType

\* So do those of all processes.
LEMMA NudgedTwice ==
  ASSUME NEW P \in [Proc -> ProcType], NEW Q, NEW R, Nudged(P, Q), Nudged(Q, R)
  PROVE  Nudged(P, R)
BY NudgeTwice DEF Nudged

\* Nothing at all is a nudge.
LEMMA NudgeSelf == ASSUME NEW r \in ProcType PROVE Nudge(r, r)
BY DEF Nudge

\* One process is nudged and the others are left alone.
LEMMA NudgedOne ==
  ASSUME NEW P \in [Proc -> ProcType], NEW p \in Proc, NEW Q,
         Q \in [Proc -> ProcType], \A q \in Proc \ {p} : Q[q] = P[q],
         Nudge(P[p], Q[p])
  PROVE  Nudged(P, Q)
BY NudgeSelf DEF Nudged

\* psignal of a caught signal
LEMMA InterruptNudges ==
  ASSUME NEW P \in [Proc -> ProcType], NEW p \in Proc,
         NEW s \in {"TSTP", "CHLD"}, s = "TSTP" => ~NoTstp
  PROVE  /\ Nudged(P, Interrupt(P, p, s))
         /\ \A q \in Proc \ {p} : Interrupt(P, p, s)[q] = P[q]
         /\ (Interrupt(P, p, s)[p].stat = "SSTOP" <=> P[p].stat = "SSTOP")
<1> DEFINE r == P[p]
           a == [r EXCEPT !.siglist = @ \cup {s}]
           Q == Interrupt(P, p, s)
<1>0. /\ r \in ProcType /\ a \in ProcType
      /\ a.siglist = r.siglist \cup {s} /\ a.woken = r.woken
      /\ a.pc = r.pc /\ a.timo = r.timo /\ a.timedout = r.timedout
      /\ a.sintr = r.sintr /\ a.catch = r.catch /\ a.ret = r.ret
  BY DEF ProcType
<1>1. CASE r.stat = "SSLEEP" /\ r.sintr
  <2> DEFINE b == [a EXCEPT !.wchan = NoWchan, !.stat = "SRUN"]
  <2>1. Q = [P EXCEPT ![p] = b]
    BY <1>1 DEF Interrupt, Setrunnable
  <2>2. b.stat = "SRUN" /\ b.wchan = NoWchan /\ b.woken = a.woken /\ Alike(a, b)
    <3> HIDE DEF a
    <3> QED BY <1>0 DEF ProcType, Alike
  <2>3. Nudge(r, b)
    <3> HIDE DEF b, a, r
    <3>1. NoTstp => s = "CHLD"
      OBVIOUS
    <3> QED BY <1>0, <1>1, <2>2, <3>1 DEF Nudge, Placed, Alike
  <2> HIDE DEF b
  <2>4. Q \in [Proc -> ProcType] /\ Q[p] = b /\ \A q \in Proc \ {p} : Q[q] = P[q]
    BY <2>1, <2>2 DEF Alike
  <2> QED BY <1>1, <2>2, <2>3, <2>4, NudgedOne
<1>2. CASE r.stat = "SSTOP" /\ r.sintr
  <2> DEFINE b == [a EXCEPT !.wchan = NoWchan]
  <2>1. Q = [P EXCEPT ![p] = b]
    BY <1>2 DEF Interrupt, Unsleep
  <2>2. b.stat = "SSTOP" /\ b.wchan = NoWchan /\ b.woken = a.woken /\ Alike(a, b)
    <3>1. a.stat = "SSTOP"
      BY <1>2 DEF ProcType
    <3> HIDE DEF a
    <3> QED BY <1>0, <3>1 DEF ProcType, Alike
  <2>3. Nudge(r, b)
    <3> HIDE DEF b, a, r
    <3> QED BY <1>0, <1>2, <2>2 DEF Nudge, Placed, Alike
  <2> HIDE DEF b
  <2>4. Q \in [Proc -> ProcType] /\ Q[p] = b /\ \A q \in Proc \ {p} : Q[q] = P[q]
    BY <2>1, <2>2 DEF Alike
  <2> QED BY <1>2, <2>2, <2>3, <2>4, NudgedOne
<1>3. CASE ~(r.stat \in {"SSLEEP", "SSTOP"} /\ r.sintr)
  <2>1. Q = [P EXCEPT ![p] = a]
    BY <1>3 DEF Interrupt
  <2>2. Q \in [Proc -> ProcType] /\ Nudge(r, Q[p]) /\ Q[p].stat = r.stat
    BY <1>0, <2>1 DEF Nudge, ProcType, Placed
  <2> QED BY <1>3, <2>1, <2>2, NudgedOne
<1> QED BY <1>1, <1>2, <1>3

\* wakeup
LEMMA WakeupNudges ==
  ASSUME NEW P \in [Proc -> ProcType], NEW i, i # NoWchan
  PROVE  /\ Nudged(P, Wakeup(P, i))
         /\ \A q \in Proc :
              /\ Wakeup(P, i)[q].stat = "SSTOP" <=> P[q].stat = "SSTOP"
              /\ Wakeup(P, i)[q].siglist = P[q].siglist
              /\ Wakeup(P, i)[q].wchan = P[q].wchan \/ Wakeup(P, i)[q].woken
<1> DEFINE Q == Wakeup(P, i)
<1>1. ASSUME NEW q \in Proc
      PROVE  /\ Q[q] \in ProcType /\ Nudge(P[q], Q[q])
             /\ Q[q].stat = "SSTOP" <=> P[q].stat = "SSTOP"
             /\ Q[q].siglist = P[q].siglist
             /\ Q[q].wchan = P[q].wchan \/ Q[q].woken
  <2>1. P[q] \in ProcType
    OBVIOUS
  <2>2. CASE P[q].wchan = i
    <3>1. Q[q] = [P[q] EXCEPT !.wchan = NoWchan, !.woken = TRUE,
                              !.stat = IF @ = "SSLEEP" THEN "SRUN" ELSE @]
      BY <2>2 DEF Wakeup
    <3> HIDE DEF Q
    <3>2. /\ Q[q].wchan = NoWchan /\ Q[q].woken = TRUE
          /\ Q[q].stat = IF P[q].stat = "SSLEEP" THEN "SRUN" ELSE P[q].stat
          /\ Alike(P[q], Q[q])
      BY <2>1, <3>1 DEF ProcType, Alike
    <3>3. Nudge(P[q], Q[q])
      BY <2>2, <3>2 DEF Nudge, Placed, Alike
    <3> QED BY <3>2, <3>3 DEF Alike
  <2>3. CASE P[q].wchan # i
    BY <2>1, <2>3, NudgeSelf DEF Wakeup
  <2> QED BY <2>2, <2>3
<1>2. Q = [q \in Proc |-> Q[q]]
  BY DEF Wakeup
<1> HIDE DEF Q
<1>3. Q \in [Proc -> ProcType]
  BY <1>1, <1>2
<1> QED BY <1>1, <1>3 DEF Nudged, Q

\* psignal(p->p_pptr, SIGCHLD)
LEMMA TellParentNudges ==
  ASSUME NEW P \in [Proc -> ProcType], NEW p \in Proc
  PROVE  /\ Nudged(P, TellParent(P, p)) /\ TellParent(P, p)[p] = P[p]
         /\ \A q \in Proc : TellParent(P, p)[q].stat = "SSTOP" <=> P[q].stat = "SSTOP"
<1>1. CASE Parent[p] = NoProc
  BY <1>1, NudgeSelf DEF TellParent, Nudged
<1>2. CASE Parent[p] # NoProc
  <2> DEFINE f == Parent[p]
  <2>1. f \in Proc /\ f # p
    BY <1>2, ProcAssumption
  <2>2. TellParent(P, p) = Interrupt(P, f, "CHLD")
    BY <1>2 DEF TellParent
  <2> HIDE DEF f
  <2>3. /\ Nudged(P, Interrupt(P, f, "CHLD"))
        /\ \A q \in Proc \ {f} : Interrupt(P, f, "CHLD")[q] = P[q]
        /\ (Interrupt(P, f, "CHLD")[f].stat = "SSTOP" <=> P[f].stat = "SSTOP")
    BY <2>1, InterruptNudges
  <2> QED BY <2>1, <2>2, <2>3
<1> QED BY <1>1, <1>2

\* A stop signal: to the process itself it is a nudge as well.
LEMMA StopNudges ==
  ASSUME NEW P \in [Proc -> ProcType], NEW p \in Proc
  PROVE  /\ Nudged(P, Stop(P, p))
         /\ Stop(P, p)[p].stat = "SSTOP"
         /\ \A q \in Proc : P[q].stat = "SSTOP" => Stop(P, p)[q].stat = "SSTOP"
<1> DEFINE T == TellParent(P, p)
           b == [P[p] EXCEPT !.stat = "SSTOP", !.siglist = @ \ {"STOP"}]
           Q == [T EXCEPT ![p] = b]
<1>1. /\ Nudged(P, T) /\ T \in [Proc -> ProcType] /\ T[p] = P[p]
      /\ \A q \in Proc : T[q].stat = "SSTOP" <=> P[q].stat = "SSTOP"
  BY TellParentNudges DEF Nudged
<1>2. Stop(P, p) = IF Parent[p] = NoProc THEN Q ELSE Wakeup(Q, Parent[p])
  BY <1>1 DEF Stop
<1>3. b \in ProcType /\ b.stat = "SSTOP" /\ Nudge(P[p], b)
  <2>1. P[p] \in ProcType
    OBVIOUS
  <2>2. /\ b \in ProcType /\ b.stat = "SSTOP" /\ b.siglist = P[p].siglist \ {"STOP"}
        /\ b.wchan = P[p].wchan /\ b.woken = P[p].woken
        /\ b.pc = P[p].pc /\ b.timo = P[p].timo /\ b.timedout = P[p].timedout
        /\ b.sintr = P[p].sintr /\ b.catch = P[p].catch /\ b.ret = P[p].ret
    BY <2>1 DEF ProcType
  <2> HIDE DEF b
  <2> QED BY <2>2 DEF Nudge, Placed
<1> HIDE DEF T, b
<1>4. /\ Q \in [Proc -> ProcType] /\ Q[p] = b
      /\ \A q \in Proc \ {p} : Q[q] = T[q]
  BY <1>1, <1>3
<1> HIDE DEF Q
<1>5. Nudged(P, Q)
  BY <1>1, <1>3, <1>4 DEF Nudged
<1>6. \A q \in Proc : P[q].stat = "SSTOP" => Q[q].stat = "SSTOP"
  BY <1>1, <1>3, <1>4
<1>7. CASE Parent[p] = NoProc
  BY <1>2, <1>3, <1>4, <1>5, <1>6, <1>7
<1>8. CASE Parent[p] # NoProc
  <2>1. Parent[p] # NoWchan
    BY <1>8, ProcAssumption, IdentAssumption DEF Ident
  <2>2. /\ Nudged(Q, Wakeup(Q, Parent[p]))
        /\ \A q \in Proc : Wakeup(Q, Parent[p])[q].stat = "SSTOP" <=> Q[q].stat = "SSTOP"
    BY <1>4, <2>1, WakeupNudges
  <2>3. Nudged(P, Wakeup(Q, Parent[p]))
    BY <1>5, <2>2, NudgedTwice
  <2> QED BY <1>2, <1>3, <1>4, <1>6, <1>8, <2>2, <2>3
<1> QED BY <1>7, <1>8

\* SIGCONT
LEMMA ContinueNudges ==
  ASSUME NEW P \in [Proc -> ProcType], NEW p \in Proc
  PROVE  Nudged(P, Continue(P, p))
<1> DEFINE a == [P[p] EXCEPT !.siglist = @ \ {"STOP", "TSTP"}]
           Q == Continue(P, p)
<1>0. P[p] \in ProcType
  OBVIOUS
<1>1. /\ a \in ProcType /\ a.stat = P[p].stat /\ a.wchan = P[p].wchan
      /\ a.siglist = P[p].siglist \ {"STOP", "TSTP"} /\ a.woken = P[p].woken
      /\ a.pc = P[p].pc /\ a.timo = P[p].timo /\ a.timedout = P[p].timedout
      /\ a.sintr = P[p].sintr /\ a.catch = P[p].catch /\ a.ret = P[p].ret
  BY <1>0 DEF ProcType
<1>2. PICK stat \in {"SRUN", "SSLEEP", "SSTOP"} :
        /\ Q = [P EXCEPT ![p] = [a EXCEPT !.stat = stat]]
        /\ P[p].stat # "SSTOP" => stat = P[p].stat
        /\ P[p].stat = "SSTOP" => stat = IF P[p].wchan = NoWchan THEN "SRUN" ELSE "SSLEEP"
  <2>1. CASE P[p].stat # "SSTOP"
    <3>1. a = [a EXCEPT !.stat = P[p].stat]
      BY <1>1 DEF ProcType
    <3>2. Q = [P EXCEPT ![p] = a] /\ P[p].stat \in {"SRUN", "SSLEEP", "SSTOP"}
      BY <1>0, <2>1 DEF Continue, ProcType
    <3> HIDE DEF a, Q
    <3> QED BY <2>1, <3>1, <3>2
  <2>2. CASE P[p].stat = "SSTOP" /\ P[p].wchan = NoWchan
    <3>1. Q = [P EXCEPT ![p] = [a EXCEPT !.wchan = NoWchan, !.stat = "SRUN"]]
      BY <2>2 DEF Continue, Setrunnable
    <3>2. [a EXCEPT !.wchan = NoWchan, !.stat = "SRUN"] = [a EXCEPT !.stat = "SRUN"]
      BY <1>1, <2>2 DEF ProcType
    <3> HIDE DEF a, Q
    <3> QED BY <2>2, <3>1, <3>2
  <2>3. CASE P[p].stat = "SSTOP" /\ P[p].wchan # NoWchan
    <3>1. Q = [P EXCEPT ![p] = [a EXCEPT !.stat = "SSLEEP"]]
      BY <2>3 DEF Continue
    <3> HIDE DEF a, Q
    <3> QED BY <2>3, <3>1
  <2> QED BY <2>1, <2>2, <2>3
<1> DEFINE b == [a EXCEPT !.stat = stat]
<1>3. b.stat = stat /\ b.wchan = a.wchan /\ b.woken = a.woken /\ Alike(a, b)
  <2> HIDE DEF a
  <2> QED BY <1>1 DEF ProcType, Alike
<1> HIDE DEF a, b, Q
<1>4. Nudge(P[p], b)
  BY <1>0, <1>1, <1>2, <1>3 DEF Nudge, Placed, Alike
<1>5. Q \in [Proc -> ProcType] /\ Q[p] = b /\ \A q \in Proc \ {p} : Q[q] = P[q]
  BY <1>2, <1>3 DEF Alike, b
<1>6. Nudged(P, Q)
  BY <1>4, <1>5, NudgedOne
<1> QED BY <1>6 DEF Q

\* Any signal of the model; only SIGCONT ends a stop.
LEMMA PsignalNudges ==
  ASSUME NEW P \in [Proc -> ProcType], NEW p \in Proc, NEW s \in Signals
  PROVE  /\ Nudged(P, PsignalOf(P, p, s))
         /\ s # "CONT" =>
              \A q \in Proc : P[q].stat = "SSTOP" => PsignalOf(P, p, s)[q].stat = "SSTOP"
<1>0. s \in AllSignals /\ P[p] \in ProcType
  BY SignalAssumption
<1>1. ASSUME NEW sigs \in SUBSET {"STOP", "TSTP", "CHLD"},
             "CHLD" \in P[p].siglist => "CHLD" \in sigs,
             "TSTP" \in sigs => "TSTP" \in P[p].siglist
      PROVE  /\ Nudged(P, [P EXCEPT ![p].siglist = sigs])
             /\ \A q \in Proc : [P EXCEPT ![p].siglist = sigs][q].stat = P[q].stat
  <2> DEFINE b == [P[p] EXCEPT !.siglist = sigs]
             Q == [P EXCEPT ![p] = b]
  <2>1. b.stat = P[p].stat /\ Nudge(P[p], b)
    BY <1>0, <1>1 DEF ProcType, Nudge, Placed
  <2>2. /\ Q \in [Proc -> ProcType] /\ Q[p] = b
        /\ \A q \in Proc \ {p} : Q[q] = P[q]
    BY <2>1 DEF Nudge
  <2>3. Q = [P EXCEPT ![p].siglist = sigs]
    OBVIOUS
  <2> HIDE DEF Q, b
  <2> QED BY <2>1, <2>2, <2>3, NudgedOne
<1>2. CASE s = "CONT"
  BY <1>2, ContinueNudges DEF PsignalOf
<1>3. CASE s \in {"STOP", "TSTP"} /\ P[p].stat = "SSTOP"
  <2>1. PsignalOf(P, p, s) = [P EXCEPT ![p].siglist = P[p].siglist \ {s}]
    BY <1>3 DEF PsignalOf
  <2>2. P[p].siglist \ {s} \in SUBSET {"STOP", "TSTP", "CHLD"}
    BY <1>0 DEF ProcType
  <2> QED BY <1>1, <1>3, <2>1, <2>2
<1>4. CASE s = "STOP" /\ P[p].stat = "SSLEEP" /\ P[p].sintr
  BY <1>4, StopNudges DEF PsignalOf
<1>5. CASE s = "STOP" /\ P[p].stat # "SSTOP" /\ ~(P[p].stat = "SSLEEP" /\ P[p].sintr)
  <2>1. PsignalOf(P, p, s) = [P EXCEPT ![p].siglist = P[p].siglist \cup {s}]
    BY <1>5 DEF PsignalOf
  <2>2. P[p].siglist \cup {s} \in SUBSET {"STOP", "TSTP", "CHLD"}
    BY <1>0, <1>5 DEF ProcType
  <2> QED BY <1>1, <1>5, <2>1, <2>2
<1>6. CASE s = "CHLD" \/ (s = "TSTP" /\ P[p].stat # "SSTOP")
  <2>1. PsignalOf(P, p, s) = Interrupt(P, p, s)
    BY <1>6 DEF PsignalOf
  <2>2. s = "TSTP" => ~NoTstp
    BY DEF NoTstp
  <2>3. s \in {"TSTP", "CHLD"}
    BY <1>6
  <2>4. /\ Nudged(P, Interrupt(P, p, s))
        /\ \A q \in Proc \ {p} : Interrupt(P, p, s)[q] = P[q]
        /\ Interrupt(P, p, s)[p].stat = "SSTOP" <=> P[p].stat = "SSTOP"
    BY <2>2, <2>3, InterruptNudges
  <2> QED BY <2>1, <2>4
<1> QED BY <1>0, <1>2, <1>3, <1>4, <1>5, <1>6 DEF AllSignals

--------------------------------------------------------------------------------
\* What a process does in tsleep

\* The others are as sound as they were, and p where it has come to.
LEMMA Lands ==
  ASSUME IInv, NEW p \in Proc, firing = NoProc, UNCHANGED <<firing, panicked>>,
         proc' \in [Proc -> ProcType],
         \A q \in Proc \ {p} : Nudge(proc[q], proc'[q]),
         Sound(proc'[p]), timer' \subseteq Proc,
         \A q \in Proc \ {p} : q \in timer' <=> q \in timer,
         p \in timer' => /\ proc'[p].timo /\ proc'[p].pc \in InSleep
                         /\ ~proc'[p].timedout
  PROVE  IInv'
<1>1. firing' # p /\ Timed(p, proc'[p], timer', firing')
  BY ProcAssumption DEF Timed
<1>2. ASSUME NEW q \in Proc \ {p}
      PROVE  Sound(proc'[q]) /\ Timed(q, proc'[q], timer', firing')
  <2>1. Sound(proc'[q]) /\ Timed(q, proc'[q], timer, firing)
    BY NudgeSound DEF IInv
  <2> QED BY <2>1 DEF Timed
<1> QED BY <1>1, <1>2 DEF IInv

\* tsleep returns.
LEMMA ReturnStep ==
  ASSUME IInv, NEW p \in Proc, firing = NoProc, UNCHANGED <<firing, panicked>>,
         NEW P, NEW why \in {"0", "EWOULDBLOCK", "EINTR"},
         Working(P, p, timer'), p \notin timer', P[p].wchan = NoWchan,
         NoTstp /\ why = "0" => P[p].woken,
         NoTstp /\ why = "EWOULDBLOCK" => P[p].timo /\ ~P[p].woken,
         Return(P, p, why)
  PROVE  IInv'
<1> DEFINE b == [P[p] EXCEPT !.pc = "out", !.ret = why, !.sintr = FALSE, !.timedout = FALSE]
<1>1. P[p] \in ProcType /\ P \in [Proc -> ProcType]
  BY DEF Working
<1>2. /\ b \in ProcType /\ b.pc = "out" /\ b.ret = why /\ ~b.timedout
      /\ b.stat = P[p].stat /\ b.wchan = P[p].wchan /\ b.woken = P[p].woken
      /\ b.timo = P[p].timo /\ b.siglist = P[p].siglist
  BY <1>1 DEF ProcType
<1>3. proc' = [P EXCEPT ![p] = b]
  BY <1>1 DEF Return
<1> HIDE DEF b
<1>4. Sound(b)
  BY <1>2 DEF Sound, Placed, Working, Inside, Outside, InSleep
<1>5. /\ proc' \in [Proc -> ProcType] /\ proc'[p] = b
      /\ \A q \in Proc \ {p} : proc'[q] = P[q]
  BY <1>1, <1>2, <1>3
<1> QED BY <1>4, <1>5, Lands DEF Working

\* p stops in issignal, called by tsleep.
LEMMA StopStep ==
  ASSUME IInv, NEW p \in Proc, firing = NoProc, UNCHANGED <<firing, panicked>>,
         NEW P, NEW pc \in {"stop1", "stop2"}, Working(P, p, timer'),
         pc = "stop1" => P[p].catch,
         pc = "stop2" => p \notin timer' /\ P[p].wchan = NoWchan /\ ~P[p].timedout,
         proc' = [Stop(P, p) EXCEPT ![p].pc = pc]
  PROVE  IInv'
<1> DEFINE Q == Stop(P, p)
           b == [Q[p] EXCEPT !.pc = pc]
<1>1. P \in [Proc -> ProcType] /\ P[p] \in ProcType
  BY DEF Working
<1>2. Nudged(P, Q) /\ Q[p].stat = "SSTOP"
  BY <1>1, StopNudges
<1> HIDE DEF Q
<1>3. Q \in [Proc -> ProcType] /\ Q[p] \in ProcType /\ Nudge(P[p], Q[p])
  BY <1>2 DEF Nudged
<1>4. /\ Beside(Q[p], b) /\ b.stat = "SSTOP" /\ b.pc = pc /\ b.ret = Q[p].ret
  BY <1>2, <1>3 DEF Beside, ProcType
<1>5. /\ proc' \in [Proc -> ProcType] /\ proc'[p] = b
      /\ \A q \in Proc \ {p} : proc'[q] = Q[q]
  BY <1>3, <1>4 DEF Beside, Q
<1> HIDE DEF b
<1>6. Inside(Q[p])
  BY <1>1, <1>3, NudgeKeeps DEF Working
<1>7. Sound(b)
  BY <1>3, <1>4, <1>6 DEF Beside, Sound, Placed, Inside, Nudge, InSleep
<1>8. ASSUME NEW q \in Proc \ {p} PROVE Nudge(proc[q], proc'[q])
  <2>1. Nudge(proc[q], P[q]) /\ Nudge(P[q], Q[q]) /\ proc[q] \in ProcType
    BY <1>2 DEF Working, Nudged, IInv
  <2> QED BY <1>5, <2>1, NudgeTwice
<1>9. p \in timer' => b.timo /\ b.pc \in InSleep /\ ~b.timedout
  BY <1>3, <1>4 DEF Beside, Nudge, Working, InSleep
<1> QED BY <1>5, <1>7, <1>8, <1>9, Lands DEF Working

\* The second look at the signals
LEMMA LastCheckStep ==
  ASSUME IInv, NEW p \in Proc, firing = NoProc, UNCHANGED <<firing, panicked>>,
         NEW P, Working(P, p, timer'), p \notin timer',
         P[p].wchan = NoWchan, ~P[p].timedout, LastCheck(P, p)
  PROVE  IInv'
<1>1. CASE Stops(P, p)
  BY <1>1, StopStep DEF LastCheck
<1>2. CASE ~Stops(P, p) /\ Caught(P, p)
  BY <1>2, ReturnStep DEF LastCheck
<1>3. CASE ~Stops(P, p) /\ ~Caught(P, p)
  <2>1. NoTstp => P[p].woken
    BY <1>3 DEF Caught, Working, Inside
  <2>2. Return(P, p, "0")
    BY <1>3 DEF LastCheck
  <2> QED BY <2>1, <2>2, ReturnStep
<1> QED BY <1>1, <1>2, <1>3

\* The way out of the sleep, from "resume:" on (kern_synch.c:370-393)
LEMMA AwakeStep ==
  ASSUME IInv, NEW p \in Proc, firing = NoProc, UNCHANGED <<firing, panicked>>,
         NEW P, NEW T, Working(P, p, T), P[p].wchan = NoWchan,
         NEW sig \in BOOLEAN, NEW catch \in BOOLEAN, sig => catch,
         ~catch => ~P[p].catch \/ P[p].siglist = {},
         Awake(P, p, T, sig, catch)
  PROVE  IInv'
<1> DEFINE out == P[p].timedout
<1>1. P \in [Proc -> ProcType] /\ P[p] \in ProcType /\ Inside(P[p])
  BY DEF Working
<1>2. Working(P, p, timer') /\ p \notin timer'
  <2>1. timer' = IF out THEN T ELSE T \ {p}
    BY DEF Awake
  <2> QED BY <2>1 DEF Working
<1>3. CASE out /\ ~sig
  <2>1. Return(P, p, "EWOULDBLOCK")
    BY <1>3 DEF Awake
  <2> QED BY <1>1, <1>2, <1>3, <2>1, ReturnStep DEF Inside
<1>4. CASE catch /\ sig
  <2>1. Return(P, p, "EINTR")
    BY <1>4 DEF Awake
  <2> QED BY <1>2, <2>1, ReturnStep
<1>5. CASE ~out /\ catch /\ ~sig
  <2> DEFINE b == [P[p] EXCEPT !.sintr = FALSE]
             Q == [P EXCEPT ![p] = b]
  <2>1. LastCheck(Q, p)
    BY <1>1, <1>5 DEF Awake
  <2>2. /\ b \in ProcType /\ b.siglist = P[p].siglist /\ b.wchan = P[p].wchan
        /\ b.woken = P[p].woken /\ b.timo = P[p].timo
        /\ b.timedout = P[p].timedout /\ b.sintr = FALSE
        /\ b.catch = P[p].catch /\ b.ret = P[p].ret /\ b.stat = P[p].stat
    BY <1>1 DEF ProcType
  <2> HIDE DEF b
  <2>3. Q \in [Proc -> ProcType] /\ Q[p] = b /\ \A q \in Proc \ {p} : Q[q] = P[q]
    BY <1>1, <2>2
  <2> HIDE DEF Q
  <2>4. Inside(b)
    BY <1>1, <2>2 DEF Inside
  <2>5. Working(Q, p, timer')
    BY <1>2, <2>2, <2>3, <2>4 DEF Working
  <2> QED BY <1>2, <1>5, <2>1, <2>2, <2>3, <2>5, LastCheckStep
<1>6. CASE ~out /\ ~catch
  <2>1. Return(P, p, "0")
    BY <1>6 DEF Awake
  <2>2. NoTstp => P[p].woken
    BY <1>1, <1>6 DEF Inside
  <2> QED BY <1>2, <2>1, <2>2, ReturnStep
<1> QED BY <1>3, <1>4, <1>5, <1>6

\* The first look at the signals and what follows it (kern_synch.c:326-367)
LEMMA FirstCheckStep ==
  ASSUME IInv, NEW p \in Proc, firing = NoProc, UNCHANGED <<firing, panicked>>,
         NEW P, NEW T, Working(P, p, T), P[p].catch, FirstCheck(P, p, T)
  PROVE  IInv'
<1>1. P \in [Proc -> ProcType] /\ P[p] \in ProcType /\ Inside(P[p])
  BY DEF Working
<1>2. CASE Stops(P, p)
  <2>1. proc' = [Stop(P, p) EXCEPT ![p].pc = "stop1"] /\ timer' = T
    BY <1>2 DEF FirstCheck, Caught
  <2> QED BY <2>1, StopStep
<1>3. CASE Caught(P, p)
  <2> DEFINE b == [P[p] EXCEPT !.wchan = NoWchan]
             Q == Unsleep(P, p)
  <2>1. Awake(Q, p, T, TRUE, TRUE)
    BY <1>3 DEF FirstCheck, Caught
  <2>2. /\ b \in ProcType /\ b.siglist = P[p].siglist /\ b.wchan = NoWchan
        /\ b.woken = P[p].woken /\ b.timo = P[p].timo
        /\ b.timedout = P[p].timedout /\ b.sintr = P[p].sintr
        /\ b.catch = P[p].catch /\ b.ret = P[p].ret /\ b.stat = P[p].stat
    BY <1>1 DEF ProcType
  <2>3. Q = [P EXCEPT ![p] = b]
    BY DEF Unsleep
  <2> HIDE DEF b
  <2>4. Q \in [Proc -> ProcType] /\ Q[p] = b /\ \A q \in Proc \ {p} : Q[q] = P[q]
    BY <1>1, <2>2, <2>3
  <2> HIDE DEF Q
  <2>5. Inside(b)
    <3>1. NoTstp => "CHLD" \in P[p].siglist
      BY <1>1, <1>3 DEF Caught, Stops, Inside, ProcType
    <3> QED BY <1>1, <2>2, <3>1 DEF Inside
  <2>6. Working(Q, p, T)
    BY <2>2, <2>4, <2>5 DEF Working
  <2> QED BY <2>1, <2>2, <2>4, <2>6, AwakeStep
<1>4. CASE ~Stops(P, p) /\ ~Caught(P, p) /\ P[p].wchan = NoWchan
  <2>1. Awake(P, p, T, FALSE, FALSE) /\ P[p].siglist = {}
    BY <1>4 DEF FirstCheck, Caught
  <2> QED BY <1>4, <2>1, AwakeStep
<1>5. CASE ~Stops(P, p) /\ ~Caught(P, p) /\ P[p].wchan # NoWchan
  <2> DEFINE b == [P[p] EXCEPT !.stat = "SSLEEP", !.pc = "sleep"]
  <2>1. proc' = [P EXCEPT ![p] = b] /\ timer' = T
    BY <1>5 DEF FirstCheck
  <2>2. Beside(P[p], b) /\ b.stat = "SSLEEP" /\ b.pc = "sleep" /\ b.ret = P[p].ret
    BY <1>1 DEF Beside, ProcType
  <2> HIDE DEF b
  <2>3. /\ proc' \in [Proc -> ProcType] /\ proc'[p] = b
        /\ \A q \in Proc \ {p} : proc'[q] = P[q]
    BY <1>1, <2>1, <2>2 DEF Beside
  <2>4. Sound(b)
    BY <1>1, <1>5, <2>2 DEF Sound, Placed, Inside, Beside, InSleep
  <2>5. p \in timer' => b.timo /\ b.pc \in InSleep /\ ~b.timedout
    BY <2>1, <2>2 DEF Beside, Working, InSleep
  <2> QED BY <2>1, <2>3, <2>4, <2>5, Lands DEF Working
<1> QED BY <1>2, <1>3, <1>4, <1>5

--------------------------------------------------------------------------------
\* The actions

\* Whatever only nudges keeps the invariant.
LEMMA NudgedStep ==
  ASSUME IInv, Nudged(proc, proc'), UNCHANGED <<timer, firing>>, panicked' \in BOOLEAN
  PROVE  IInv'
<1>1. ASSUME NEW q \in Proc
      PROVE  Sound(proc'[q]) /\ Timed(q, proc'[q], timer, firing)
  BY NudgeSound DEF IInv, Nudged
<1> QED BY <1>1 DEF IInv, Nudged

\* tsleep, from its entry to the switch or to its return
LEMMA TsleepKeeps ==
  ASSUME IInv, NEW p \in Proc, NEW i \in Event \cup {p},
         NEW catch \in BOOLEAN, NEW timo \in BOOLEAN, Tsleep(p, i, catch, timo)
  PROVE  IInv'
<1> DEFINE b == [proc[p] EXCEPT !.wchan = i, !.sintr = catch, !.catch = catch,
                                !.timo = timo, !.ret = "none", !.woken = FALSE]
           P == [proc EXCEPT ![p] = b]
           T == IF timo THEN timer \cup {p} ELSE timer
           c == [b EXCEPT !.stat = "SSLEEP", !.pc = "sleep"]
<1>1. /\ proc \in [Proc -> ProcType] /\ proc[p] \in ProcType /\ Outside(proc[p])
      /\ proc[p].stat = "SRUN" /\ proc[p].pc = "out" /\ firing = NoProc
      /\ timer \subseteq Proc /\ p \notin timer /\ UNCHANGED firing
  BY DEF IInv, Tsleep, Current, ProcessTurn, Sound, Timed, InSleep
<1>2. i \in Ident /\ i # NoWchan
  BY IdentAssumption DEF Ident
<1>3. /\ b \in ProcType /\ b.siglist = proc[p].siglist /\ b.wchan = i /\ ~b.woken
      /\ b.timo = timo /\ b.timedout = proc[p].timedout /\ b.sintr = catch
      /\ b.catch = catch /\ b.ret = "none" /\ b.stat = "SRUN"
  BY <1>1, <1>2 DEF ProcType
<1>4. \/ ~catch /\ proc' = [proc EXCEPT ![p] = c] /\ timer' = T /\ panicked' = panicked
      \/ panicked' = TRUE /\ UNCHANGED <<proc, timer>>
      \/ catch /\ FirstCheck(P, p, T) /\ panicked' = panicked
  BY <1>1 DEF Tsleep
<1>5. Beside(b, c) /\ c.stat = "SSLEEP" /\ c.pc = "sleep" /\ c.ret = b.ret
  <2> HIDE DEF b
  <2> QED BY <1>3 DEF Beside, ProcType
<1> HIDE DEF b, c
<1>6. /\ P \in [Proc -> ProcType] /\ P[p] = b
      /\ \A q \in Proc \ {p} : P[q] = proc[q] /\ Nudge(proc[q], P[q])
  BY <1>1, <1>3, NudgeSelf
<1> HIDE DEF P
<1>7. Inside(b)
  BY <1>1, <1>2, <1>3 DEF Inside, Outside
<1>8. /\ T \subseteq Proc /\ \A q \in Proc \ {p} : q \in T <=> q \in timer
      /\ p \in T => timo
  BY <1>1
<1> HIDE DEF T
<1>9. CASE ~catch /\ proc' = [proc EXCEPT ![p] = c] /\ timer' = T /\ panicked' = panicked
  <2>1. /\ proc' \in [Proc -> ProcType] /\ proc'[p] = c
        /\ \A q \in Proc \ {p} : Nudge(proc[q], proc'[q])
    BY <1>1, <1>5, <1>9, NudgeSelf DEF Beside
  <2>2. Sound(c)
    BY <1>2, <1>3, <1>5, <1>7 DEF Sound, Placed, Inside, Beside, InSleep
  <2>3. c.timo = timo /\ c.pc \in InSleep /\ ~c.timedout
    BY <1>1, <1>3, <1>5 DEF Beside, InSleep, Outside
  <2> QED BY <1>1, <1>8, <1>9, <2>1, <2>2, <2>3, Lands
<1>10. CASE panicked' = TRUE /\ UNCHANGED <<proc, timer>>
  BY <1>1, <1>10, NudgedStep, NudgeSelf DEF Nudged
<1>11. CASE catch /\ FirstCheck(P, p, T) /\ panicked' = panicked
  <2>1. Working(P, p, T)
    BY <1>1, <1>3, <1>6, <1>7, <1>8 DEF Working, Outside
  <2> QED BY <1>1, <1>3, <1>6, <1>11, <2>1, FirstCheckStep
<1> QED BY <1>4, <1>9, <1>10, <1>11

\* The return of mi_switch, in tsleep or in issignal
LEMMA ResumeKeeps ==
  ASSUME IInv, NEW p \in Proc, Resume(p)
  PROVE  IInv'
<1>1. /\ proc \in [Proc -> ProcType] /\ proc[p] \in ProcType /\ Sound(proc[p])
      /\ proc[p].stat = "SRUN" /\ proc[p].wchan = NoWchan /\ firing = NoProc
      /\ timer \subseteq Proc /\ UNCHANGED <<firing, panicked>>
  BY DEF IInv, Resume, Current, ProcessTurn, Sound, Placed
<1>2. p \in timer => /\ proc[p].timo /\ proc[p].pc \in InSleep /\ ~proc[p].timedout
  BY DEF IInv, Timed
<1>3. ASSUME Inside(proc[p]) PROVE Working(proc, p, timer)
  BY <1>1, <1>2, <1>3, NudgeSelf DEF Working
<1>4. CASE proc[p].pc = "sleep"
  <2>1. Awake(proc, p, timer, FALSE, proc[p].catch)
    BY <1>4 DEF Resume
  <2>2. Working(proc, p, timer) /\ proc[p].catch \in BOOLEAN
    BY <1>1, <1>3, <1>4 DEF Sound, InSleep, ProcType
  <2> QED BY <1>1, <2>1, <2>2, AwakeStep
<1>5. CASE proc[p].pc = "stop1"
  <2>1. FirstCheck(proc, p, timer)
    BY <1>5 DEF Resume
  <2>2. Working(proc, p, timer) /\ proc[p].catch
    BY <1>1, <1>3, <1>5 DEF Sound, InSleep
  <2> QED BY <1>1, <2>1, <2>2, FirstCheckStep
<1>6. CASE proc[p].pc = "stop2"
  <2>1. LastCheck(proc, p) /\ timer' = timer
    BY <1>6 DEF Resume
  <2>2. Working(proc, p, timer) /\ p \notin timer /\ ~proc[p].timedout
    BY <1>1, <1>2, <1>3, <1>6 DEF Sound, InSleep
  <2> QED BY <1>1, <2>1, <2>2, LastCheckStep
<1>7. CASE proc[p].pc = "ustop" /\ Stops(proc, p)
  <2>1. proc' = Stop(proc, p) /\ timer' = timer
    BY <1>7 DEF Resume
  <2> QED BY <1>1, <2>1, StopNudges, NudgedStep DEF IInv
<1>8. CASE proc[p].pc = "ustop" /\ ~Stops(proc, p)
  <2> DEFINE b == [proc[p] EXCEPT !.pc = "out"]
  <2>1. proc' = [proc EXCEPT ![p] = b] /\ timer' = timer
    BY <1>8 DEF Resume
  <2>2. Beside(proc[p], b) /\ b.stat = "SRUN" /\ b.pc = "out" /\ b.ret = proc[p].ret
    BY <1>1 DEF Beside, ProcType
  <2> HIDE DEF b
  <2>3. Sound(b)
    BY <1>1, <1>8, <2>2 DEF Sound, Placed, Outside, Beside, InSleep
  <2>4. /\ proc' \in [Proc -> ProcType] /\ proc'[p] = b
        /\ \A q \in Proc \ {p} : Nudge(proc[q], proc'[q])
    BY <1>1, <2>1, <2>2, NudgeSelf DEF Beside
  <2>5. p \notin timer
    BY <1>2, <1>8 DEF InSleep
  <2> QED BY <1>1, <2>1, <2>3, <2>4, <2>5, Lands
<1> QED BY <1>4, <1>5, <1>6, <1>7, <1>8 DEF Resume

\* The look at the signals on the way to user mode
LEMMA UserReturnKeeps ==
  ASSUME IInv, NEW p \in Proc, UserReturn(p)
  PROVE  IInv'
<1>1. /\ proc \in [Proc -> ProcType] /\ proc[p] \in ProcType /\ Sound(proc[p])
      /\ proc[p].stat = "SRUN" /\ proc[p].pc = "out" /\ firing = NoProc
      /\ timer \subseteq Proc /\ UNCHANGED <<timer, firing, panicked>> /\ p \notin timer
  BY DEF IInv, UserReturn, Current, ProcessTurn, Timed, InSleep
<1>2. CASE Stops(proc, p)
  <2> DEFINE Q == Stop(proc, p)
             b == [Q[p] EXCEPT !.pc = "ustop"]
  <2>1. Nudged(proc, Q) /\ Q[p].stat = "SSTOP"
    BY <1>1, StopNudges
  <2>2. proc' = [Q EXCEPT ![p].pc = "ustop"]
    BY <1>2 DEF UserReturn
  <2> HIDE DEF Q
  <2>3. Q \in [Proc -> ProcType] /\ Q[p] \in ProcType /\ Nudge(proc[p], Q[p])
    BY <2>1 DEF Nudged
  <2>4. Beside(Q[p], b) /\ b.stat = "SSTOP" /\ b.pc = "ustop" /\ b.ret = Q[p].ret
    BY <2>1, <2>3 DEF Beside, ProcType
  <2>5. /\ proc' \in [Proc -> ProcType] /\ proc'[p] = b
        /\ \A q \in Proc \ {p} : proc'[q] = Q[q]
    BY <2>2, <2>3, <2>4 DEF Beside
  <2> HIDE DEF b
  <2>6. Outside(Q[p])
    BY <1>1, <2>3, NudgeKeeps DEF Sound
  <2>7. Sound(b)
    BY <2>4, <2>6 DEF Sound, Placed, Outside, Beside, InSleep
  <2>8. \A q \in Proc \ {p} : Nudge(proc[q], proc'[q])
    BY <2>1, <2>5 DEF Nudged
  <2> QED BY <1>1, <2>5, <2>7, <2>8, Lands
<1>3. CASE ~Stops(proc, p)
  <2> DEFINE b == [proc[p] EXCEPT !.siglist = {}]
  <2>1. proc' = [proc EXCEPT ![p] = b]
    BY <1>3 DEF UserReturn
  <2>2. /\ b \in ProcType /\ b.stat = "SRUN" /\ b.pc = "out" /\ b.siglist = {}
        /\ b.ret = proc[p].ret /\ b.wchan = proc[p].wchan /\ b.woken = proc[p].woken
        /\ b.timo = proc[p].timo /\ b.timedout = proc[p].timedout
    BY <1>1 DEF ProcType
  <2> HIDE DEF b
  <2>3. Sound(b)
    BY <1>1, <2>2 DEF Sound, Placed, Outside, InSleep
  <2>4. /\ proc' \in [Proc -> ProcType] /\ proc'[p] = b
        /\ \A q \in Proc \ {p} : Nudge(proc[q], proc'[q])
    BY <1>1, <2>1, <2>2, NudgeSelf
  <2> QED BY <1>1, <2>3, <2>4, Lands
<1> QED BY <1>2, <1>3

\* softclock takes an entry off the callouts.
LEMMA SoftclockKeeps ==
  ASSUME IInv, NEW p \in Proc, Softclock(p)
  PROVE  IInv'
<1>1. ASSUME NEW q \in Proc PROVE Sound(proc[q]) /\ Timed(q, proc[q], timer', firing')
  BY ProcAssumption DEF IInv, Softclock, Timed
<1>2. UNCHANGED <<proc, panicked>> /\ firing' = p /\ timer' = timer \ {p}
  BY DEF Softclock
<1> QED BY <1>1, <1>2 DEF IInv

\* endtsleep ends the sleep, if it is not over.
LEMMA EndtsleepKeeps ==
  ASSUME IInv, NEW p \in Proc, Endtsleep(p)
  PROVE  IInv'
<1>1. /\ proc \in [Proc -> ProcType] /\ proc[p] \in ProcType /\ Sound(proc[p])
      /\ proc[p].timo /\ proc[p].pc \in InSleep /\ ~proc[p].timedout /\ p \notin timer
      /\ firing' = NoProc /\ UNCHANGED <<timer, panicked>> /\ proc' = TimedOut(proc, p)
  BY DEF IInv, Endtsleep, Timed
<1>2. ASSUME NEW q \in Proc, proc'[q] = proc[q]
      PROVE  Sound(proc'[q]) /\ Timed(q, proc'[q], timer', firing')
  BY <1>1, <1>2, ProcAssumption DEF IInv, Timed
<1>3. CASE proc[p].wchan = NoWchan
  BY <1>1, <1>2, <1>3 DEF IInv, TimedOut
<1>4. CASE proc[p].wchan # NoWchan
  <2> DEFINE stat == IF proc[p].stat = "SSLEEP" THEN "SRUN" ELSE proc[p].stat
             b == [proc[p] EXCEPT !.wchan = NoWchan, !.stat = stat, !.timedout = TRUE]
  <2>1. proc' = [proc EXCEPT ![p] = b]
    <3>1. CASE proc[p].stat = "SSLEEP"
      BY <1>1, <1>4, <3>1 DEF TimedOut, Setrunnable
    <3>2. CASE proc[p].stat # "SSLEEP"
      <4>1. [proc[p] EXCEPT !.wchan = NoWchan, !.timedout = TRUE] = b
        BY <1>1, <3>2 DEF ProcType
      <4>2. proc' = [proc EXCEPT ![p] = [proc[p] EXCEPT !.wchan = NoWchan,
                                                          !.timedout = TRUE]]
        BY <1>1, <1>4, <3>2 DEF TimedOut, Unsleep
      <4> QED BY <4>1, <4>2
    <3> QED BY <3>1, <3>2
  <2>2. /\ b \in ProcType /\ b.stat = stat /\ b.wchan = NoWchan /\ b.timedout
        /\ b.siglist = proc[p].siglist /\ b.woken = proc[p].woken
        /\ b.pc = proc[p].pc /\ b.timo = proc[p].timo /\ b.sintr = proc[p].sintr
        /\ b.catch = proc[p].catch /\ b.ret = proc[p].ret
    BY <1>1 DEF ProcType
  <2>3. stat # "SSLEEP"
    OBVIOUS
  <2> HIDE DEF b, stat
  <2>4. Sound(b)
    BY <1>1, <1>4, <2>2, <2>3 DEF Sound, Placed, Inside, InSleep
  <2>5. /\ proc' \in [Proc -> ProcType] /\ proc'[p] = b
        /\ \A q \in Proc \ {p} : proc'[q] = proc[q]
    BY <1>1, <2>1, <2>2
  <2>6. Timed(p, b, timer', firing')
    BY <1>1, ProcAssumption DEF Timed
  <2> QED BY <1>1, <1>2, <2>4, <2>5, <2>6 DEF IInv
<1> QED BY <1>3, <1>4

\* The wake-ups, the signals and the swapper
LEMMA OthersKeep ==
  ASSUME IInv,
         \/ \E i \in Event : WakeupEvent(i)
         \/ \E p \in Proc : \/ \E s \in Signals : Psignal(p, s)
                           \/ Swapout(p) \/ Swapin(p)
  PROVE  IInv'
<1>1. proc \in [Proc -> ProcType] /\ panicked \in BOOLEAN
  BY DEF IInv
<1>2. ASSUME NEW i \in Event, WakeupEvent(i) PROVE IInv'
  <2>1. i # NoWchan
    BY IdentAssumption DEF Ident
  <2>2. Nudged(proc, Wakeup(proc, i)) /\ Nudged(proc, proc)
    BY <1>1, <2>1, WakeupNudges, NudgeSelf DEF Nudged
  <2>3. /\ proc' = proc \/ proc' = Wakeup(proc, i)
        /\ UNCHANGED <<timer, firing>> /\ panicked' \in BOOLEAN
    BY <1>1, <1>2 DEF WakeupEvent
  <2> QED BY <2>2, <2>3, NudgedStep
<1>3. ASSUME NEW p \in Proc, NEW s \in Signals, Psignal(p, s) PROVE IInv'
  BY <1>1, <1>3, PsignalNudges, NudgedStep DEF Psignal
<1>4. ASSUME NEW p \in Proc, NEW in \in BOOLEAN, UNCHANGED <<timer, firing, panicked>>,
             proc' = [proc EXCEPT ![p].inmem = in]
      PROVE  IInv'
  <2> DEFINE b == [proc[p] EXCEPT !.inmem = in]
  <2>1. b.stat = proc[p].stat /\ b.wchan = proc[p].wchan /\ b.woken = proc[p].woken
        /\ Alike(proc[p], b)
    BY <1>1 DEF ProcType, Alike
  <2>2. proc' = [proc EXCEPT ![p] = b]
    BY <1>4
  <2> HIDE DEF b
  <2>3. Nudge(proc[p], b)
    BY <2>1 DEF Nudge, Placed, Alike
  <2>4. /\ proc' \in [Proc -> ProcType] /\ proc'[p] = b
        /\ \A q \in Proc \ {p} : proc'[q] = proc[q]
    BY <1>1, <2>1, <2>2 DEF Alike
  <2> QED BY <1>1, <1>4, <2>3, <2>4, NudgedOne, NudgedStep
<1> QED BY <1>2, <1>3, <1>4 DEF Swapout, Swapin

\* The first state is sound.
LEMMA InitSound == Init => IInv
<1> SUFFICES ASSUME Init PROVE IInv
  OBVIOUS
<1>1. ASSUME NEW q \in Proc PROVE Sound(proc[q]) /\ Timed(q, proc[q], timer, firing)
  BY ProcAssumption DEF Init, Sound, Placed, Outside, InSleep, Timed, ProcType
<1>2. proc \in [Proc -> ProcType]
  BY DEF Init, ProcType
<1> QED BY <1>1, <1>2 DEF Init, IInv

\* Every step keeps it.
LEMMA NextSound == IInv /\ [Next]_vars => IInv'
<1> SUFFICES ASSUME IInv, [Next]_vars PROVE IInv'
  OBVIOUS
<1>1. CASE UNCHANGED vars
  BY <1>1 DEF vars, IInv
<1>2. ASSUME NEW p \in Proc, NEW i \in Event \cup {p}, NEW catch \in BOOLEAN,
             NEW timo \in BOOLEAN, Tsleep(p, i, catch, timo)
      PROVE  IInv'
  BY <1>2, TsleepKeeps
<1>3. ASSUME NEW p \in Proc, Resume(p) \/ UserReturn(p) \/ Softclock(p) \/ Endtsleep(p)
      PROVE  IInv'
  BY <1>3, ResumeKeeps, UserReturnKeeps, SoftclockKeeps, EndtsleepKeeps
<1> QED BY <1>1, <1>2, <1>3, OthersKeep DEF Next

--------------------------------------------------------------------------------
\* The theorems

\* In every reachable state the record of each process is right for the place it is
\* at in tsleep or issignal, and so is its callout (kern_synch.c:298-394).
THEOREM Invariance == Spec => []IInv
BY InitSound, NextSound, PTL DEF Spec

\* The fields of struct proc keep their types.
THEOREM TypeCorrect == Spec => []TypeOK
<1>1. IInv => TypeOK
  BY DEF IInv, TypeOK
<1> QED BY <1>1, Invariance, PTL

\* Who is asleep is on a sleep queue, and who is on a queue is asleep or stopped
\* within tsleep, so that wakeup finds all it should.
THEOREM SleepersOnQueues == Spec => []SleepersWakeable
<1>1. IInv => SleepersWakeable
  <2> SUFFICES ASSUME IInv, NEW p \in Proc
               PROVE  /\ proc[p].stat = "SSLEEP" => proc[p].wchan # NoWchan
                      /\ proc[p].wchan # NoWchan => /\ proc[p].stat \in {"SSLEEP", "SSTOP"}
                                                    /\ proc[p].pc \in {"sleep", "stop1"}
    BY DEF SleepersWakeable
  <2>1. Sound(proc[p])
    BY DEF IInv
  <2> QED BY <2>1 DEF Sound, Placed, Outside, ProcType
<1> QED BY <1>1, Invariance, PTL

\* No endtsleep, queued or about to be called, is left when its sleep has ended, so
\* none can end a later one.
THEOREM CalloutsOwned == Spec => []TimerOwned
<1>1. IInv => TimerOwned
  BY DEF IInv, TimerOwned, Timed, InSleep
<1> QED BY <1>1, Invariance, PTL

\* What tsleep returns is what happened, as long as no caught signal is one that a
\* SIGCONT takes away again.
THEOREM TellsWhy ==
  ASSUME NoTstp
  PROVE  Spec => []ReturnTellsWhy
<1>1. IInv => ReturnTellsWhy
  <2> SUFFICES ASSUME IInv, NEW p \in Proc
               PROVE  /\ proc[p].ret = "0" => proc[p].woken
                      /\ proc[p].ret = "EWOULDBLOCK" => proc[p].timo /\ ~proc[p].woken
    BY DEF ReturnTellsWhy
  <2>1. Sound(proc[p])
    BY DEF IInv
  <2> QED BY <2>1 DEF Sound, Inside, Outside, InSleep, ProcType
<1> QED BY <1>1, Invariance, PTL

\* Where wakeup panics, whatever identifiers share a queue.
OverItself ==
  \E p \in Proc : \E i \in Event \cup {p}, timo \in BOOLEAN :
    /\ Tsleep(p, i, TRUE, timo)
    /\ Stops(proc, p) /\ ParentWakesSwapper(proc, p)
    /\ Lookup[i] = Lookup[Proc0]

\* The test of wakeup at kern_synch.c:525 fails in one place only, for every LOOKUP: in
\* tsleep, when its process is stopped by the look at the signals, wakes the swapper for a
\* parent that is swapped out, and sleeps on an identifier with the queue of &proc0.  The
\* process met there is the one that calls tsleep; no other wakeup ever panics.
THEOREM PanicsOverItself == Spec => [][panicked' # panicked => OverItself]_vars
<1>1. ASSUME NEW i, IInv PROVE ~WakeupPanics(proc, i)
  BY <1>1 DEF WakeupPanics, IInv, Sound, Placed
<1>2. ASSUME NEW p \in Proc, NEW i \in Event \cup {p}, NEW catch \in BOOLEAN,
             NEW timo \in BOOLEAN, IInv, Tsleep(p, i, catch, timo), panicked' # panicked
      PROVE  OverItself
  <2> DEFINE P == [proc EXCEPT ![p].wchan = i, ![p].sintr = catch,
                               ![p].catch = catch, ![p].timo = timo,
                               ![p].ret = "none", ![p].woken = FALSE]
  <2>1. catch /\ Stops(P, p) /\ ParentWakesSwapper(P, p) /\ WakeupPanics(P, Proc0)
    BY <1>2 DEF Tsleep
  <2>2. proc \in [Proc -> ProcType] /\ proc[p] \in ProcType
    BY <1>2 DEF IInv
  <2>3. /\ P[p].wchan = i /\ P[p].siglist = proc[p].siglist
        /\ \A q \in Proc \ {p} : P[q] = proc[q]
    BY <2>2 DEF ProcType
  <2> HIDE DEF P
  <2>4. Stops(proc, p)
    BY <2>1, <2>3 DEF Stops
  <2>5. ParentWakesSwapper(proc, p)
    BY <2>1, <2>3, ProcAssumption DEF ParentWakesSwapper
  <2>6. Lookup[i] = Lookup[Proc0]
    <3>1. PICK q \in Proc : /\ P[q].wchan # NoWchan
                            /\ Lookup[P[q].wchan] = Lookup[Proc0]
                            /\ P[q].stat = "SRUN"
      BY <2>1 DEF WakeupPanics
    <3>2. q = p
      BY <1>2, <2>3, <3>1 DEF IInv, Sound, Placed
    <3> QED BY <2>3, <3>1, <3>2
  <2>7. Tsleep(p, i, TRUE, timo)
    BY <1>2, <2>1
  <2> QED BY <2>4, <2>5, <2>6, <2>7 DEF OverItself
<1>3. IInv /\ [Next]_vars => [panicked' # panicked => OverItself]_vars
  <2> SUFFICES ASSUME IInv, [Next]_vars, panicked' # panicked PROVE OverItself
    OBVIOUS
  <2>1. CASE \E p \in Proc : \E i \in Event \cup {p}, catch, timo \in BOOLEAN :
               Tsleep(p, i, catch, timo)
    BY <1>2, <2>1
  <2>2. ASSUME NEW i \in Event, WakeupEvent(i) PROVE FALSE
    BY <1>1, <2>2 DEF WakeupEvent
  <2>3. ASSUME NEW p \in Proc,
               \/ Resume(p) \/ UserReturn(p) \/ \E s \in Signals : Psignal(p, s)
               \/ Softclock(p) \/ Endtsleep(p) \/ Swapout(p) \/ Swapin(p)
        PROVE  FALSE
    BY <2>3 DEF Resume, UserReturn, Psignal, Softclock, Endtsleep, Swapout, Swapin
  <2>4. CASE UNCHANGED vars
    BY <2>4 DEF vars
  <2> QED BY <2>1, <2>2, <2>3, <2>4 DEF Next
<1> QED BY <1>3, Invariance, PTL DEF Spec

--------------------------------------------------------------------------------
\* The stops

\* Of the processes other than p those that are stopped at P stay so.
Stays(P, p) == \A q \in Proc \ {p} : P[q].stat = "SSTOP" => proc'[q].stat = "SSTOP"

\* None of the ways through tsleep starts another process that is stopped.
LEMMA LastCheckStays ==
  ASSUME NEW P \in [Proc -> ProcType], NEW p \in Proc
  PROVE  /\ \A why : Return(P, p, why) => Stays(P, p)
         /\ LastCheck(P, p) => Stays(P, p)
<1>1. \A why : Return(P, p, why) => Stays(P, p)
  BY DEF Return, Stays
<1>2. ASSUME LastCheck(P, p) PROVE Stays(P, p)
  <2>1. CASE Stops(P, p)
    <3> DEFINE Q == Stop(P, p)
    <3>1. proc' = [Q EXCEPT ![p].pc = "stop2"]
      BY <1>2, <2>1 DEF LastCheck
    <3>2. /\ Q \in [Proc -> ProcType]
          /\ \A q \in Proc : P[q].stat = "SSTOP" => Q[q].stat = "SSTOP"
      BY StopNudges DEF Nudged
    <3> HIDE DEF Q
    <3> QED BY <3>1, <3>2 DEF Stays
  <2>2. CASE ~Stops(P, p)
    BY <1>1, <1>2, <2>2 DEF LastCheck
  <2> QED BY <2>1, <2>2
<1> QED BY <1>1, <1>2

\* Neither does the part of tsleep after the switch.
LEMMA AwakeStays ==
  ASSUME NEW P \in [Proc -> ProcType], NEW p \in Proc, NEW T, NEW sig \in BOOLEAN,
         NEW catch \in BOOLEAN, sig => catch, Awake(P, p, T, sig, catch)
  PROVE  Stays(P, p)
<1> DEFINE b == [P[p] EXCEPT !.sintr = FALSE]
           Q == [P EXCEPT ![p] = b]
<1>1. \/ \E why : Return(P, p, why)
      \/ LastCheck(Q, p)
  BY DEF Awake
<1>2. b \in ProcType
  <2>1. P[p] \in ProcType
    OBVIOUS
  <2> QED BY <2>1 DEF ProcType
<1> HIDE DEF b
<1>3. Q \in [Proc -> ProcType] /\ \A q \in Proc \ {p} : Q[q] = P[q]
  BY <1>2
<1> HIDE DEF Q
<1>4. LastCheck(Q, p) => Stays(Q, p)
  BY <1>3, LastCheckStays
<1> QED BY <1>1, <1>3, <1>4, LastCheckStays DEF Stays

\* Nor the check for a signal before it.
LEMMA FirstCheckStays ==
  ASSUME NEW P \in [Proc -> ProcType], NEW p \in Proc, NEW T, FirstCheck(P, p, T)
  PROVE  Stays(P, p)
<1>1. CASE Stops(P, p)
  <2> DEFINE Q == Stop(P, p)
  <2>1. proc' = [Q EXCEPT ![p].pc = "stop1"]
    BY <1>1 DEF FirstCheck, Caught
  <2>2. /\ Q \in [Proc -> ProcType]
        /\ \A q \in Proc : P[q].stat = "SSTOP" => Q[q].stat = "SSTOP"
    BY StopNudges DEF Nudged
  <2> HIDE DEF Q
  <2> QED BY <2>1, <2>2 DEF Stays
<1>2. CASE Caught(P, p)
  <2> DEFINE Q == Unsleep(P, p)
  <2>1. Awake(Q, p, T, TRUE, TRUE)
    BY <1>2 DEF FirstCheck, Caught
  <2>2. Q \in [Proc -> ProcType] /\ \A q \in Proc \ {p} : Q[q] = P[q]
    BY DEF Unsleep, ProcType
  <2> HIDE DEF Q
  <2> QED BY <2>1, <2>2, AwakeStays DEF Stays
<1>3. CASE ~Stops(P, p) /\ ~Caught(P, p) /\ P[p].wchan = NoWchan
  <2>1. Awake(P, p, T, FALSE, FALSE)
    BY <1>3 DEF FirstCheck
  <2> QED BY <2>1, AwakeStays
<1>4. CASE ~Stops(P, p) /\ ~Caught(P, p) /\ P[p].wchan # NoWchan
  <2>1. proc' = [P EXCEPT ![p].stat = "SSLEEP", ![p].pc = "sleep"]
    BY <1>4 DEF FirstCheck
  <2> QED BY <2>1 DEF Stays
<1> QED BY <1>1, <1>2, <1>3, <1>4

\* Only SIGCONT ends a stop.
THEOREM StopsHold == Spec => StopHolds
<1> DEFINE Started == \E q \in Proc : proc[q].stat = "SSTOP" /\ proc'[q].stat # "SSTOP"
           Held == \A p \in Proc : proc[p].stat = "SSTOP" /\ proc'[p].stat # "SSTOP"
                                     => proc' = PsignalOf(proc, p, "CONT")
<1>1. ASSUME NEW p \in Proc, proc[p].stat = "SRUN", Stays(proc, p) PROVE ~Started
  BY <1>1 DEF Stays
<1>2. ASSUME IInv, NEW p \in Proc, NEW i \in Event \cup {p}, NEW catch \in BOOLEAN,
             NEW timo \in BOOLEAN, Tsleep(p, i, catch, timo)
      PROVE  ~Started
  <2> DEFINE b == [proc[p] EXCEPT !.wchan = i, !.sintr = catch, !.catch = catch,
                                  !.timo = timo, !.ret = "none", !.woken = FALSE]
             P == [proc EXCEPT ![p] = b]
  <2>1. /\ proc \in [Proc -> ProcType] /\ proc[p] \in ProcType
        /\ proc[p].stat = "SRUN" /\ i \in Ident
    BY <1>2 DEF IInv, Tsleep, Current, Ident
  <2>2. \/ proc' = [P EXCEPT ![p].stat = "SSLEEP", ![p].pc = "sleep"]
        \/ proc' = proc
        \/ \E T : FirstCheck(P, p, T)
    BY <1>2, <2>1 DEF Tsleep
  <2>3. b \in ProcType
    BY <2>1 DEF ProcType
  <2> HIDE DEF b
  <2>4. P \in [Proc -> ProcType] /\ \A q \in Proc \ {p} : P[q] = proc[q]
    BY <2>1, <2>3
  <2> HIDE DEF P
  <2>5. Stays(proc, p)
    BY <2>2, <2>4, FirstCheckStays DEF Stays
  <2> QED BY <1>1, <2>1, <2>5
<1>3. ASSUME IInv, NEW p \in Proc, Resume(p) PROVE ~Started
  <2>1. /\ proc \in [Proc -> ProcType] /\ proc[p].stat = "SRUN"
        /\ proc[p].catch \in BOOLEAN
    BY <1>3 DEF IInv, Resume, Current, ProcType
  <2>2. \/ Awake(proc, p, timer, FALSE, proc[p].catch)
        \/ FirstCheck(proc, p, timer) \/ LastCheck(proc, p)
        \/ proc' = Stop(proc, p) \/ proc' = [proc EXCEPT ![p].pc = "out"]
    BY <1>3 DEF Resume
  <2>3. proc' = Stop(proc, p) \/ proc' = [proc EXCEPT ![p].pc = "out"] => Stays(proc, p)
    BY <2>1, StopNudges DEF Stays
  <2>4. Stays(proc, p)
    BY <2>1, <2>2, <2>3, AwakeStays, FirstCheckStays, LastCheckStays
  <2> QED BY <1>1, <2>1, <2>4
<1>4. ASSUME IInv, NEW p \in Proc, UserReturn(p) PROVE ~Started
  <2> DEFINE Q == Stop(proc, p)
  <2>1. proc \in [Proc -> ProcType] /\ proc[p].stat = "SRUN"
    BY <1>4 DEF IInv, UserReturn, Current
  <2>2. \/ proc' = [Q EXCEPT ![p].pc = "ustop"]
        \/ proc' = [proc EXCEPT ![p].siglist = {}]
    BY <1>4 DEF UserReturn
  <2>3. /\ Q \in [Proc -> ProcType]
        /\ \A q \in Proc : proc[q].stat = "SSTOP" => Q[q].stat = "SSTOP"
    BY <2>1, StopNudges DEF Nudged
  <2> HIDE DEF Q
  <2>4. Stays(proc, p)
    BY <2>1, <2>2, <2>3 DEF Stays
  <2> QED BY <1>1, <2>1, <2>4
<1>5. ASSUME IInv, NEW i \in Event, WakeupEvent(i) PROVE ~Started
  <2>1. i # NoWchan /\ proc \in [Proc -> ProcType]
    BY <1>5, IdentAssumption DEF Ident, IInv
  <2> QED BY <1>5, <2>1, WakeupNudges DEF WakeupEvent
<1>6. ASSUME IInv, NEW p \in Proc, NEW s \in Signals, Psignal(p, s) PROVE Held
  <2>1. proc \in [Proc -> ProcType] /\ proc' = PsignalOf(proc, p, s)
    BY <1>6 DEF IInv, Psignal
  <2>2. CASE s # "CONT"
    BY <2>1, <2>2, PsignalNudges
  <2>3. CASE s = "CONT"
    <3>1. \A q \in Proc \ {p} : proc'[q] = proc[q]
      BY <2>1, <2>3 DEF PsignalOf, Continue, Setrunnable
    <3> QED BY <2>1, <2>3, <3>1
  <2> QED BY <2>2, <2>3
<1>7. ASSUME IInv, NEW p \in Proc, Endtsleep(p) PROVE ~Started
  <2>1. proc \in [Proc -> ProcType] /\ proc' = TimedOut(proc, p)
    BY <1>7 DEF IInv, Endtsleep
  <2>2. \A q \in Proc \ {p} : proc'[q] = proc[q]
    BY <2>1 DEF TimedOut, Setrunnable, Unsleep
  <2>3. proc[p].stat = "SSTOP" => proc'[p].stat = "SSTOP"
    BY <2>1 DEF TimedOut, Unsleep, ProcType
  <2> QED BY <2>2, <2>3
<1>8. ASSUME IInv, NEW p \in Proc, Softclock(p) \/ Swapout(p) \/ Swapin(p) PROVE ~Started
  <2>1. \/ proc' = proc
        \/ \E in \in BOOLEAN : proc' = [proc EXCEPT ![p] = [proc[p] EXCEPT !.inmem = in]]
    BY <1>8 DEF Softclock, Swapout, Swapin
  <2>2. proc \in [Proc -> ProcType] /\ proc[p] \in ProcType
    BY <1>8 DEF IInv
  <2>3. \A in : [proc[p] EXCEPT !.inmem = in].stat = proc[p].stat
    BY <2>2 DEF ProcType
  <2> QED BY <2>1, <2>2, <2>3
<1>9. IInv /\ [Next]_vars => [Held]_vars
  <2> SUFFICES ASSUME IInv, Next PROVE Held
    OBVIOUS
  <2>1. ~Started => Held
    OBVIOUS
  <2> HIDE DEF Started, Held
  <2> QED BY <1>2, <1>3, <1>4, <1>5, <1>6, <1>7, <1>8, <2>1 DEF Next
<1> QED BY <1>9, Invariance, PTL DEF Spec, StopHolds

================================================================================
