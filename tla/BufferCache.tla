------------------------------ MODULE BufferCache ------------------------------
(***************************************************************************)
(* The buffer cache of kern/vfs_bio.c for the blocks of one vnode: getblk, *)
(* getnewbuf, bread with read-ahead (breadn), bwrite, bdwrite, bawrite,    *)
(* brelse, biowait and biodone, and vflushbuf of kern/vfs_subr.c.          *)
(*                                                                         *)
(* A process in the kernel runs until it sleeps (cpu); biodone comes as an *)
(* interrupt at any time, but not inside a section at splbio.  An action   *)
(* is what a process does up to the end of such a section or its sleep.    *)
(* All buffers have the size of a block (allocbuf moves no memory), and    *)
(* B_LOCKED, B_CALL and buffers without a block (geteblk) are left out.    *)
(***************************************************************************)
EXTENDS Naturals, Sequences, SequencesExt, FiniteSets

CONSTANTS Proc,           \* the processes
          Buf,            \* the buffers
          Block,          \* the blocks of the vnode
          Value,          \* what a block can contain
          NoProc, NoBuf, NoBlock, NoWait,
          NeedBuffer,     \* the identifier &needbuffer
          NumOutput,      \* the identifier &vp->v_numoutput
          Ahead,          \* the processes that read sequentially, with read-ahead
          Flushing,       \* whether vflushbuf is called
          IoErrors        \* whether transfers fail

ASSUME NamesAssumption ==
    /\ NoProc \notin Proc /\ NoBuf \notin Buf /\ NoBlock \notin Block
    /\ {NoWait, NeedBuffer, NumOutput} \cap Buf = {}
    /\ NoWait \notin {NeedBuffer, NumOutput} /\ NeedBuffer # NumOutput

ASSUME KindsAssumption ==
    IsFiniteSet(Buf) /\ Ahead \subseteq Proc /\ {Flushing, IoErrors} \subseteq BOOLEAN

VARIABLES cache,          \* the buffers and who sleeps for them, see below
          disk,           \* what the disk holds
          pc,             \* where each process is in its call
          call,           \* what getblk is called for: its use, the block, and
                          \*   the block to read ahead next
          bp,             \* the buffer it holds
          cpu,            \* the process that runs in the kernel, or NoProc
          owed,           \* history: the writes a flush must have seen on disk
          written         \* history: what was last written to each block

vars == <<cache, disk, pc, call, bp, cpu, owed, written>>

(***************************************************************************)
(* cache.flags[x]: the flags of buffer x.  cache.hash[x]: the block that x *)
(* is hashed under and belongs to (b_vp), NoBlock if invalid.  cache.lru,  *)
(* cache.age: BQ_LRU and BQ_AGE.  cache.io: the buffers handed to the      *)
(* driver.  cache.wait[p]: the identifier p sleeps on.                     *)
(***************************************************************************)
Flag == {"BUSY", "WANTED", "DONE", "DELWRI", "ASYNC", "AGE", "READ", "ERROR", "VFLUSH"}

NoCall == [use |-> "none", block |-> NoBlock, next |-> NoBlock]

\* bufinit: all buffers are invalid and on the AGE list.
Init ==
    /\ \E v \in Value, s \in SetToSeqs(Buf) :
          /\ cache = [flags |-> [x \in Buf |-> {}],
                      hash  |-> [x \in Buf |-> NoBlock],
                      data  |-> [x \in Buf |-> v],
                      lru |-> <<>>, age |-> s, io |-> {},
                      needbuffer |-> FALSE, wait |-> [p \in Proc |-> NoWait]]
          /\ disk = [b \in Block |-> v]
          /\ written = disk
    /\ pc = [p \in Proc |-> "user"]
    /\ call = [p \in Proc |-> NoCall]
    /\ bp = [p \in Proc |-> NoBuf]
    /\ cpu = NoProc
    /\ owed = [p \in Proc |-> {}]
--------------------------------------------------------------------------------
\* Parts of the calls, each from one state of the cache to the next
Has(c, x, f)     == f \in c.flags[x]
Off(s, x)        == IF x \in ToSet(s) THEN RemoveAt(s, CHOOSE i \in DOMAIN s : s[i] = x)
                    ELSE s
Add(c, x, f)     == [c EXCEPT !.flags[x] = @ \cup f]
Clear(c, x, f)   == [c EXCEPT !.flags[x] = @ \ f]
Bremfree(c, x)   == [c EXCEPT !.lru = Off(@, x), !.age = Off(@, x)]
Wakeup(c, ident) == [c EXCEPT !.wait = [p \in Proc |-> IF @[p] = ident THEN NoWait
                                                       ELSE @[p]]]
Tsleep(c, p, ident) == [c EXCEPT !.wait[p] = ident]

\* A mistake: it is one or the other.
BadWakeWaiters(c, x) ==
    IF Has(c, x, "WANTED") THEN Wakeup(Clear(c, x, {"WANTED"}), x)
    ELSE IF c.needbuffer THEN [Wakeup(c, NeedBuffer) EXCEPT !.needbuffer = FALSE]
    ELSE c

\* The first lines of brelse: whoever waits for any buffer or for this one
WakeWaiters(c, x) ==
    LET any  == IF c.needbuffer THEN [Wakeup(c, NeedBuffer) EXCEPT !.needbuffer = FALSE]
                ELSE c
    IN  IF Has(any, x, "WANTED") THEN Wakeup(Clear(any, x, {"WANTED"}), x) ELSE any

\* An invalid buffer loses its block and goes to the head of the AGE list.
Queue(c, x) ==
    IF Has(c, x, "ERROR")
    THEN [Clear(c, x, {"DELWRI"}) EXCEPT !.hash[x] = NoBlock, !.age = <<x>> \o @]
    ELSE IF Has(c, x, "AGE") THEN [c EXCEPT !.age = Append(@, x)]
    ELSE [c EXCEPT !.lru = Append(@, x)]

\* A mistake: a buffer that vflushbuf wrote is put on its list once more.
BadRequeue(c, x) == Queue(Clear(c, x, {"VFLUSH"}), x)

\* A buffer that vflushbuf wrote is on its list still, and stays there unless it
\* is invalid or was aged out.
Requeue(c, x) ==
    IF ~Has(c, x, "VFLUSH") THEN Queue(c, x)
    ELSE IF Has(c, x, "ERROR") \/ Has(c, x, "AGE")
         THEN Queue(Bremfree(Clear(c, x, {"VFLUSH"}), x), x)
         ELSE Clear(c, x, {"VFLUSH"})

Brelse(c, x) ==
    Clear(Requeue(WakeWaiters(c, x), x), x, {"AGE", "ASYNC", "BUSY"})

\* bwrite up to VOP_STRATEGY, which hands the buffer to the driver
StartWrite(c, x) ==
    [Clear(c, x, {"READ", "DONE", "ERROR", "DELWRI"}) EXCEPT !.io = @ \cup {x}]
StartRead(c, x, async) == [Add(c, x, {"READ"} \cup async) EXCEPT !.io = @ \cup {x}]

Outputs(c) == {x \in c.io : ~Has(c, x, "READ")}
Dirty(c)   == {x \in Buf : Has(c, x, "DELWRI")}

\* incore: the buffers of a block
Incore(c, b) == {x \in Buf : c.hash[x] = b}

\* getnewbuf's choice: the AGE list before the LRU list
FreeList(c) == c.age \o c.lru
--------------------------------------------------------------------------------
Runs(p) == cpu \in {p, NoProc} /\ cache.wait[p] = NoWait

\* p goes on at l, with the processor or without it.
Goto(p, l)  == pc' = [pc EXCEPT ![p] = l] /\ cpu' = p
Leave(p, l) == pc' = [pc EXCEPT ![p] = l] /\ cpu' = NoProc
Sleep(p, l, c, ident) == cache' = Tsleep(c, p, ident) /\ Leave(p, l)

\* getblk returns x to bio_doread for the first block or the one read ahead, or
\* to a caller that is going to write all of it.
Valid(c, x) == Has(c, x, "DONE") \/ Has(c, x, "DELWRI")
Got(p, c, x) ==
    CASE call[p].use = "read" ->
            /\ cache' = IF Valid(c, x) THEN c ELSE StartRead(c, x, {})
            /\ bp' = [bp EXCEPT ![p] = x]
            /\ call' = [call EXCEPT ![p] = [NoCall EXCEPT !.next = call[p].next]]
            /\ Goto(p, "breadn")
      [] call[p].use = "ahead" ->
            /\ cache' = IF Valid(c, x) THEN Brelse(c, x) ELSE StartRead(c, x, {"ASYNC"})
            /\ call' = [call EXCEPT ![p] = NoCall]
            /\ Goto(p, "biowait")
            /\ UNCHANGED bp
      [] call[p].use = "write" ->
            /\ cache' = c
            /\ bp' = [bp EXCEPT ![p] = x]
            /\ call' = [call EXCEPT ![p] = NoCall]
            /\ Leave(p, "hold")

\* A mistake: a process that waited for any buffer does not look again whether the
\* block has come into the cache.
BadNeedAnyBuffer(p) ==
    /\ Sleep(p, "getnewbuf", [cache EXCEPT !.needbuffer = TRUE], NeedBuffer)
    /\ UNCHANGED <<call, bp>>

\* getnewbuf without a free buffer: getblk starts anew after the sleep.
NeedAnyBuffer(p) ==
    /\ Sleep(p, "getblk", [cache EXCEPT !.needbuffer = TRUE], NeedBuffer)
    /\ UNCHANGED <<call, bp>>

\* The buffer belongs to the new block from now on.
Reuse(p, c, x) ==
    Got(p, [c EXCEPT !.flags[x] = {"BUSY"}, !.hash[x] = call[p].block], x)

\* A mistake: the buffer is taken before its write is over.
BadWriteOut(p, c, x) == Reuse(p, StartWrite(c, x), x)

\* A delayed write is started, and the buffers are looked at anew; VOP_STRATEGY
\* does not sleep.
WriteOut(p, c, x) ==
    /\ cache' = StartWrite(Add(c, x, {"BUSY", "AGE", "ASYNC"}), x)
    /\ Goto(p, "getnewbuf")
    /\ UNCHANGED <<call, bp>>

\* A buffer that vflushbuf is writing will be aged out.
AgeOut(p, c, x) ==
    /\ cache' = Add(Clear(c, x, {"VFLUSH"}), x, {"AGE"})
    /\ Goto(p, "getnewbuf")
    /\ UNCHANGED <<call, bp>>

\* getnewbuf from its label start
TakeBuffer(p) ==
    \/ FreeList(cache) = <<>> /\ NeedAnyBuffer(p)
    \/ /\ FreeList(cache) # <<>>
       /\ LET x == Head(FreeList(cache))
              c == Bremfree(cache, x)
          IN  IF Has(c, x, "VFLUSH") THEN AgeOut(p, c, x)
              ELSE IF Has(c, x, "DELWRI") THEN WriteOut(p, c, x)
              ELSE Reuse(p, c, x)
--------------------------------------------------------------------------------
\* breadn of a block, with or without another one to read ahead, and getblk by a
\* caller that writes the block without reading it.  Before the search it makes no
\* difference who has the processor.
Bread(p, b, next) ==
    /\ cpu = NoProc /\ pc[p] = "user"
    /\ call' = [call EXCEPT ![p] = [use |-> "read", block |-> b, next |-> next]]
    /\ Leave(p, "getblk")
    /\ UNCHANGED <<cache, disk, bp, owed, written>>

BeginWrite(p, b) ==
    /\ cpu = NoProc /\ pc[p] = "user"
    /\ call' = [call EXCEPT ![p] = [use |-> "write", block |-> b, next |-> NoBlock]]
    /\ Leave(p, "getblk")
    /\ UNCHANGED <<cache, disk, bp, owed, written>>

Getblk(p) ==
    /\ Runs(p) /\ pc[p] = "getblk"
    /\ LET found == Incore(cache, call[p].block)
       IN  \/ \E x \in found :
                 /\ Has(cache, x, "BUSY")
                 /\ Sleep(p, "getblk", Add(cache, x, {"WANTED"}), x)
                 /\ UNCHANGED <<call, bp>>
           \/ \E x \in found :
                 /\ ~Has(cache, x, "BUSY")
                 /\ Got(p, Bremfree(Add(cache, x, {"BUSY"}), x), x)
           \/ found = {} /\ TakeBuffer(p)
    /\ UNCHANGED <<disk, owed, written>>

Getnewbuf(p) ==
    /\ Runs(p) /\ pc[p] = "getnewbuf"
    /\ TakeBuffer(p)
    /\ UNCHANGED <<disk, owed, written>>

\* The block to read ahead is left alone if it is in the cache.
Breadn(p) ==
    /\ Runs(p) /\ pc[p] = "breadn"
    /\ LET b == call[p].next
       IN  IF b = NoBlock \/ Incore(cache, b) # {}
           THEN Goto(p, "biowait") /\ call' = [call EXCEPT ![p] = NoCall]
           ELSE /\ call' = [call EXCEPT ![p] = [use |-> "ahead", block |-> b,
                                                next |-> NoBlock]]
                /\ Goto(p, "getblk")
    /\ UNCHANGED <<cache, disk, bp, owed, written>>

\* A buffer that could not be read is released by the caller of bread.
Biowait(p) ==
    /\ Runs(p) /\ pc[p] \in {"biowait", "bwrite"}
    /\ LET x == bp[p]
       IN  IF ~Has(cache, x, "DONE")
           THEN Sleep(p, pc[p], cache, x) /\ UNCHANGED bp
           ELSE IF pc[p] = "bwrite" \/ Has(cache, x, "ERROR")
           THEN /\ cache' = Brelse(cache, x)
                /\ bp' = [bp EXCEPT ![p] = NoBuf]
                /\ Leave(p, "user")
           ELSE Leave(p, "hold") /\ UNCHANGED <<cache, bp>>
    /\ UNCHANGED <<disk, call, owed, written>>

\* A mistake: the buffer is kept after it was released.
BadLetGo(p, l) ==
    /\ IF l = "user" THEN Leave(p, l) ELSE Goto(p, l)
    /\ UNCHANGED <<disk, call, bp, owed>>

\* The holder of a buffer lets it go: as it is, or with new contents that are
\* written later, now, or now and waited for.
LetGo(p, l) ==
    /\ bp' = [bp EXCEPT ![p] = IF l = "user" THEN NoBuf ELSE @]
    /\ IF l = "user" THEN Leave(p, l) ELSE Goto(p, l)
    /\ UNCHANGED <<disk, call, owed>>

Holds(p) == cpu = NoProc /\ pc[p] = "hold"
Filled(p, v) == [cache EXCEPT !.data[bp[p]] = v]
Write(p, v)  == written' = [written EXCEPT ![cache.hash[bp[p]]] = v]

Release(p) ==
    /\ Holds(p)
    /\ cache' = Brelse(cache, bp[p])
    /\ LetGo(p, "user")
    /\ UNCHANGED written

Bdwrite(p, v) ==
    /\ Holds(p) /\ Write(p, v)
    /\ cache' = Brelse(Add(Filled(p, v), bp[p], {"DELWRI", "DONE"}), bp[p])
    /\ LetGo(p, "user")

Bawrite(p, v) ==
    /\ Holds(p) /\ Write(p, v)
    /\ cache' = StartWrite(Add(Filled(p, v), bp[p], {"ASYNC"}), bp[p])
    /\ LetGo(p, "user")

Bwrite(p, v) ==
    /\ Holds(p) /\ Write(p, v)
    /\ cache' = StartWrite(Filled(p, v), bp[p])
    /\ LetGo(p, "bwrite")

\* biowait sleeps without B_WANTED.
WakeOwner(c, x) == Wakeup(Clear(c, x, {"WANTED"}), x)

\* The interrupt of the driver: a transfer is over, with or without an error.
Biodone(x) ==
    /\ x \in cache.io
    /\ UNCHANGED <<pc, call, bp, cpu, written>>
    /\ \E error \in IF IoErrors THEN {{}, {"ERROR"}} ELSE {{}} :
          LET reads == Has(cache, x, "READ")
              b     == cache.hash[x]
              over  == [Add(cache, x, {"DONE"} \cup error) EXCEPT !.io = @ \ {x},
                            !.data[x] = IF reads /\ error = {} THEN disk[b] ELSE @]
              told  == IF ~reads /\ Outputs(over) = {} THEN Wakeup(over, NumOutput)
                       ELSE over
          IN  /\ \E c \in {told} :
                    cache' = IF Has(c, x, "ASYNC") THEN Brelse(c, x) ELSE WakeOwner(c, x)
              /\ disk' = IF reads \/ error # {} THEN disk
                         ELSE [disk EXCEPT ![b] = cache.data[x]]
              /\ owed' = IF reads THEN owed ELSE [p \in Proc |-> owed[p] \ {b}]
--------------------------------------------------------------------------------
\* vflushbuf(vp, 1), as fsync calls it
Flush(p) ==
    /\ Flushing
    /\ cpu = NoProc /\ pc[p] = "user"
    /\ owed' = [owed EXCEPT ![p] = {cache.hash[x] : x \in Dirty(cache) \cup Outputs(cache)}]
    /\ Goto(p, "vflushbuf")
    /\ UNCHANGED <<cache, disk, call, bp, written>>

\* Dirty buffers are written one after the other; those in use are passed over.
FlushNext(p) ==
    /\ Runs(p) /\ pc[p] = "vflushbuf"
    /\ LET idle == {x \in Dirty(cache) : ~Has(cache, x, "BUSY")}
       IN  \/ \E x \in idle :
                 /\ cache' = StartWrite(Add(cache, x, {"BUSY", "VFLUSH", "ASYNC"}), x)
                 /\ Goto(p, "vflushbuf")
           \/ idle = {} /\ Goto(p, "vflushwait") /\ UNCHANGED cache
    /\ UNCHANGED <<disk, call, bp, owed, written>>

\* A mistake: buffers that were in use or made dirty during the sleep are forgotten.
BadFlushWait(p) ==
    /\ Runs(p) /\ pc[p] = "vflushwait"
    /\ IF Outputs(cache) # {} THEN Sleep(p, "vflushwait", cache, NumOutput)
       ELSE Leave(p, "user") /\ UNCHANGED cache
    /\ UNCHANGED <<disk, call, bp, owed, written>>

\* While output is in progress it sleeps; then it begins again if a buffer is dirty.
FlushWait(p) ==
    /\ Runs(p) /\ pc[p] = "vflushwait"
    /\ IF Outputs(cache) # {} THEN Sleep(p, "vflushwait", cache, NumOutput)
       ELSE /\ IF Dirty(cache) # {} THEN Goto(p, "vflushbuf") ELSE Leave(p, "user")
            /\ UNCHANGED cache
    /\ UNCHANGED <<disk, call, bp, owed, written>>
--------------------------------------------------------------------------------
Run(p) == \/ Getblk(p) \/ Getnewbuf(p) \/ Breadn(p) \/ Biowait(p)
          \/ FlushNext(p) \/ FlushWait(p)

NewCall(p) == \/ \E b \in Block : Bread(p, b, NoBlock)
              \/ p \in Ahead /\ \E b \in Block : \E n \in Block \ {b} : Bread(p, b, n)
              \/ \E b \in Block : BeginWrite(p, b)
              \/ Flush(p)

Finish(p) == \/ Release(p)
             \/ \E v \in Value : Bdwrite(p, v) \/ Bawrite(p, v) \/ Bwrite(p, v)

Next == \/ \E p \in Proc : NewCall(p) \/ Run(p) \/ Finish(p)
        \/ \E x \in Buf : Biodone(x)

Spec == Init /\ [][Next]_vars

\* The kernel runs who can run, the driver ends each transfer, and who holds a
\* buffer lets go of it.
FairSpec == /\ Spec
            /\ \A p \in Proc : WF_vars(Run(p) \/ Finish(p))
            /\ \A x \in Buf : WF_vars(Biodone(x))
--------------------------------------------------------------------------------
Cache == [flags : [Buf -> SUBSET Flag],
          hash : [Buf -> Block \cup {NoBlock}],
          data : [Buf -> Value],
          lru : Seq(Buf), age : Seq(Buf), io : SUBSET Buf,
          needbuffer : BOOLEAN,
          wait : [Proc -> Buf \cup {NoWait, NeedBuffer, NumOutput}]]

\* The fields of buffers and the state of processes (sys/buf.h); what getblk is
\* called for and the buffer a process has are those of the place it is at.
TypeOK ==
    /\ cache \in Cache
    /\ disk \in [Block -> Value] /\ written \in [Block -> Value]
    /\ pc \in [Proc -> {"user", "getblk", "getnewbuf", "breadn", "biowait", "hold",
                        "bwrite", "vflushbuf", "vflushwait"}]
    /\ call \in [Proc -> [use : {"none", "read", "ahead", "write"},
                          block : Block \cup {NoBlock}, next : Block \cup {NoBlock}]]
    /\ bp \in [Proc -> Buf \cup {NoBuf}]
    /\ cpu \in Proc \cup {NoProc}
    /\ owed \in [Proc -> SUBSET Block]
    /\ \A p \in Proc :
          LET searches == pc[p] \in {"getblk", "getnewbuf"}
          IN  /\ searches <=> call[p].use # "none"
              /\ searches => call[p].block \in Block
              /\ bp[p] # NoBuf <=>
                    \/ pc[p] \in {"breadn", "biowait", "hold", "bwrite"}
                    \/ searches /\ call[p].use = "ahead"

\* The free lists have each buffer that nobody has, once, and those that vflushbuf
\* writes (brelse's comment: "It is still on the LRU queue").
Listed == {x \in Buf : ~Has(cache, x, "BUSY") \/ Has(cache, x, "VFLUSH")}
FreeLists ==
    /\ ToSet(cache.age) \cup ToSet(cache.lru) = Listed
    /\ ToSet(cache.age) \cap ToSet(cache.lru) = {}
    /\ IsInjective(cache.age) /\ IsInjective(cache.lru)

\* The driver has busy buffers of a block that are not done: biodone does not panic.
Driven ==
    \A x \in cache.io :
        Has(cache, x, "BUSY") /\ ~Valid(cache, x) /\ cache.hash[x] # NoBlock

\* The buffers of asynchronous transfers, which nobody waits for
Async == {x \in cache.io : Has(cache, x, "ASYNC")}

\* A busy buffer belongs to one process, or to the driver and no process.
Owned ==
    /\ \A x \in Buf : Has(cache, x, "BUSY") <=> x \in Async \/ \E p \in Proc : bp[p] = x
    /\ \A p \in Proc : bp[p] \notin Async
    /\ \A p, q \in Proc : bp[p] = bp[q] /\ p # q => bp[p] = NoBuf
    /\ \A x \in Buf : Has(cache, x, "VFLUSH") => x \in Async
    /\ \A p \in Proc : pc[p] = "hold" => bp[p] \notin cache.io

\* Every buffer is in one place, free, with a process or with the driver, whoever
\* releases it, process or interrupt: bremfree never loses a tail, no buffer is given
\* to two, and none is lost.  TLC has it for transfers that succeed; that it holds for
\* those that fail (vfs_bio.c:455), too, is a theorem.
OnePlace == FreeLists /\ Driven /\ Owned

\* A block has one buffer at most (getblk returns "a block ... if it is found in
\* the block cache"): two would each have a content of their own.
OneBuffer ==
    \A x, y \in Buf : x # y => cache.hash[x] = NoBlock \/ cache.hash[x] # cache.hash[y]

\* Who sleeps will be woken: for a buffer that is busy and wanted, for a transfer
\* that is not over, for any buffer while all are in use, for output in progress.
\* With transfers that fail this is a theorem, and the runs have SleeperWoken.
NoMissedWakeup ==
    \A p \in Proc :
        /\ \A x \in Buf : cache.wait[p] = x =>
              \/ pc[p] = "getblk" /\ {"BUSY", "WANTED"} \subseteq cache.flags[x]
              \/ pc[p] \in {"biowait", "bwrite"} /\ x = bp[p] /\ x \in cache.io
        /\ cache.wait[p] = NeedBuffer => cache.needbuffer /\ FreeList(cache) = <<>>
        /\ cache.wait[p] = NumOutput => Outputs(cache) # {}

\* When vflushbuf returns, all that was written before its call is on the disk,
\* the writes in progress then and those that getnewbuf started included.
FlushedAll == \A p \in Proc : pc[p] \notin {"vflushbuf", "vflushwait"} => owed[p] = {}

\* While transfers succeed, the cache is a memory: what a buffer contains once bread
\* may return it, or what a block without such a buffer has on the disk, is what was
\* last written, and only that is written to the disk.
Content(b) ==
    LET on == {x \in Incore(cache, b) : Valid(cache, x) \/ x \in Outputs(cache)}
    IN  IF on = {} THEN disk[b] ELSE cache.data[CHOOSE x \in on : TRUE]
Store == INSTANCE BlockStore WITH content <- [b \in Block |-> Content(b)]
Coherent == Store!Spec

\* Who sleeps is woken in the end: transfers end, and the processes that hold
\* buffers do not wait for one another's, neither in getblk for the block to read
\* ahead while they hold the first nor in getnewbuf for any buffer.
SleeperWoken ==
    \A p \in Proc : cache.wait[p] # NoWait ~> cache.wait[p] = NoWait
===============================================================================
