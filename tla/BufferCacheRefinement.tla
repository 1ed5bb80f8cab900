------------------------- MODULE BufferCacheRefinement -------------------------
(***************************************************************************)
(* The buffer cache implements BlockStore while no transfer fails, for all *)
(* sets of processes, buffers, blocks and contents.                        *)
(*                                                                         *)
(* Shown is the content of the blocks, as BufferCache says it.  Almost all *)
(* steps keep what each buffer shows of its block (Keeps).  Those that do  *)
(* not are the reuse of a buffer, the writes of the holder, and biodone.   *)
(* A buffer can be given to another block only because what it shows is on *)
(* the disk, unless it is marked as dirty: Fresh.                          *)
(***************************************************************************)
EXTENDS BufferCacheProofs

\* Buffer y shows what its block contains: it is valid, or is being written.
Shows(c, y) == \/ "DONE" \in c.flags[y] \/ "DELWRI" \in c.flags[y]
               \/ y \in c.io /\ "READ" \notin c.flags[y]

\* Buffer y has what is on the disk, or should have.
Clean(c, y) == "DONE" \in c.flags[y] /\ "DELWRI" \notin c.flags[y]

\* No transfer has failed, and a clean buffer is as the disk is.
Fresh(c, k) ==
    \A y \in Buf : /\ "ERROR" \notin c.flags[y]
                   /\ Clean(c, y) /\ c.hash[y] # NoBlock => c.data[y] = k[c.hash[y]]

\* What the blocks contain, with the cache c and the disk k
On(c, b) == {y \in Buf : c.hash[y] = b /\ Shows(c, y)}
One(S)   == CHOOSE y \in S : TRUE
Shown(c, k) ==
    [b \in Block |-> IF On(c, b) = {} THEN k[b] ELSE c.data[One(On(c, b))]]

\* d has the buffers of c, and each of them shows what it showed.
Keeps(c, d) ==
    /\ d \in Cache /\ d.hash = c.hash /\ d.data = c.data
    /\ \A y \in Buf : /\ Shows(d, y) <=> Shows(c, y)
                      /\ Clean(d, y) => Clean(c, y)
                      /\ "ERROR" \notin d.flags[y]

\* It is what BufferCache calls the content.
LEMMA ContentShown ==
  cache \in Cache => [b \in Block |-> Content(b)] = Shown(cache, disk)
<1> SUFFICES ASSUME cache \in Cache
             PROVE  [b \in Block |-> Content(b)] = Shown(cache, disk)
  OBVIOUS
<1> DEFINE on(b) == {x \in Incore(cache, b) : Valid(cache, x) \/ x \in Outputs(cache)}
<1>1. ASSUME NEW b \in Block, NEW y
      PROVE  y \in on(b) <=> y \in On(cache, b)
  BY DEF Incore, Valid, Outputs, Has, On, Shows, Cache
<1>2. ASSUME NEW b \in Block
      PROVE  Content(b) = IF On(cache, b) = {} THEN disk[b]
                          ELSE cache.data[One(On(cache, b))]
  <2>1. Content(b) = IF on(b) = {} THEN disk[b] ELSE cache.data[One(on(b))]
    BY Zenon DEF Content, One
  <2> HIDE DEF on
  <2>2. on(b) = On(cache, b)
    BY <1>1
  <2> QED BY <2>1, <2>2
<1> HIDE DEF on
<1> QED BY <1>2, Zenon DEF Shown

\* Then the blocks contain what they did,
LEMMA KeepsShown ==
  ASSUME NEW c, NEW d, NEW k, Fresh(c, k), Keeps(c, d)
  PROVE  Fresh(d, k) /\ Shown(d, k) = Shown(c, k)
<1>1. ASSUME NEW b \in Block PROVE On(d, b) = On(c, b)
  <2>1. \A y : y \in On(d, b) <=> y \in On(c, b)
    BY DEF On, Keeps
  <2> QED BY <2>1
<1>2. d.data = c.data
  BY DEF Keeps
<1>3. Shown(d, k) = Shown(c, k)
  <2>1. ASSUME NEW b \in Block
        PROVE  (IF On(d, b) = {} THEN k[b] ELSE d.data[One(On(d, b))])
                = IF On(c, b) = {} THEN k[b] ELSE c.data[One(On(c, b))]
    BY <1>1, <1>2
  <2> QED BY <2>1 DEF Shown
<1>4. Fresh(d, k)
  BY DEF Fresh, Keeps
<1> QED BY <1>3, <1>4

\* over any number of such changes.
LEMMA KeepsTrans ==
  ASSUME NEW c, NEW d, NEW e, Keeps(c, d), Keeps(d, e)
  PROVE  Keeps(c, e)
BY DEF Keeps

\* The flags of one buffer may change, but for those that say what it contains,
LEMMA KeepsFlags ==
  ASSUME NEW c \in Cache, NEW k, Fresh(c, k), NEW x \in Buf, NEW d \in Cache, NEW g,
         d.flags = [c.flags EXCEPT ![x] = g], d.hash = c.hash, d.data = c.data,
         d.io = c.io, "ERROR" \notin g,
         \A f \in {"DONE", "DELWRI", "READ"} : f \in g <=> f \in c.flags[x]
  PROVE  Keeps(c, d)
<1>1. d.flags[x] = g /\ \A y \in Buf \ {x} : d.flags[y] = c.flags[y]
  BY DEF Cache
<1>2. ASSUME NEW y \in Buf
      PROVE  /\ Shows(d, y) <=> Shows(c, y)
             /\ Clean(d, y) => Clean(c, y)
             /\ "ERROR" \notin d.flags[y]
  <2>1. CASE y = x
    BY <1>1, <2>1 DEF Shows, Clean
  <2>2. CASE y # x
    BY <1>1, <2>2 DEF Shows, Clean, Fresh
  <2> QED BY <2>1, <2>2
<1> QED BY <1>2 DEF Keeps

\* and so may all that has nothing to do with the contents.
LEMMA KeepsRest ==
  ASSUME NEW c \in Cache, NEW k, Fresh(c, k), NEW d \in Cache,
         d.flags = c.flags, d.hash = c.hash, d.data = c.data, d.io = c.io
  PROVE  Keeps(c, d)
BY DEF Keeps, Fresh, Shows, Clean

\* brelse of a buffer in which no error is leaves its block to it.
LEMMA BrelseClean ==
  ASSUME NEW c \in Cache, NEW x \in Buf, NEW S, GoodLists(c, S),
         x \in S <=> "VFLUSH" \in c.flags[x], "ERROR" \notin c.flags[x]
  PROVE  LET d == Brelse(c, x)
         IN  /\ d \in Cache /\ d.flags = [c.flags EXCEPT ![x] = Freed(c.flags[x])]
             /\ d.hash = c.hash /\ d.data = c.data /\ d.io = c.io
<1>1. c.hash = [c.hash EXCEPT ![x] = c.hash[x]]
  BY DEF Cache
<1> QED BY <1>1, BrelseFacts

\* It shows what it did.
LEMMA KeepsBrelse ==
  ASSUME NEW c \in Cache, NEW k, Fresh(c, k), NEW x \in Buf, NEW S, GoodLists(c, S),
         x \in S <=> "VFLUSH" \in c.flags[x]
  PROVE  Keeps(c, Brelse(c, x))
<1> DEFINE d == Brelse(c, x)
<1>1. "ERROR" \notin c.flags[x]
  BY DEF Fresh
<1>2. /\ d \in Cache /\ d.flags = [c.flags EXCEPT ![x] = Freed(c.flags[x])]
      /\ d.hash = c.hash /\ d.data = c.data /\ d.io = c.io
  BY <1>1, BrelseClean
<1>3. /\ "ERROR" \notin Freed(c.flags[x])
      /\ \A f \in {"DONE", "DELWRI", "READ"} : f \in Freed(c.flags[x]) <=> f \in c.flags[x]
  BY <1>1 DEF Freed
<1> HIDE DEF d
<1>4. Keeps(c, d)
  BY <1>2, <1>3, KeepsFlags
<1> QED BY <1>4 DEF d

\* A dirty buffer goes to the driver.
LEMMA KeepsStartWrite ==
  ASSUME NEW c \in Cache, NEW k, Fresh(c, k), NEW x \in Buf, Shows(c, x)
  PROVE  Keeps(c, StartWrite(c, x))
<1> DEFINE d == StartWrite(c, x)
<1>1. /\ d \in Cache
      /\ d.flags = [c.flags EXCEPT ![x] = c.flags[x] \ {"READ", "DONE", "ERROR", "DELWRI"}]
      /\ d.io = c.io \cup {x} /\ d.hash = c.hash /\ d.data = c.data
  BY StartWriteFacts
<1> HIDE DEF d
<1>2. /\ d.flags[x] = c.flags[x] \ {"READ", "DONE", "ERROR", "DELWRI"}
      /\ \A y \in Buf \ {x} : d.flags[y] = c.flags[y] /\ (y \in d.io <=> y \in c.io)
  BY <1>1 DEF Cache
<1>3. ASSUME NEW y \in Buf
      PROVE  /\ Shows(d, y) <=> Shows(c, y)
             /\ Clean(d, y) => Clean(c, y)
             /\ "ERROR" \notin d.flags[y]
  <2>1. CASE y = x
    BY <1>1, <1>2, <2>1 DEF Shows, Clean
  <2>2. CASE y # x
    BY <1>2, <2>2 DEF Shows, Clean, Fresh
  <2> QED BY <2>1, <2>2
<1>4. Keeps(c, d)
  BY <1>1, <1>3 DEF Keeps
<1> QED BY <1>4 DEF d

\* A buffer that is not valid is going to be read.
LEMMA KeepsStartRead ==
  ASSUME NEW c \in Cache, NEW k, Fresh(c, k), NEW x \in Buf, ~Shows(c, x),
         NEW f \in SUBSET {"ASYNC"}
  PROVE  Keeps(c, StartRead(c, x, f))
<1> DEFINE d == StartRead(c, x, f)
<1>1. /\ d \in Cache /\ d.flags = [c.flags EXCEPT ![x] = c.flags[x] \cup ({"READ"} \cup f)]
      /\ d.io = c.io \cup {x} /\ d.hash = c.hash /\ d.data = c.data
  BY StartReadFacts
<1> HIDE DEF d
<1>2. /\ d.flags[x] = c.flags[x] \cup ({"READ"} \cup f)
      /\ \A y \in Buf \ {x} : d.flags[y] = c.flags[y] /\ (y \in d.io <=> y \in c.io)
  BY <1>1 DEF Cache
<1>3. ASSUME NEW y \in Buf
      PROVE  /\ Shows(d, y) <=> Shows(c, y)
             /\ Clean(d, y) => Clean(c, y)
             /\ "ERROR" \notin d.flags[y]
  <2>1. CASE y = x
    BY <1>1, <1>2, <2>1 DEF Shows, Clean, Fresh
  <2>2. CASE y # x
    BY <1>2, <2>2 DEF Shows, Clean, Fresh
  <2> QED BY <2>1, <2>2
<1>4. Keeps(c, d)
  BY <1>1, <1>3 DEF Keeps
<1> QED BY <1>4 DEF d

\* A clean buffer, or one without contents, is given to a block that has none: the old
\* block is read from the disk from now on, and the new one was and is.
LEMMA ReuseShown ==
  ASSUME NEW c \in Cache, NEW k, Fresh(c, k), NEW x \in Buf, x \notin c.io,
         "DELWRI" \notin c.flags[x], NEW b \in Block, \A y \in Buf : c.hash[y] # b,
         \A y, z \in Buf : y # z => c.hash[y] = NoBlock \/ c.hash[y] # c.hash[z],
         NEW d \in Cache, d.flags = [c.flags EXCEPT ![x] = {"BUSY"}],
         d.hash = [c.hash EXCEPT ![x] = b], d.data = c.data, d.io = c.io
  PROVE  Fresh(d, k) /\ Shown(d, k) = Shown(c, k)
<1>1. /\ d.flags[x] = {"BUSY"} /\ d.hash[x] = b
      /\ \A y \in Buf \ {x} : d.flags[y] = c.flags[y] /\ d.hash[y] = c.hash[y]
  BY DEF Cache
<1>2. ~Shows(d, x) /\ ~Clean(d, x)
  BY <1>1 DEF Shows, Clean
<1>3. \A y \in Buf \ {x} : (Shows(d, y) <=> Shows(c, y)) /\ (Clean(d, y) <=> Clean(c, y))
  BY <1>1 DEF Shows, Clean
<1>4. Fresh(d, k)
  BY <1>1, <1>2, <1>3 DEF Fresh
<1>5. ASSUME NEW a \in Block
      PROVE  Shown(d, k)[a] = Shown(c, k)[a]
  <2>1. On(d, a) = On(c, a) \ {x}
    BY <1>1, <1>2, <1>3 DEF On
  <2>2. CASE x \notin On(c, a)
    <3>1. On(d, a) = On(c, a)
      BY <2>1, <2>2
    <3> QED BY <3>1 DEF Shown
  <2>3. CASE x \in On(c, a)
    <3>1. c.hash[x] = a /\ a # NoBlock /\ Shows(c, x)
      BY <2>3, NamesAssumption DEF On
    <3>2. c.data[x] = k[a]
      BY <3>1 DEF Shows, Clean, Fresh
    <3>3. On(c, a) = {x}
      BY <2>3, <3>1 DEF On
    <3>4. On(d, a) = {} /\ One(On(c, a)) = x
      BY <2>1, <3>3 DEF One
    <3> QED BY <3>2, <3>3, <3>4 DEF Shown
  <2> QED BY <2>2, <2>3
<1>6. Shown(d, k) = Shown(c, k)
  BY <1>5 DEF Shown
<1> QED BY <1>4, <1>6

--------------------------------------------------------------------------------
\* Only x differs in c and d, and is the buffer of block b in both.
Alike(c, d, x, b) ==
    /\ d.hash = c.hash /\ c.hash[x] = b
    /\ \A y \in Buf \ {x} : /\ c.hash[y] # b /\ d.flags[y] = c.flags[y]
                            /\ (y \in d.io <=> y \in c.io) /\ d.data[y] = c.data[y]

\* m and k are the same but for b.
Elsewhere(m, k, b) == \A a \in Block \ {b} : m[a] = k[a]

\* Then only the contents of b can differ: they are those of x, or of the disk.
LEMMA AlikeShown ==
  ASSUME NEW c, NEW d, NEW x \in Buf, NEW b \in Block, Alike(c, d, x, b),
         NEW k, NEW m, Elsewhere(m, k, b)
  PROVE  /\ \A a \in Block \ {b} : Shown(d, m)[a] = Shown(c, k)[a]
         /\ Shown(c, k)[b] = IF Shows(c, x) THEN c.data[x] ELSE k[b]
         /\ Shown(d, m)[b] = IF Shows(d, x) THEN d.data[x] ELSE m[b]
<1>1. ASSUME NEW a \in Block \ {b}
      PROVE  Shown(d, m)[a] = Shown(c, k)[a]
  <2>1. \A y : (y \in On(d, a) <=> y \in On(c, a)) /\ (y \in On(c, a) => y \in Buf \ {x})
    BY DEF On, Shows, Alike
  <2>2. On(d, a) = On(c, a) /\ m[a] = k[a]
    BY <2>1 DEF Elsewhere
  <2>3. CASE On(c, a) = {}
    BY <2>2, <2>3 DEF Shown
  <2>4. CASE On(c, a) # {}
    <3> DEFINE y == One(On(c, a))
    <3>1. y \in On(c, a)
      BY <2>4 DEF One
    <3> HIDE DEF y
    <3>2. d.data[y] = c.data[y]
      BY <2>1, <3>1 DEF Alike
    <3> QED BY <2>2, <2>4, <3>2 DEF Shown, y
  <2> QED BY <2>3, <2>4
<1>2. ASSUME NEW e, NEW n, e.hash = c.hash
      PROVE  Shown(e, n)[b] = IF Shows(e, x) THEN e.data[x] ELSE n[b]
  <2>1. \A y : y \in On(e, b) <=> y = x /\ Shows(e, x)
    BY <1>2 DEF On, Alike
  <2>2. CASE Shows(e, x)
    <3>1. On(e, b) = {x} /\ One({x}) = x
      BY <2>1, <2>2 DEF One
    <3> QED BY <2>2, <3>1 DEF Shown
  <2>3. CASE ~Shows(e, x)
    <3>1. On(e, b) = {}
      BY <2>1, <2>3
    <3> QED BY <2>3, <3>1 DEF Shown
  <2> QED BY <2>2, <2>3
<1>3. d.hash = c.hash
  BY DEF Alike
<1> QED BY <1>1, <1>2, <1>3

\* The holder of a buffer writes it: the block contains what it wrote.
LEMMA WriteShown ==
  ASSUME NEW c \in Cache, NEW d \in Cache, NEW k, Fresh(c, k), NEW x \in Buf,
         NEW b \in Block, Alike(c, d, x, b), Shows(d, x), ~Clean(d, x),
         "ERROR" \notin d.flags[x]
  PROVE  Fresh(d, k) /\ Shown(d, k) = [Shown(c, k) EXCEPT ![b] = d.data[x]]
<1>1. /\ \A a \in Block \ {b} : Shown(d, k)[a] = Shown(c, k)[a]
      /\ Shown(d, k)[b] = d.data[x]
  <2>1. Elsewhere(k, k, b)
    BY DEF Elsewhere
  <2>2. /\ \A a \in Block \ {b} : Shown(d, k)[a] = Shown(c, k)[a]
        /\ Shown(c, k)[b] = IF Shows(c, x) THEN c.data[x] ELSE k[b]
        /\ Shown(d, k)[b] = IF Shows(d, x) THEN d.data[x] ELSE k[b]
    BY <2>1, AlikeShown
  <2> QED BY <2>2
<1>2. /\ Shown(d, k) = [a \in Block |-> Shown(d, k)[a]]
      /\ Shown(c, k) = [a \in Block |-> Shown(c, k)[a]]
  BY DEF Shown
<1>3. Shown(d, k) = [Shown(c, k) EXCEPT ![b] = d.data[x]]
  <2> DEFINE f == Shown(c, k)
             g == Shown(d, k)
  <2> HIDE DEF f, g
  <2>1. /\ f = [a \in Block |-> f[a]] /\ g = [a \in Block |-> g[a]]
        /\ \A a \in Block \ {b} : g[a] = f[a]
        /\ g[b] = d.data[x]
    BY <1>1, <1>2 DEF f, g
  <2>2. g = [f EXCEPT ![b] = d.data[x]]
    BY <2>1
  <2> QED BY <2>2 DEF f, g
<1>4. Fresh(d, k)
  <2>1. ASSUME NEW y \in Buf \ {x}
        PROVE  /\ "ERROR" \notin d.flags[y]
               /\ Clean(d, y) /\ d.hash[y] # NoBlock => d.data[y] = k[d.hash[y]]
    BY DEF Fresh, Alike, Clean
  <2> QED BY <2>1 DEF Fresh
<1> QED BY <1>3, <1>4

\* m is k with v for block b.
Put(m, k, b, v) == m = [k EXCEPT ![b] = v]

\* A write is over: what the block contains is on the disk.
LEMMA SyncShown ==
  ASSUME NEW c \in Cache, NEW d \in Cache, NEW k \in [Block -> Value], Fresh(c, k),
         NEW x \in Buf, NEW b \in Block, Alike(c, d, x, b), Shows(c, x), Shows(d, x),
         d.data[x] = c.data[x], "ERROR" \notin d.flags[x],
         NEW m, Put(m, k, b, c.data[x])
  PROVE  /\ Fresh(d, m) /\ Shown(d, m) = Shown(c, k)
         /\ Put(m, k, b, Shown(c, k)[b])
<1>0. Elsewhere(m, k, b)
  BY DEF Elsewhere, Put
<1>1. m[b] = c.data[x]
  BY DEF Put
<1>2. /\ \A a \in Block \ {b} : Shown(d, m)[a] = Shown(c, k)[a]
      /\ Shown(c, k)[b] = c.data[x] /\ Shown(d, m)[b] = c.data[x]
  <2>1. /\ \A a \in Block \ {b} : Shown(d, m)[a] = Shown(c, k)[a]
        /\ Shown(c, k)[b] = IF Shows(c, x) THEN c.data[x] ELSE k[b]
        /\ Shown(d, m)[b] = IF Shows(d, x) THEN d.data[x] ELSE m[b]
    BY <1>0, AlikeShown
  <2> QED BY <2>1
<1>3. Shown(d, m) = Shown(c, k)
  <2>1. /\ Shown(d, m) = [a \in Block |-> Shown(d, m)[a]]
        /\ Shown(c, k) = [a \in Block |-> Shown(c, k)[a]]
    BY DEF Shown
  <2> QED BY <1>2, <2>1
<1>4. Fresh(d, m)
  <2>1. ASSUME NEW y \in Buf \ {x}
        PROVE  /\ "ERROR" \notin d.flags[y]
               /\ Clean(d, y) /\ d.hash[y] # NoBlock => d.data[y] = m[d.hash[y]]
    <3>1. d.hash[y] # NoBlock => d.hash[y] \in Block \ {b}
      BY DEF Alike, Cache
    <3> QED BY <1>0, <3>1 DEF Fresh, Alike, Clean, Elsewhere
  <2>2. d.data[x] = m[d.hash[x]]
    BY <1>1 DEF Alike
  <2> QED BY <2>1, <2>2 DEF Fresh
<1> QED BY <1>2, <1>3, <1>4

\* A read is over: the buffer has what the block contained and contains.
LEMMA ReadShown ==
  ASSUME NEW c \in Cache, NEW d \in Cache, NEW k, Fresh(c, k),
         NEW x \in Buf, NEW b \in Block, Alike(c, d, x, b), ~Shows(c, x), Shows(d, x),
         d.data[x] = k[b], "ERROR" \notin d.flags[x]
  PROVE  Fresh(d, k) /\ Shown(d, k) = Shown(c, k)
<1>1. /\ \A a \in Block \ {b} : Shown(d, k)[a] = Shown(c, k)[a]
      /\ Shown(c, k)[b] = k[b] /\ Shown(d, k)[b] = k[b]
  <2>1. Elsewhere(k, k, b)
    BY DEF Elsewhere
  <2> QED BY <2>1, AlikeShown
<1>2. Shown(d, k) = Shown(c, k)
  <2>1. /\ Shown(d, k) = [a \in Block |-> Shown(d, k)[a]]
        /\ Shown(c, k) = [a \in Block |-> Shown(c, k)[a]]
    BY DEF Shown
  <2> QED BY <1>1, <2>1
<1>3. Fresh(d, k)
  <2>1. ASSUME NEW y \in Buf \ {x}
        PROVE  /\ "ERROR" \notin d.flags[y]
               /\ Clean(d, y) /\ d.hash[y] # NoBlock => d.data[y] = k[d.hash[y]]
    BY DEF Fresh, Alike, Clean
  <2>2. d.data[x] = k[d.hash[x]]
    BY DEF Alike
  <2> QED BY <2>1, <2>2 DEF Fresh
<1> QED BY <1>2, <1>3

--------------------------------------------------------------------------------
\* A step that no reader of the blocks and of the disk sees.
Unseen == /\ Fresh(cache', disk') /\ Shown(cache', disk') = Shown(cache, disk)
          /\ UNCHANGED <<disk, written>>

\* A step that keeps what the buffers show is one.
LEMMA KeepsUnseen ==
  ASSUME Fresh(cache, disk), Keeps(cache, cache'), UNCHANGED <<disk, written>>
  PROVE  Unseen
<1>1. Fresh(cache', disk) /\ Shown(cache', disk) = Shown(cache, disk)
  BY KeepsShown
<1> QED BY <1>1 DEF Unseen

\* getblk returns x: bread starts to read it unless it is valid, or lets it go.
LEMMA GotKeeps ==
  ASSUME NEW c \in Cache, NEW k, Fresh(c, k), NEW x \in Buf, x \notin c.io,
         NEW S, GoodLists(c, S), x \in S <=> "VFLUSH" \in c.flags[x],
         NEW p, call[p].use \in {"read", "ahead", "write"}, Got(p, c, x)
  PROVE  Keeps(c, cache')
<1>1. Keeps(c, c)
  BY KeepsRest
<1>2. Keeps(c, Brelse(c, x))
  BY KeepsBrelse
<1>3. ASSUME ~Valid(c, x), NEW f \in SUBSET {"ASYNC"}
      PROVE  Keeps(c, StartRead(c, x, f))
  <2>1. ~Shows(c, x)
    BY <1>3 DEF Valid, Has, Shows
  <2> QED BY <2>1, KeepsStartRead
<1>4. CASE call[p].use = "read"
  <2>1. cache' = IF Valid(c, x) THEN c ELSE StartRead(c, x, {})
    BY <1>4 DEF Got
  <2> QED BY <1>1, <1>3, <2>1
<1>5. CASE call[p].use = "ahead"
  <2>1. cache' = IF Valid(c, x) THEN Brelse(c, x) ELSE StartRead(c, x, {"ASYNC"})
    BY <1>5 DEF Got
  <2> QED BY <1>2, <1>3, <2>1
<1>6. CASE call[p].use = "write"
  <2>1. cache' = c
    BY <1>6 DEF Got
  <2> QED BY <1>1, <2>1
<1> QED BY <1>4, <1>5, <1>6

\* bremfree
LEMMA KeepsBremfree ==
  ASSUME NEW c \in Cache, NEW k, Fresh(c, k), NEW x \in Buf, NEW S, GoodLists(c, S)
  PROVE  Keeps(c, Bremfree(c, x))
<1> DEFINE d == Bremfree(c, x)
<1>1. d \in Cache /\ d.flags = c.flags /\ d.hash = c.hash /\ d.data = c.data /\ d.io = c.io
  BY BremfreeFacts
<1> HIDE DEF d
<1>2. Keeps(c, d)
  BY <1>1, KeepsRest
<1> QED BY <1>2 DEF d

\* tsleep
LEMMA KeepsTsleep ==
  ASSUME NEW c \in Cache, NEW k, Fresh(c, k), NEW p \in Proc,
         NEW ident \in Buf \cup {NeedBuffer, NumOutput}
  PROVE  Keeps(c, Tsleep(c, p, ident))
<1> DEFINE d == Tsleep(c, p, ident)
<1>1. d \in Cache /\ d.flags = c.flags /\ d.hash = c.hash /\ d.data = c.data /\ d.io = c.io
  BY TsleepFacts
<1> HIDE DEF d
<1>2. Keeps(c, d)
  BY <1>1, KeepsRest
<1> QED BY <1>2 DEF d

\* Flags that do not say what a buffer contains are set,
LEMMA KeepsAdd ==
  ASSUME NEW c \in Cache, NEW k, Fresh(c, k), NEW x \in Buf,
         NEW f \in SUBSET {"BUSY", "WANTED", "ASYNC", "AGE", "VFLUSH"}
  PROVE  Keeps(c, Add(c, x, f)) /\ Add(c, x, f).flags[x] = c.flags[x] \cup f
<1> DEFINE d == Add(c, x, f)
           g == c.flags[x] \cup f
<1>1. d \in Cache /\ d.flags = [c.flags EXCEPT ![x] = g] /\ d.hash = c.hash
      /\ d.data = c.data /\ d.io = c.io
  <2>1. f \in SUBSET Flag
    BY DEF Flag
  <2> QED BY <2>1, AddFacts
<1>2. /\ "ERROR" \notin g
      /\ \A h \in {"DONE", "DELWRI", "READ"} : h \in g <=> h \in c.flags[x]
  BY DEF Fresh
<1>3. d.flags[x] = g
  BY <1>1 DEF Cache
<1> HIDE DEF d, g
<1>4. Keeps(c, d)
  BY <1>1, <1>2, KeepsFlags
<1> QED BY <1>3, <1>4 DEF d, g

\* or cleared.
LEMMA KeepsClear ==
  ASSUME NEW c \in Cache, NEW k, Fresh(c, k), NEW x \in Buf,
         NEW f \in SUBSET {"BUSY", "WANTED", "ASYNC", "AGE", "VFLUSH"}
  PROVE  Keeps(c, Clear(c, x, f)) /\ Clear(c, x, f).flags[x] = c.flags[x] \ f
<1> DEFINE d == Clear(c, x, f)
           g == c.flags[x] \ f
<1>1. d \in Cache /\ d.flags = [c.flags EXCEPT ![x] = g] /\ d.hash = c.hash
      /\ d.data = c.data /\ d.io = c.io
  BY ClearFacts
<1>2. /\ "ERROR" \notin g
      /\ \A h \in {"DONE", "DELWRI", "READ"} : h \in g <=> h \in c.flags[x]
  BY DEF Fresh
<1>3. d.flags[x] = g
  BY <1>1 DEF Cache
<1> HIDE DEF d, g
<1>4. Keeps(c, d)
  BY <1>1, <1>2, KeepsFlags
<1> QED BY <1>3, <1>4 DEF d, g

\* getnewbuf, for a block that has no buffer
LEMMA TakeBufferUnseen ==
  ASSUME IInv, Fresh(cache, disk), NEW p \in Proc, pc[p] \in {"getblk", "getnewbuf"},
         \A y \in Buf : cache.hash[y] # call[p].block,
         TakeBuffer(p), UNCHANGED <<disk, written>>
  PROVE  Unseen
<1>0. /\ cache \in Cache /\ GoodLists(cache, Free(cache))
      /\ call[p].block \in Block /\ call[p].use \in {"read", "ahead", "write"}
      /\ Held(cache, bp)
  BY OfProc DEF Good, Calls, IInv
<1>1. CASE FreeList(cache) = <<>> /\ NeedAnyBuffer(p)
  <2> DEFINE n == [cache EXCEPT !.needbuffer = TRUE]
  <2>1. n \in Cache /\ n.flags = cache.flags /\ n.hash = cache.hash /\ n.data = cache.data
        /\ n.io = cache.io
    BY <1>0 DEF Cache
  <2>2. cache' = Tsleep(n, p, NeedBuffer)
    BY <1>1 DEF NeedAnyBuffer, Sleep
  <2> HIDE DEF n
  <2>3. Keeps(cache, n)
    BY <1>0, <2>1, KeepsRest
  <2>4. Fresh(n, disk)
    BY <2>3, KeepsShown
  <2>5. Keeps(n, cache')
    BY <2>1, <2>2, <2>4, KeepsTsleep
  <2> QED BY <2>3, <2>5, KeepsTrans, KeepsUnseen
<1>2. CASE FreeList(cache) # <<>>
  <2> DEFINE x == Head(FreeList(cache))
             c == Bremfree(cache, x)
  <2>1. IF Has(c, x, "VFLUSH") THEN AgeOut(p, c, x)
        ELSE IF Has(c, x, "DELWRI") THEN WriteOut(p, c, x)
        ELSE Reuse(p, c, x)
    BY <1>1, <1>2 DEF TakeBuffer
  <2>2. x \in Free(cache) /\ x \in Buf
    BY <1>0, <1>2, HeadFree DEF Free
  <2> HIDE DEF x
  <2>3. /\ c \in Cache /\ c.flags = cache.flags /\ c.hash = cache.hash /\ c.io = cache.io
        /\ c.data = cache.data /\ GoodLists(c, Free(cache) \ {x})
    BY <1>0, <2>2, BremfreeFacts
  <2>4. Keeps(cache, c)
    BY <1>0, <2>2, KeepsBremfree
  <2> HIDE DEF c
  <2>5. Fresh(c, disk) /\ Shown(c, disk) = Shown(cache, disk)
    BY <2>4, KeepsShown
  <2>6. CASE "VFLUSH" \in cache.flags[x]
    <3> DEFINE d == Clear(c, x, {"VFLUSH"})
    <3>1. cache' = Add(d, x, {"AGE"})
      BY <2>1, <2>3, <2>6 DEF AgeOut, Has
    <3>2. Keeps(c, d)
      BY <2>2, <2>3, <2>5, KeepsClear
    <3> HIDE DEF d
    <3>3. Fresh(d, disk) /\ d \in Cache
      BY <2>5, <3>2, KeepsShown DEF Keeps
    <3>4. Keeps(d, cache')
      BY <2>2, <3>1, <3>3, KeepsAdd
    <3> QED BY <2>4, <3>2, <3>4, KeepsTrans, KeepsUnseen
  <2>7. CASE "VFLUSH" \notin cache.flags[x] /\ "DELWRI" \in cache.flags[x]
    <3> DEFINE d == Add(c, x, {"BUSY", "AGE", "ASYNC"})
    <3>1. cache' = StartWrite(d, x)
      BY <2>1, <2>3, <2>7 DEF WriteOut, Has
    <3>2. Keeps(c, d) /\ d.flags[x] = c.flags[x] \cup {"BUSY", "AGE", "ASYNC"}
      BY <2>2, <2>3, <2>5, KeepsAdd
    <3> HIDE DEF d
    <3>3. Fresh(d, disk) /\ d \in Cache /\ Shows(d, x)
      BY <2>3, <2>5, <2>7, <3>2, KeepsShown DEF Keeps, Shows
    <3>4. Keeps(d, cache')
      BY <2>2, <3>1, <3>3, KeepsStartWrite
    <3> QED BY <2>4, <3>2, <3>4, KeepsTrans, KeepsUnseen
  <2>8. CASE "VFLUSH" \notin cache.flags[x] /\ "DELWRI" \notin cache.flags[x]
    <3> DEFINE b == call[p].block
               d == [c EXCEPT !.flags[x] = {"BUSY"}, !.hash[x] = b]
    <3>1. Got(p, d, x)
      BY <2>1, <2>3, <2>8 DEF Reuse, Has
    <3>2. /\ d \in Cache /\ d.flags = [c.flags EXCEPT ![x] = {"BUSY"}]
          /\ d.hash = [c.hash EXCEPT ![x] = b] /\ d.data = c.data /\ d.io = c.io
          /\ d.lru = c.lru /\ d.age = c.age
      BY <1>0, <2>2, <2>3 DEF Cache, Flag
    <3> HIDE DEF d
    <3>3. x \notin c.io
      BY <2>2, <2>3, <2>8 DEF Held, Common, Mark, Free, IInv
    <3>4. /\ \A y \in Buf : c.hash[y] # b
          /\ \A y, z \in Buf : y # z => c.hash[y] = NoBlock \/ c.hash[y] # c.hash[z]
      BY <1>0, <2>3 DEF Held, Common
    <3>5. Fresh(d, disk) /\ Shown(d, disk) = Shown(c, disk)
      <4>1. "DELWRI" \notin c.flags[x] /\ b \in Block
        BY <1>0, <2>3, <2>8
      <4> HIDE DEF b
      <4> QED BY <2>2, <2>3, <2>5, <3>2, <3>3, <3>4, <4>1, ReuseShown
    <3>6. Keeps(d, cache')
      <4>1. GoodLists(d, Free(cache) \ {x})
        BY <2>3, <3>2 DEF GoodLists
      <4>2. d.flags[x] = {"BUSY"} /\ x \notin d.io
        BY <2>2, <2>3, <3>2, <3>3 DEF Cache
      <4>3. x \in Free(cache) \ {x} <=> "VFLUSH" \in d.flags[x]
        BY <4>2
      <4>4. d \in Cache /\ Fresh(d, disk) /\ x \notin d.io
        BY <3>2, <3>5, <4>2
      <4> QED BY <1>0, <2>2, <3>1, <4>1, <4>3, <4>4, GotKeeps
    <3>7. Fresh(cache', disk) /\ Shown(cache', disk) = Shown(cache, disk)
      BY <2>5, <3>5, <3>6, KeepsShown
    <3> QED BY <3>7 DEF Unseen
  <2> QED BY <2>6, <2>7, <2>8
<1> QED BY <1>1, <1>2 DEF TakeBuffer

\* getblk
LEMMA GetblkUnseen ==
  ASSUME IInv, Fresh(cache, disk), NEW p \in Proc, Getblk(p)
  PROVE  Unseen
<1>0. /\ cache \in Cache /\ GoodLists(cache, Free(cache)) /\ Held(cache, bp)
      /\ pc[p] = "getblk" /\ UNCHANGED <<disk, written>>
      /\ call[p].block \in Block /\ call[p].use \in {"read", "ahead", "write"}
  BY OfProc DEF Good, Calls, IInv, Getblk
<1> DEFINE found == Incore(cache, call[p].block)
<1>1. CASE \E x \in found : /\ Has(cache, x, "BUSY")
                            /\ Sleep(p, "getblk", Add(cache, x, {"WANTED"}), x)
                            /\ UNCHANGED <<call, bp>>
  <2>1. PICK x \in Buf : cache' = Tsleep(Add(cache, x, {"WANTED"}), p, x)
    BY <1>1 DEF Incore, Sleep
  <2> DEFINE d == Add(cache, x, {"WANTED"})
  <2>2. Keeps(cache, d)
    BY <1>0, KeepsAdd
  <2> HIDE DEF d
  <2>3. Fresh(d, disk) /\ d \in Cache
    BY <2>2, KeepsShown DEF Keeps
  <2>4. Keeps(d, cache')
    BY <2>1, <2>3, KeepsTsleep DEF d
  <2> QED BY <1>0, <2>2, <2>4, KeepsTrans, KeepsUnseen
<1>2. CASE \E x \in found : /\ ~Has(cache, x, "BUSY")
                            /\ Got(p, Bremfree(Add(cache, x, {"BUSY"}), x), x)
  <2>1. PICK x \in Buf : /\ "BUSY" \notin cache.flags[x]
                         /\ Got(p, Bremfree(Add(cache, x, {"BUSY"}), x), x)
    BY <1>2 DEF Incore, Has
  <2> DEFINE e == Add(cache, x, {"BUSY"})
             d == Bremfree(e, x)
  <2>2. Keeps(cache, e) /\ e.flags[x] = cache.flags[x] \cup {"BUSY"}
    BY <1>0, KeepsAdd
  <2>3. GoodLists(e, Free(cache)) /\ e.io = cache.io
    <3>1. {"BUSY"} \in SUBSET Flag
      BY DEF Flag
    <3>2. SameLists(cache, e) /\ e.io = cache.io
      BY <1>0, <3>1, AddFacts
    <3> HIDE DEF e
    <3> QED BY <1>0, <3>2 DEF GoodLists, SameLists
  <2> HIDE DEF e
  <2>4. Fresh(e, disk) /\ e \in Cache
    BY <2>2, KeepsShown DEF Keeps
  <2>5. Keeps(e, d)
    BY <2>3, <2>4, KeepsBremfree
  <2>6. GoodLists(d, Free(cache) \ {x}) /\ d.flags = e.flags /\ d.io = e.io
    BY <2>3, <2>4, BremfreeFacts
  <2>7. Got(p, d, x)
    BY <2>1 DEF e
  <2> HIDE DEF d
  <2>8. Fresh(d, disk) /\ d \in Cache
    BY <2>4, <2>5, KeepsShown DEF Keeps
  <2>9. x \notin d.io /\ (x \in Free(cache) \ {x} <=> "VFLUSH" \in d.flags[x])
    BY <1>0, <2>1, <2>2, <2>3, <2>6 DEF Held, Common, Mark, Place
  <2>10. Keeps(d, cache')
    BY <1>0, <2>6, <2>7, <2>8, <2>9, GotKeeps
  <2> QED BY <1>0, <2>2, <2>5, <2>10, KeepsTrans, KeepsUnseen
<1>3. CASE found = {} /\ TakeBuffer(p)
  <2>1. \A y \in Buf : cache.hash[y] # call[p].block
    BY <1>3 DEF Incore
  <2> QED BY <1>0, <1>3, <2>1, TakeBufferUnseen
<1> QED BY <1>1, <1>2, <1>3 DEF Getblk

\* biowait, and brelse after it
LEMMA BiowaitUnseen ==
  ASSUME IInv, Fresh(cache, disk), NEW p \in Proc, Biowait(p)
  PROVE  Unseen
<1>0. /\ cache \in Cache /\ GoodLists(cache, Free(cache)) /\ Held(cache, bp)
      /\ pc[p] \in {"biowait", "bwrite"} /\ UNCHANGED <<disk, written>>
      /\ bp[p] \in Buf
  BY OfProc DEF Good, IInv, Biowait
<1> DEFINE x == bp[p]
<1>1. CASE "DONE" \notin cache.flags[x]
  <2>1. cache' = Tsleep(cache, p, x)
    BY <1>1 DEF Biowait, Sleep, Has
  <2> QED BY <1>0, <2>1, KeepsTsleep, KeepsUnseen
<1>2. CASE cache' = cache
  <2>1. Keeps(cache, cache')
    BY <1>0, <1>2, KeepsRest
  <2> QED BY <1>0, <2>1, KeepsUnseen
<1>3. CASE "DONE" \in cache.flags[x] /\ cache' = Brelse(cache, x)
  <2>1. x # NoBuf /\ x \notin cache.io
    BY <1>0, <1>3, NamesAssumption DEF Held, Common, Mark
  <2>2. x \in Free(cache) <=> "VFLUSH" \in cache.flags[x]
    BY <2>1, OwnBuffer DEF Free
  <2>3. Keeps(cache, cache')
    BY <1>0, <1>3, <2>2, KeepsBrelse
  <2> QED BY <1>0, <2>3, KeepsUnseen
<1> QED BY <1>1, <1>2, <1>3 DEF Biowait, Has

\* brelse by the holder
LEMMA ReleaseUnseen ==
  ASSUME IInv, Fresh(cache, disk), NEW p \in Proc, Release(p)
  PROVE  Unseen
<1> DEFINE x == bp[p]
<1>0. cache \in Cache /\ GoodLists(cache, Free(cache))
  BY OfProc
<1>1. Holds(p) /\ cache' = Brelse(cache, x) /\ UNCHANGED <<disk, written>>
  BY DEF Release, LetGo
<1>2. x \in Buf /\ (x \in Free(cache) <=> "VFLUSH" \in cache.flags[x])
  BY <1>1, HoldFacts, OwnBuffer DEF Free
<1>3. Keeps(cache, cache')
  BY <1>0, <1>1, <1>2, KeepsBrelse
<1> QED BY <1>1, <1>3, KeepsUnseen

\* vflushbuf begins to write a dirty buffer, or waits.
LEMMA FlushUnseen ==
  ASSUME IInv, Fresh(cache, disk), NEW p \in Proc, FlushNext(p) \/ FlushWait(p)
  PROVE  Unseen
<1>0. cache \in Cache /\ UNCHANGED <<disk, written>>
  BY OfProc DEF FlushNext, FlushWait
<1>1. CASE cache' = cache
  <2>1. Keeps(cache, cache')
    BY <1>0, <1>1, KeepsRest
  <2> QED BY <1>0, <2>1, KeepsUnseen
<1>2. CASE cache' = Tsleep(cache, p, NumOutput)
  BY <1>0, <1>2, KeepsTsleep, KeepsUnseen
<1>3. ASSUME NEW x \in Buf, "DELWRI" \in cache.flags[x],
             cache' = StartWrite(Add(cache, x, {"BUSY", "VFLUSH", "ASYNC"}), x)
      PROVE  Unseen
  <2> DEFINE d == Add(cache, x, {"BUSY", "VFLUSH", "ASYNC"})
  <2>1. cache' = StartWrite(d, x)
    BY <1>3
  <2>2. Keeps(cache, d) /\ d.flags[x] = cache.flags[x] \cup {"BUSY", "VFLUSH", "ASYNC"}
    BY <1>0, KeepsAdd
  <2> HIDE DEF d
  <2>3. Fresh(d, disk) /\ d \in Cache /\ Shows(d, x)
    BY <1>3, <2>2, KeepsShown DEF Keeps, Shows
  <2>4. Keeps(d, cache')
    BY <2>1, <2>3, KeepsStartWrite
  <2> QED BY <1>0, <2>2, <2>4, KeepsTrans, KeepsUnseen
<1>4. CASE FlushNext(p)
  BY <1>1, <1>3, <1>4 DEF FlushNext, Dirty, Has
<1>5. CASE FlushWait(p)
  BY <1>1, <1>2, <1>5 DEF FlushWait, Sleep
<1> QED BY <1>4, <1>5

--------------------------------------------------------------------------------
\* A step that writes v to block b, as BlockStore says it
Written(b, v) ==
    /\ Fresh(cache', disk') /\ disk' = disk
    /\ written' = [written EXCEPT ![b] = v]
    /\ Shown(cache', disk') = [Shown(cache, disk) EXCEPT ![b] = v]

\* What the holder of x leaves of the cache is such a step.
LEMMA WrittenBy ==
  ASSUME IInv, Fresh(cache, disk), NEW p \in Proc, NEW v \in Value, Holds(p), Write(p, v),
         NEW x, x = bp[p], cache' \in Cache, cache'.hash = cache.hash,
         disk' = disk, cache'.data[x] = v,
         \A y \in Buf \ {x} : /\ cache'.data[y] = cache.data[y]
                              /\ cache'.flags[y] = cache.flags[y]
                              /\ y \in cache'.io <=> y \in cache.io,
         Shows(cache', x), ~Clean(cache', x), "ERROR" \notin cache'.flags[x]
  PROVE  \E b \in Block : Written(b, v)
<1> DEFINE b == cache.hash[x]
<1>0. x \in Buf /\ cache \in Cache /\ b \in Block
  BY HoldFacts, OfProc
<1>1. \A y \in Buf \ {x} : cache.hash[y] # b
  <2>1. \A y, z \in Buf : y # z => cache.hash[y] = NoBlock \/ cache.hash[y] # cache.hash[z]
    BY DEF IInv, Held, Common
  <2>2. b # NoBlock
    BY <1>0, NamesAssumption
  <2> QED BY <1>0, <2>1, <2>2
<1>2. Alike(cache, cache', x, b)
  BY <1>1 DEF Alike
<1>3. Fresh(cache', disk) /\ Shown(cache', disk) = [Shown(cache, disk) EXCEPT ![b] = v]
  <2> HIDE DEF b
  <2>1. /\ Fresh(cache', disk)
        /\ Shown(cache', disk) = [Shown(cache, disk) EXCEPT ![b] = cache'.data[x]]
    BY <1>0, <1>2, WriteShown
  <2> QED BY <2>1
<1>4. Written(b, v)
  BY <1>3 DEF Written, Write
<1> QED BY <1>0, <1>4

\* bdwrite
LEMMA BdwriteWritten ==
  ASSUME IInv, Fresh(cache, disk), NEW p \in Proc, NEW v \in Value, Bdwrite(p, v)
  PROVE  \E b \in Block : Written(b, v)
<1> DEFINE x == bp[p]
           f == {"DELWRI", "DONE"}
           e == Filled(p, v)
           c == Add(e, x, f)
<1>1. Holds(p) /\ Write(p, v) /\ cache' = Brelse(c, x) /\ disk' = disk
  BY DEF Bdwrite, LetGo
<1>2. /\ x \in Buf /\ cache \in Cache /\ "VFLUSH" \notin cache.flags[x]
      /\ "BUSY" \in cache.flags[x] /\ GoodLists(cache, Free(cache))
      /\ "ERROR" \notin cache.flags[x]
  BY <1>1, HoldFacts, OwnBuffer, OfProc
<1>3. /\ e \in Cache /\ e.flags = cache.flags /\ e.hash = cache.hash
      /\ e.io = cache.io /\ SameLists(cache, e)
  BY <1>1, FilledFacts
<1>4. e.data[x] = v /\ \A y \in Buf \ {x} : e.data[y] = cache.data[y]
  BY <1>2 DEF Filled, Cache
<1> HIDE DEF e
<1>5. /\ c \in Cache /\ c.flags = [e.flags EXCEPT ![x] = e.flags[x] \cup f]
      /\ c.hash = e.hash /\ c.data = e.data /\ c.io = e.io /\ SameLists(e, c)
  <2>1. f \in SUBSET Flag
    BY DEF Flag
  <2> QED BY <1>2, <1>3, <2>1, AddFacts
<1>6. GoodLists(c, Free(cache))
  BY <1>2, <1>3, <1>5 DEF GoodLists, SameLists
<1> HIDE DEF c
<1>7. /\ c.flags[x] = cache.flags[x] \cup f
      /\ \A y \in Buf \ {x} : c.flags[y] = cache.flags[y]
  BY <1>2, <1>3, <1>5 DEF Cache
<1>8. /\ cache' \in Cache /\ cache'.flags = [c.flags EXCEPT ![x] = Freed(c.flags[x])]
      /\ cache'.hash = c.hash /\ cache'.data = c.data /\ cache'.io = c.io
  <2>1. x \in Free(cache) <=> "VFLUSH" \in c.flags[x]
    BY <1>2, <1>7 DEF Free
  <2>2. "ERROR" \notin c.flags[x]
    BY <1>2, <1>7
  <2>3. x \in Buf /\ c \in Cache /\ cache' = Brelse(c, x)
    BY <1>1, <1>2, <1>5 DEF c, e
  <2> HIDE DEF x, f
  <2> QED BY <1>6, <2>1, <2>2, <2>3, BrelseClean
<1>9. /\ "DELWRI" \in cache'.flags[x] /\ "ERROR" \notin cache'.flags[x]
      /\ \A y \in Buf \ {x} : cache'.flags[y] = cache.flags[y]
  BY <1>2, <1>5, <1>7, <1>8 DEF Cache, Freed
<1>10. Shows(cache', x) /\ ~Clean(cache', x)
  BY <1>9 DEF Shows, Clean
<1>11. x = bp[p] /\ Holds(p) /\ Write(p, v)
  BY <1>1
<1> HIDE DEF x
<1>12. /\ cache' \in Cache /\ cache'.hash = cache.hash /\ disk' = disk
       /\ cache'.data[x] = v
       /\ \A y \in Buf \ {x} : /\ cache'.data[y] = cache.data[y]
                               /\ cache'.flags[y] = cache.flags[y]
                               /\ y \in cache'.io <=> y \in cache.io
  <2>1. /\ cache'.hash = cache.hash /\ cache'.data = e.data /\ cache'.io = cache.io
        /\ cache' \in Cache
    BY <1>3, <1>5, <1>8
  <2>2. disk' = disk /\ \A y \in Buf \ {x} : cache'.flags[y] = cache.flags[y]
    BY <1>1, <1>9
  <2> QED BY <1>4, <2>1, <2>2
<1>13. "ERROR" \notin cache'.flags[x]
  BY <1>9
<1> QED BY <1>10, <1>11, <1>12, <1>13, WrittenBy

\* bawrite and bwrite
LEMMA BwriteWritten ==
  ASSUME IInv, Fresh(cache, disk), NEW p \in Proc, NEW v \in Value,
         Bawrite(p, v) \/ Bwrite(p, v)
  PROVE  \E b \in Block : Written(b, v)
<1> DEFINE x == bp[p]
           e == Filled(p, v)
           a == Add(e, x, {"ASYNC"})
<1>1. /\ Holds(p) /\ Write(p, v) /\ disk' = disk
      /\ cache' = StartWrite(a, x) \/ cache' = StartWrite(e, x)
  BY DEF Bawrite, Bwrite, LetGo
<1>2. x \in Buf /\ cache \in Cache /\ "ERROR" \notin cache.flags[x]
  BY <1>1, HoldFacts, OfProc
<1>3. /\ e \in Cache /\ e.flags = cache.flags /\ e.hash = cache.hash /\ e.io = cache.io
  BY <1>1, FilledFacts
<1>4. e.data[x] = v /\ \A y \in Buf \ {x} : e.data[y] = cache.data[y]
  BY <1>2 DEF Filled, Cache
<1> HIDE DEF e
<1>5. /\ a \in Cache /\ a.flags = [e.flags EXCEPT ![x] = e.flags[x] \cup {"ASYNC"}]
      /\ a.hash = e.hash /\ a.data = e.data /\ a.io = e.io
  <2>1. {"ASYNC"} \in SUBSET Flag
    BY DEF Flag
  <2> QED BY <1>2, <1>3, <2>1, AddFacts
<1> HIDE DEF a
<1>6. PICK c \in {a, e} : cache' = StartWrite(c, x)
  BY <1>1
<1>7. /\ c \in Cache /\ c.hash = e.hash /\ c.data = e.data /\ c.io = e.io
      /\ c.flags[x] \in {cache.flags[x], cache.flags[x] \cup {"ASYNC"}}
      /\ \A y \in Buf \ {x} : c.flags[y] = cache.flags[y]
  BY <1>2, <1>3, <1>5, <1>6 DEF Cache
<1>8. /\ cache' \in Cache
      /\ cache'.flags = [c.flags EXCEPT ![x] =
                            c.flags[x] \ {"READ", "DONE", "ERROR", "DELWRI"}]
      /\ cache'.io = c.io \cup {x} /\ cache'.hash = c.hash /\ cache'.data = c.data
  BY <1>2, <1>6, <1>7, StartWriteFacts
<1>9. /\ cache'.flags[x] = c.flags[x] \ {"READ", "DONE", "ERROR", "DELWRI"}
      /\ \A y \in Buf \ {x} : /\ cache'.flags[y] = cache.flags[y]
                              /\ y \in cache'.io <=> y \in cache.io
  BY <1>2, <1>3, <1>7, <1>8 DEF Cache
<1>10. Shows(cache', x) /\ ~Clean(cache', x) /\ "ERROR" \notin cache'.flags[x]
  BY <1>2, <1>7, <1>8, <1>9 DEF Shows, Clean
<1> HIDE DEF x
<1> QED BY <1>1, <1>3, <1>4, <1>7, <1>8, <1>9, <1>10, WrittenBy DEF x

--------------------------------------------------------------------------------
\* The end of a write: Sync of BlockStore
Synced(b) ==
    /\ Fresh(cache', disk') /\ written' = written
    /\ Shown(cache', disk') = Shown(cache, disk)
    /\ Put(disk', disk, b, Shown(cache, disk)[b])

\* What biodone changes of the cache, when the transfer of x has succeeded: v is the
\* content of x then.
LEMMA BiodoneFacts ==
  ASSUME IInv, Fresh(cache, disk), IoErrors = FALSE, NEW x \in Buf, Biodone(x)
  PROVE  LET b     == cache.hash[x]
             reads == "READ" \in cache.flags[x]
         IN  /\ b \in Block /\ x \in cache.io /\ written' = written
             /\ cache \in Cache /\ cache' \in Cache /\ Alike(cache, cache', x, b)
             /\ "DONE" \notin cache.flags[x] /\ "DELWRI" \notin cache.flags[x]
             /\ "DONE" \in cache'.flags[x] /\ "ERROR" \notin cache'.flags[x]
             /\ cache'.data[x] = IF reads THEN disk[b] ELSE cache.data[x]
             /\ disk' = IF reads THEN disk ELSE [disk EXCEPT ![b] = cache.data[x]]
<1> DEFINE b == cache.hash[x]
           reads == "READ" \in cache.flags[x]
           v == IF reads THEN disk[b] ELSE cache.data[x]
           over == [Add(cache, x, {"DONE"}) EXCEPT !.io = @ \ {x}, !.data[x] = v]
<1>0. /\ cache \in Cache /\ Types /\ x \in cache.io /\ "ERROR" \notin cache.flags[x]
      /\ Held(cache, bp) /\ NoBlock \notin Block /\ written' = written
  BY NamesAssumption DEF IInv, Held, Common, Biodone, Fresh
<1>1. /\ b \in Block /\ "BUSY" \in cache.flags[x]
      /\ "DONE" \notin cache.flags[x] /\ "DELWRI" \notin cache.flags[x] /\ v \in Value
      /\ \A y \in Buf \ {x} : cache.hash[y] # b
  BY <1>0 DEF Held, Common, Mark, Cache, Types
<1>2. PICK told \in Cache :
        /\ told.flags = [cache.flags EXCEPT ![x] = cache.flags[x] \cup {"DONE"}]
        /\ told.hash = cache.hash /\ told.io = cache.io \ {x}
        /\ told.data = [cache.data EXCEPT ![x] = v] /\ SameLists(cache, told)
        /\ cache' = IF Has(told, x, "ASYNC") THEN Brelse(told, x) ELSE WakeOwner(told, x)
        /\ disk' = IF reads THEN disk ELSE [disk EXCEPT ![b] = cache.data[x]]
  <2> DEFINE a == Add(cache, x, {"DONE"})
             g == cache.flags[x] \cup {"DONE"}
  <2>1. /\ a \in Cache /\ a.flags = [cache.flags EXCEPT ![x] = g]
        /\ a.hash = cache.hash /\ a.data = cache.data /\ a.io = cache.io
        /\ SameLists(cache, a)
    <3>1. {"DONE"} \in SUBSET Flag
      BY DEF Flag
    <3> QED BY <1>0, <3>1, AddFacts
  <2>2. /\ over \in Cache /\ over.flags = [cache.flags EXCEPT ![x] = g]
        /\ over.hash = cache.hash /\ over.io = cache.io \ {x}
        /\ over.data = [cache.data EXCEPT ![x] = v] /\ SameLists(cache, over)
    <3> HIDE DEF a, g, v
    <3>1. over = [a EXCEPT !.io = @ \ {x}, !.data[x] = v]
      BY DEF a
    <3> HIDE DEF over
    <3> QED BY <1>1, <2>1, <3>1 DEF Cache, SameLists
  <2>3. PICK told \in {over, Wakeup(over, NumOutput)} :
          /\ cache' = IF Has(told, x, "ASYNC") THEN Brelse(told, x) ELSE WakeOwner(told, x)
          /\ disk' = IF reads THEN disk ELSE [disk EXCEPT ![b] = cache.data[x]]
    <3>1. over = [Add(cache, x, {"DONE"} \cup {}) EXCEPT !.io = @ \ {x},
                     !.data[x] = IF Has(cache, x, "READ") /\ {} = {} THEN disk[b] ELSE @]
      <4>1. a.data[x] = cache.data[x] /\ {"DONE"} \cup {} = {"DONE"}
        BY <2>1
      <4> QED BY <4>1 DEF Has
    <3> QED BY <3>1 DEF Biodone, Has
  <2> HIDE DEF over, v, g
  <2>4. /\ told \in Cache /\ told.flags = over.flags /\ told.hash = over.hash
        /\ told.io = over.io /\ told.data = over.data /\ SameLists(over, told)
    <3>1. CASE told = over
      BY <2>2, <3>1 DEF SameLists
    <3>2. CASE told = Wakeup(over, NumOutput)
      BY <2>2, <3>2, WakeupFacts
    <3> QED BY <2>3, <3>1, <3>2
  <2> QED BY <2>2, <2>3, <2>4 DEF SameLists, g
<1> HIDE DEF v, over
<1>3. /\ told.flags[x] = cache.flags[x] \cup {"DONE"} /\ told.data[x] = v
      /\ \A y \in Buf \ {x} : /\ told.flags[y] = cache.flags[y]
                              /\ told.data[y] = cache.data[y]
                              /\ (y \in told.io <=> y \in cache.io)
  BY <1>0, <1>2 DEF Cache
<1>4. /\ cache' \in Cache /\ cache'.hash = told.hash /\ cache'.data = told.data
      /\ cache'.io = told.io /\ "DONE" \in cache'.flags[x] /\ "ERROR" \notin cache'.flags[x]
      /\ \A y \in Buf \ {x} : cache'.flags[y] = told.flags[y]
  <2>1. "ERROR" \notin told.flags[x] /\ "DONE" \in told.flags[x]
    BY <1>0, <1>3
  <2>2. CASE Has(told, x, "ASYNC")
    <3>1. GoodLists(told, Free(cache))
      BY <1>0, <1>2 DEF Held, Common, GoodLists, SameLists
    <3>2. x \in Free(cache) <=> "VFLUSH" \in told.flags[x]
      BY <1>1, <1>3 DEF Free
    <3>3. cache' = Brelse(told, x)
      BY <1>2, <2>2
    <3>4. /\ cache' \in Cache
          /\ cache'.flags = [told.flags EXCEPT ![x] = Freed(told.flags[x])]
          /\ cache'.hash = told.hash /\ cache'.data = told.data /\ cache'.io = told.io
      BY <2>1, <3>1, <3>2, <3>3, BrelseClean
    <3> QED BY <1>2, <2>1, <3>4 DEF Cache, Freed
  <2>3. CASE ~Has(told, x, "ASYNC")
    <3> DEFINE c == Clear(told, x, {"WANTED"})
    <3>1. /\ c \in Cache /\ c.flags = [told.flags EXCEPT ![x] = told.flags[x] \ {"WANTED"}]
          /\ c.hash = told.hash /\ c.data = told.data /\ c.io = told.io
      BY <1>2, ClearFacts
    <3> HIDE DEF c
    <3>2. cache' = Wakeup(c, x)
      BY <1>2, <2>3 DEF WakeOwner, c
    <3>3. /\ cache' \in Cache /\ cache'.flags = c.flags
          /\ cache'.hash = c.hash /\ cache'.data = c.data /\ cache'.io = c.io
      BY <3>1, <3>2, WakeupFacts
    <3> QED BY <1>2, <2>1, <3>1, <3>3 DEF Cache
  <2> QED BY <2>2, <2>3
<1>5. Alike(cache, cache', x, b)
  BY <1>1, <1>2, <1>3, <1>4 DEF Alike
<1>6. cache'.data[x] = IF reads THEN disk[b] ELSE cache.data[x]
  BY <1>3, <1>4 DEF v
<1> QED BY <1>0, <1>1, <1>2, <1>4, <1>5, <1>6

\* biodone of a read is not seen; that of a write puts on the disk what the block contains.
LEMMA BiodoneSynced ==
  ASSUME IInv, Fresh(cache, disk), IoErrors = FALSE, NEW x \in Buf, Biodone(x)
  PROVE  Unseen \/ \E b \in Block : Synced(b)
<1> DEFINE b == cache.hash[x]
<1>1. /\ b \in Block /\ x \in cache.io /\ written' = written
      /\ cache \in Cache /\ cache' \in Cache /\ Alike(cache, cache', x, b)
      /\ "DONE" \notin cache.flags[x] /\ "DELWRI" \notin cache.flags[x]
      /\ "DONE" \in cache'.flags[x] /\ "ERROR" \notin cache'.flags[x]
      /\ cache'.data[x] = IF "READ" \in cache.flags[x] THEN disk[b] ELSE cache.data[x]
      /\ disk' = IF "READ" \in cache.flags[x] THEN disk
                 ELSE [disk EXCEPT ![b] = cache.data[x]]
  BY BiodoneFacts
<1>2. Shows(cache', x) /\ disk \in [Block -> Value]
  BY <1>1 DEF Shows, IInv, Types
<1> HIDE DEF b
<1>3. CASE "READ" \in cache.flags[x]
  <2>1. ~Shows(cache, x) /\ cache'.data[x] = disk[b] /\ disk' = disk
    BY <1>1, <1>3 DEF Shows
  <2>2. Fresh(cache', disk) /\ Shown(cache', disk) = Shown(cache, disk)
    BY <1>1, <1>2, <2>1, ReadShown
  <2> QED BY <1>1, <2>1, <2>2 DEF Unseen
<1>4. CASE "READ" \notin cache.flags[x]
  <2>1. /\ Shows(cache, x) /\ cache'.data[x] = cache.data[x]
        /\ Put(disk', disk, b, cache.data[x])
    BY <1>1, <1>4 DEF Shows, Put
  <2>2. /\ b \in Block /\ cache \in Cache /\ cache' \in Cache /\ Alike(cache, cache', x, b)
        /\ "ERROR" \notin cache'.flags[x]
    BY <1>1
  <2>3. /\ Fresh(cache', disk') /\ Shown(cache', disk') = Shown(cache, disk)
        /\ Put(disk', disk, b, Shown(cache, disk)[b])
    BY <1>2, <2>1, <2>2, SyncShown
  <2> QED BY <1>1, <2>3 DEF Synced
<1> QED BY <1>3, <1>4

--------------------------------------------------------------------------------
\* The invariant while transfers succeed
RInv == IInv /\ Fresh(cache, disk)

\* Every step is one that BlockStore allows, and keeps the invariant.
LEMMA NextOfStore ==
  ASSUME IoErrors = FALSE, RInv, [Next]_vars
  PROVE  RInv' /\ (Unseen \/ \E b \in Block : Synced(b) \/ \E v \in Value : Written(b, v))
<1> DEFINE Allowed == Unseen \/ \E b \in Block : Synced(b) \/ \E v \in Value : Written(b, v)
<1>0. IInv /\ Fresh(cache, disk) /\ cache \in Cache /\ IInv'
  BY NextGood DEF RInv, IInv, Held, Common
<1>1. ASSUME cache' = cache, UNCHANGED <<disk, written>> PROVE Allowed
  BY <1>0, <1>1 DEF Unseen
<1>2. ASSUME NEW p \in Proc, NewCall(p) PROVE Allowed
  BY <1>1, <1>2 DEF NewCall, Bread, BeginWrite, Flush
<1>3. ASSUME NEW p \in Proc, Run(p) PROVE Allowed
  <2>1. CASE Getblk(p)
    BY <1>0, <2>1, GetblkUnseen
  <2>2. CASE Getnewbuf(p)
    <3>1. /\ pc[p] = "getnewbuf" /\ TakeBuffer(p) /\ UNCHANGED <<disk, written>>
          /\ \A y \in Buf : cache.hash[y] # call[p].block
      BY <1>0, <2>2 DEF Getnewbuf, IInv, AllGood, Good
    <3> QED BY <1>0, <3>1, TakeBufferUnseen
  <2>3. CASE Breadn(p)
    BY <1>1, <2>3 DEF Breadn
  <2>4. CASE Biowait(p)
    BY <1>0, <2>4, BiowaitUnseen
  <2>5. CASE FlushNext(p) \/ FlushWait(p)
    BY <1>0, <2>5, FlushUnseen
  <2> QED BY <1>3, <2>1, <2>2, <2>3, <2>4, <2>5 DEF Run
<1>4. ASSUME NEW p \in Proc, Finish(p) PROVE Allowed
  <2>1. CASE Release(p)
    BY <1>0, <2>1, ReleaseUnseen
  <2>2. ASSUME NEW v \in Value, Bdwrite(p, v) PROVE Allowed
    BY <1>0, <2>2, BdwriteWritten
  <2>3. ASSUME NEW v \in Value, Bawrite(p, v) \/ Bwrite(p, v) PROVE Allowed
    BY <1>0, <2>3, BwriteWritten
  <2> QED BY <1>4, <2>1, <2>2, <2>3 DEF Finish
<1>5. ASSUME NEW x \in Buf, Biodone(x) PROVE Allowed
  BY <1>0, <1>5, BiodoneSynced
<1>6. ASSUME UNCHANGED vars PROVE Allowed
  BY <1>1, <1>6 DEF vars
<1>7. Allowed
  BY <1>2, <1>3, <1>4, <1>5, <1>6 DEF Next
<1>8. Fresh(cache', disk')
  BY <1>7 DEF Unseen, Synced, Written
<1> QED BY <1>0, <1>7, <1>8 DEF RInv

\* While no transfer fails the cache is a memory with a disk behind it (Coherent): a block
\* contains what was last written to it, wherever its buffer is and whoever has it, and
\* the disk gets only what a block contains.
THEOREM CacheIsMemory ==
  ASSUME IoErrors = FALSE
  PROVE  Spec => Coherent
<1> DEFINE content == [b \in Block |-> Content(b)]
<1>1. Init => RInv /\ Store!Init
  <2> SUFFICES ASSUME Init PROVE RInv /\ Store!Init
    OBVIOUS
  <2>1. IInv /\ cache \in Cache
    BY InitGood DEF IInv, Held, Common
  <2>2. /\ \A y \in Buf : cache.flags[y] = {} /\ y \notin cache.io
        /\ disk \in [Block -> Value] /\ written = disk
    BY DEF Init
  <2>3. Fresh(cache, disk)
    BY <2>2 DEF Fresh, Clean
  <2>4. \A b \in Block : On(cache, b) = {}
    BY <2>2 DEF On, Shows
  <2>5. Shown(cache, disk) = disk
    BY <2>2, <2>4 DEF Shown
  <2>6. content = disk
    BY <2>1, <2>5, ContentShown
  <2> QED BY <2>1, <2>2, <2>3, <2>6 DEF RInv, Store!Init
<1>2. RInv /\ [Next]_vars => RInv'
  BY NextOfStore
<1>3. (cache \in Cache => content = Shown(cache, disk))'
  BY ContentShown, PTL
<1>4. RInv /\ [Next]_vars => [Store!Next]_<<written, content, disk>>
  <2> SUFFICES ASSUME RInv, [Next]_vars
               PROVE  Store!Next \/ UNCHANGED <<written, content, disk>>
    OBVIOUS
  <2>1. content = Shown(cache, disk) /\ content' = Shown(cache', disk')
    BY <1>3, NextOfStore, ContentShown DEF RInv, IInv, Held, Common
  <2> HIDE DEF content
  <2>2. ASSUME Unseen PROVE UNCHANGED <<written, content, disk>>
    BY <2>1, <2>2 DEF Unseen
  <2>3. ASSUME NEW b \in Block, Synced(b) PROVE Store!Sync(b)
    BY <2>1, <2>3 DEF Synced, Put, Store!Sync, content
  <2>4. ASSUME NEW b \in Block, NEW v \in Value, Written(b, v) PROVE Store!Write(b, v)
    BY <2>1, <2>4 DEF Written, Store!Write, content
  <2> QED BY <2>2, <2>3, <2>4, NextOfStore DEF Store!Next
<1> QED BY <1>1, <1>2, <1>4, PTL DEF Spec, Coherent, Store!Spec
================================================================================
