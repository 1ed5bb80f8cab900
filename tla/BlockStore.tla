------------------------------ MODULE BlockStore -------------------------------
(***************************************************************************)
(* What a buffer cache is for: blocks that contain what was last written   *)
(* to them, and a disk that holds for each block some content it once had. *)
(* Only the current content may be written to the disk, and nothing but a  *)
(* write changes what a block contains: there are no buffers here.         *)
(***************************************************************************)
CONSTANTS Block, Value

VARIABLES written,   \* written[b]: what the last writer of block b wrote
          content,   \* content[b]: what a read of block b returns
          disk       \* disk[b]: what would be left of it after a crash

Init == disk \in [Block -> Value] /\ content = disk /\ written = disk

Write(b, v) ==
    /\ written' = [written EXCEPT ![b] = v]
    /\ content' = [content EXCEPT ![b] = v]
    /\ UNCHANGED disk

Sync(b) ==
    /\ disk' = [disk EXCEPT ![b] = content[b]]
    /\ UNCHANGED <<written, content>>

Next == \E b \in Block : Sync(b) \/ \E v \in Value : Write(b, v)

Spec == Init /\ [][Next]_<<written, content, disk>>
===============================================================================
