----------------------------- MODULE PlainFile -----------------------------
(***************************************************************************)
(* What file/ops.rs promises to an application: a file that is open is a   *)
(* sequence of bytes and a position, a call changes them in one step, and   *)
(* what is on disk is what it was at the last sync, whatever fails and      *)
(* whenever the power is lost.  Nothing is promised of a handle after an    *)
(* error that it remembers.                                                *)
(***************************************************************************)
EXTENDS Integers

CONSTANTS
  MaxSize,      \* no file is longer
  Stamps,       \* one for each write, to tell their bytes apart
  Zero,         \* a byte that nobody wrote
  Unknown       \* bytes that nothing is promised of

VARIABLES
  status,       \* "closed", "open", or "erred"
  content,      \* the bytes the handle has
  position,
  call,         \* the call in progress and its argument
  got,          \* what a read that has just returned has read
  failed,       \* the last call returned an error
  saved         \* the bytes the disk has

vars == <<status, content, position, call, got, failed, saved>>

Calls == {"write", "read", "seek", "truncate", "sync", "close"}
NoCall == <<"none", 0>>
NoBytes == [p \in {} |-> Unknown]
Size == IF content = NoBytes THEN 0
        ELSE CHOOSE n \in 1 .. MaxSize : DOMAIN content = 0 .. n - 1
Positions == 0 .. MaxSize
Least(a, b) == IF a < b THEN a ELSE b

Init == status = "closed" /\ content = NoBytes /\ position = 0 /\ call = NoCall
        /\ got = NoBytes /\ failed = FALSE /\ saved = NoBytes

Open ==
  /\ status = "closed" /\ status' = "open"
  /\ content' \in {saved, NoBytes}
  /\ position' = 0
  /\ UNCHANGED <<call, got, failed, saved>>

Call ==
  /\ status = "open" /\ call = NoCall
  /\ call' \in Calls \X Positions
  /\ got' = NoBytes /\ failed' = FALSE
  /\ UNCHANGED <<status, content, position, saved>>

Returns(op) == call[1] = op /\ call' = NoCall

\* Bytes are written at the position, or at the end by a handle that appends,
\* and the gap between the old end and the first of them is filled.
Byte(k, p) == <<"data", k, p>>
Write ==
  /\ Returns("write")
  /\ \E from \in {position, Size}, k \in Stamps :
       LET to == from + call[2]
       IN  /\ position' = to
           /\ content' = [p \in {q \in Positions : q < Size \/ q < to} |->
                            IF from <= p /\ p < to THEN Byte(k, p)
                            ELSE IF p < Size THEN content[p] ELSE Zero]
  /\ UNCHANGED <<status, got, failed, saved>>

Resized(n) == [p \in 0 .. n - 1 |-> IF p < Size THEN content[p] ELSE Zero]

Truncate ==
  /\ Returns("truncate")
  /\ content' = Resized(call[2])
  /\ UNCHANGED <<status, position, got, failed, saved>>

Read ==
  /\ Returns("read")
  /\ LET n == IF position < Size THEN Least(call[2], Size - position) ELSE 0
     IN  /\ got' = [i \in 0 .. n - 1 |-> content[position + i]]
         /\ position' = position + n
  /\ UNCHANGED <<status, content, failed, saved>>

Seek ==
  /\ Returns("seek")
  /\ position' = call[2]
  /\ UNCHANGED <<status, content, got, failed, saved>>

\* A sync that returns Ok has saved the bytes, now or before.
Save ==
  /\ call[1] \in {"sync", "close"}
  /\ saved' = content
  /\ UNCHANGED <<status, content, position, call, got, failed>>

Sync ==
  /\ Returns("sync")
  /\ saved = content
  /\ UNCHANGED <<status, content, position, got, failed, saved>>

\* A handle may be closed, or lost with the power, without a sync.
Lose ==
  /\ status' = "closed" /\ content' = NoBytes /\ position' = 0
  /\ call' = NoCall /\ got' = NoBytes /\ failed' = FALSE
  /\ UNCHANGED saved

\* An error that leaves the bytes as they are, or those of a truncate that got
\* as far as moving back to its position; or one that promises nothing.
Fail ==
  /\ call # NoCall /\ call' = NoCall
  /\ \/ /\ status' = "open" /\ position' \in Positions
        /\ failed' = TRUE
        /\ content' = content \/ (call[1] = "truncate" /\ content' = Resized(call[2]))
     \/ status' = "erred" /\ content' = Unknown /\ position' = 0 /\ failed' = FALSE
  /\ UNCHANGED <<got, saved>>

\* What a handle saves after an error and a write that succeeded.
SaveAfterError ==
  /\ status = "erred"
  /\ saved' # saved
  /\ UNCHANGED <<status, content, position, call, got, failed>>

Next == Open \/ Call \/ Write \/ Truncate \/ Read \/ Seek \/ Save \/ Sync \/ Lose \/ Fail
        \/ SaveAfterError

Spec == Init /\ [][Next]_vars
=============================================================================
