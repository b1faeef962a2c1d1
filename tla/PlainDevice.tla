----------------------------- MODULE PlainDevice -----------------------------
(***************************************************************************)
(* What bd/bd.rs promises to its callers: a device without caches.  What a *)
(* caller programs is what it reads until it erases the block again, up to *)
(* where it writes without validation, or was told that the block is bad.  *)
(***************************************************************************)
EXTENDS Naturals

CONSTANTS Blocks, BlockSize, Bytes, Erased

VARIABLES
  mem,      \* what a read of each byte returns
  open,     \* blocks that are being programmed
  firm      \* how many bytes of each block the caller may rely on

Offsets == 0 .. BlockSize - 1
Images == [Offsets -> Bytes]

Init ==
  /\ mem \in [Blocks -> Images]
  /\ open = {}
  /\ firm = [b \in Blocks |-> BlockSize]

\* A bad block may ignore the erase.
Erase(b) ==
  /\ b \notin open
  /\ open' = open \cup {b}
  /\ \/ mem' = [mem EXCEPT ![b] = [i \in Offsets |-> Erased]]
     \/ UNCHANGED mem
  /\ \E n \in {0, BlockSize} : firm' = [firm EXCEPT ![b] = n]

EraseFails(b) ==
  /\ b \notin open
  /\ firm' = [firm EXCEPT ![b] = 0]
  /\ UNCHANGED <<mem, open>>

Append(b) ==
  /\ b \notin open
  /\ open' = open \cup {b}
  /\ \E n \in 0 .. BlockSize : firm' = [firm EXCEPT ![b] = n]
  /\ UNCHANGED mem

Program(b) ==
  /\ b \in open
  /\ \E s \in Bytes, i, j \in Offsets :
       mem' = [mem EXCEPT ![b] = [k \in Offsets |-> IF i <= k /\ k <= j THEN s ELSE @[k]]]
  /\ UNCHANGED <<open, firm>>

\* A write without validation may do nothing, and nothing tells.
Lose(b) ==
  /\ b \in open
  /\ \E image \in Images :
       /\ \A i \in 0 .. firm[b] - 1 : image[i] = mem[b][i]
       /\ mem' = [mem EXCEPT ![b] = image]
  /\ UNCHANGED <<open, firm>>

\* The last flush of a file's block, or the read-back of a commit.
Close(b) ==
  /\ b \in open
  /\ open' = open \ {b}
  /\ firm' = [firm EXCEPT ![b] = BlockSize]
  /\ UNCHANGED mem

\* The caller was told that the block is bad.
GiveUp(b) ==
  /\ b \in open
  /\ open' = open \ {b}
  /\ \E n \in 0 .. firm[b] : firm' = [firm EXCEPT ![b] = n]
  /\ \E image \in Images :
       /\ \A i \in 0 .. firm'[b] - 1 : image[i] = mem[b][i]
       /\ mem' = [mem EXCEPT ![b] = image]

Next == \E b \in Blocks :
  \/ Erase(b) \/ EraseFails(b) \/ Append(b)
  \/ Program(b) \/ Lose(b) \/ Close(b) \/ GiveUp(b)

Spec == Init /\ [][Next]_<<mem, open, firm>>
=============================================================================
