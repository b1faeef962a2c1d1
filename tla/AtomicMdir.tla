----------------------------- MODULE AtomicMdir -----------------------------
(***************************************************************************)
(* What a commit to a metadata pair promises, whatever happens to the      *)
(* device: lfs_dir_commit replaces the content of a directory as a whole.  *)
(* A call that returns Ok has replaced it, for good; a call that fails, or *)
(* that a power loss interrupts, has replaced it or has left it alone.     *)
(***************************************************************************)
CONSTANTS Values, NoValue

VARIABLES
  val,    \* the content a mount would find
  req,    \* the content being committed, or NoValue
  out     \* how the last call ended: "none", "ok" or "err"

Init == val \in Values /\ req = NoValue /\ out = "none"

Begin(v) == req = NoValue /\ req' = v /\ out' = "none" /\ UNCHANGED val

\* The commit is durable, the call has not returned yet.
Apply == req # NoValue /\ val' = req /\ UNCHANGED <<req, out>>

Ack   == req # NoValue /\ val' = req /\ req' = NoValue /\ out' = "ok"
Fail  == req # NoValue /\ req' = NoValue /\ out' = "err" /\ UNCHANGED val

\* Power loss: the commit in progress, if any, made it to the disk or not.
Crash ==
  /\ val' \in {val} \cup ({req} \ {NoValue})
  /\ req' = NoValue
  /\ out' = "none"

Next == (\E v \in Values : Begin(v)) \/ Apply \/ Ack \/ Fail \/ Crash

Spec == Init /\ [][Next]_<<val, req, out>>
=============================================================================
