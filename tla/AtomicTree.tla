----------------------------- MODULE AtomicTree -----------------------------
(***************************************************************************)
(* What mkdir, remove, rename and the creation of a file promise, whatever *)
(* happens to the power: the namespace is a set of edges from directories  *)
(* to what they contain, and each call replaces some edges by others in    *)
(* one step, at most once, and never afterwards.                           *)
(***************************************************************************)
EXTENDS FiniteSets

CONSTANTS Root, Dirs, Files, Names

VARIABLES
  tree,   \* the edges <<directory, name, object>> that a mount would show
  req     \* what the running call is to change, NoChange between calls

NoChange == [del |-> {}, add |-> {}]

Apply(c, t) == (t \ c.del) \cup c.add

IsDir(t, d) == d = Root \/ \E e \in t : e[3] = d
IsEmpty(t, d) == \A e \in t : e[1] # d
At(t, d, n) == {e \in t : e[1] = d /\ e[2] = n}

Creations(t) ==
  {[del |-> {}, add |-> {e}] :
     e \in {x \in (Dirs \cup {Root}) \X Names \X (Files \cup Dirs) :
              /\ IsDir(t, x[1])
              /\ At(t, x[1], x[2]) = {}
              /\ x[3] \in Dirs => ~IsDir(t, x[3])}}

Removals(t) ==
  {[del |-> {e}, add |-> {}] : e \in {x \in t : x[3] \in Dirs => IsEmpty(t, x[3])}}

\* A move may replace an object of the same kind, a directory only if empty.
Moves(t) ==
  {[del |-> {m[1]} \cup At(t, m[2], m[3]), add |-> {<<m[2], m[3], m[1][3]>>}] :
     m \in {x \in t \X (Dirs \cup {Root}) \X Names :
              /\ IsDir(t, x[2])
              /\ \A e \in At(t, x[2], x[3]) :
                   /\ e # x[1]
                   /\ e[3] \in Dirs <=> x[1][3] \in Dirs
                   /\ e[3] \in Dirs => IsEmpty(t, e[3])}}

Init == tree = {} /\ req = NoChange

\* A call begins and has its effect at once or later.
Begin ==
  /\ req = NoChange /\ req' # NoChange
  /\ req' \in Creations(tree) \cup Removals(tree) \cup Moves(tree)
  /\ tree' \in {tree, Apply(req', tree)}

Effect == tree' = Apply(req, tree) /\ UNCHANGED req

\* The call returns, or power is lost.
End == req' = NoChange /\ UNCHANGED tree

Next == Effect \/ End \/ Begin

Spec == Init /\ [][Next]_<<tree, req>>
=============================================================================
