---------------------------- MODULE PlainEntries ----------------------------
(***************************************************************************)
(* What the entries of a directory promise, however they are logged: each  *)
(* name has at most one entry, an entry keeps its contents and attributes  *)
(* until a call changes them, and a rename takes both along.               *)
(***************************************************************************)
EXTENDS TLC

CONSTANTS
  Names,    \* the names an entry may have
  Attrs,    \* the types of attributes
  Contents, \* what a file may be synced with
  Values,   \* what an attribute may be set to
  Fresh,    \* the contents of a new file
  Missing   \* the value of an attribute that is not set

VARIABLE entries   \* for each name that is there, its contents and attributes

Bare == [a \in Attrs |-> Missing]
Without(n) == [m \in DOMAIN entries \ {n} |-> entries[m]]

Init == DOMAIN entries \subseteq Names /\ \A n \in DOMAIN entries : entries[n].attrs = Bare

Create(n) ==
  n \notin DOMAIN entries /\ entries' = entries @@ (n :> [data |-> Fresh, attrs |-> Bare])

Remove(n) == n \in DOMAIN entries /\ entries' = Without(n)

\* A file is synced: its contents, and its attributes if it was opened with some.
Sync(n, d) ==
  /\ n \in DOMAIN entries
  /\ \E as \in {entries[n].attrs} \cup {[a \in Attrs |-> v] : v \in Values} :
       entries' = [entries EXCEPT ![n] = [data |-> d, attrs |-> as]]

SetAttr(n, a, v) ==
  n \in DOMAIN entries /\ entries' = [entries EXCEPT ![n].attrs[a] = v]

Rename(n, m) ==
  n \in DOMAIN entries /\ n # m /\ entries' = (m :> entries[n]) @@ Without(n)

Next ==
  \/ \E n \in Names : Create(n) \/ Remove(n)
  \/ \E n \in Names, d \in Contents : Sync(n, d)
  \/ \E n \in Names, a \in Attrs, v \in Values \cup {Missing} : SetAttr(n, a, v)
  \/ \E n, m \in Names : Rename(n, m)

Spec == Init /\ [][Next]_entries
=============================================================================
