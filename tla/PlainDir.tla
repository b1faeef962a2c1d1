------------------------------ MODULE PlainDir ------------------------------
(***************************************************************************)
(* What a directory promises to those who have it open.  It is a set of    *)
(* names.  A reader has a set of names ahead of it and is given the least  *)
(* of them until none is left: a name that is there from the rewind to the *)
(* end is returned once, one that comes or goes meanwhile may be missed.   *)
(* An open file has the entry it was opened at until that is deleted.      *)
(***************************************************************************)
EXTENDS Integers, FiniteSets, FiniteSetsExt

CONSTANTS
  Names,     \* the names an entry may have, ordered as integers
  Handles,   \* what can be open
  Shut,      \* the state of a handle that is not open
  Gone       \* the entry of an open file whose entry was deleted

VARIABLES
  names,   \* the names in the directory
  ahead,   \* for each reader, the names it will be given
  entry    \* for each open file, its name

vars == <<names, ahead, entry>>

IsFree(h) == ahead[h] = Shut /\ entry[h] = Shut

\* Readers lose the names that go and may or may not meet those that come.
Changes(gone, come) ==
  /\ names' = (names \ gone) \cup come
  /\ LET was == ahead
         is == ahead'
     IN /\ DOMAIN is = Handles
        /\ \A h \in Handles :
             IF was[h] = Shut THEN is[h] = Shut
             ELSE is[h] \ come = was[h] \ (gone \cup come) /\ is[h] \subseteq names'

Lost(gone) == [h \in Handles |-> IF entry[h] \in gone THEN Gone ELSE entry[h]]

Init ==
  /\ names = {}
  /\ ahead = [h \in Handles |-> Shut]
  /\ entry = [h \in Handles |-> Shut]

Create(n) == n \notin names /\ Changes({}, {n}) /\ UNCHANGED entry

CreateFile(h, n) ==
  /\ n \notin names /\ IsFree(h)
  /\ Changes({}, {n})
  /\ entry' = [entry EXCEPT ![h] = n]

RemoveName(n) == n \in names /\ Changes({n}, {}) /\ entry' = Lost({n})

\* A file that is open under either name loses its entry.
Rename(a, b) == a \in names /\ a # b /\ Changes({a, b}, {b}) /\ entry' = Lost({a, b})

OpenFile(h, n) ==
  /\ IsFree(h) /\ n \in names
  /\ entry' = [entry EXCEPT ![h] = n] /\ UNCHANGED ahead

CloseFile(h) == entry' = [entry EXCEPT ![h] = Shut] /\ UNCHANGED ahead

CloseDir(h) == ahead' = [ahead EXCEPT ![h] = Shut] /\ UNCHANGED entry

\* Opening, rewinding and seeking: some names are passed over, those first in order.
Place(h) ==
  /\ UNCHANGED entry /\ entry[h] = Shut
  /\ LET there == ahead'[h]
         passed == names \ there
     IN /\ there # Shut /\ there \subseteq names
        /\ \A p \in passed, n \in there : p < n
        /\ ahead' = [ahead EXCEPT ![h] = there]

Read(h) ==
  /\ UNCHANGED entry
  /\ LET left == ahead[h]
     IN left # Shut /\ left # {} /\ ahead' = [ahead EXCEPT ![h] = left \ {Min(left)}]

\* Only the first four change the names: which come and go says which they are.
Next ==
  \/ \E n \in names' \ names : Create(n) \/ \E h \in Handles : CreateFile(h, n)
  \/ \E n \in names \ names' : RemoveName(n) \/ \E b \in names' : Rename(n, b)
  \/ UNCHANGED names /\ \E h \in Handles :
       \/ CloseFile(h) \/ CloseDir(h) \/ Read(h) \/ Place(h)
       \/ \E n \in Names : OpenFile(h, n)

Spec == Init /\ [][Next]_vars
=============================================================================
