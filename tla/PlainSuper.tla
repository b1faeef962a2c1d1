----------------------------- MODULE PlainSuper -----------------------------
(*  What the superblock promises, as if there were just one: it is there from *)
(*  a format on, a mount is refused exactly when the configuration does not   *)
(*  fit it or the list of pairs is damaged, and each call that changes it, or *)
(*  the root's entries, does so in one step, and returns Ok only then.        *)
EXTENDS Naturals

CONSTANTS Counts, Maxes, Vals,    \* block counts, limits, contents of the root
          Minor                   \* LFS_DISK_VERSION_MINOR

VARIABLES fs,        \* the filesystem on the device, or None
          mounted,   \* whether it is mounted
          call,      \* the running call and its argument
          answer     \* what the last call returned

None == [minor |-> 0, count |-> 0, max |-> 0, val |-> 0, sound |-> FALSE]

Quiet == [kind |-> "none", arg |-> 0]

Filesystems == [minor: Nat, count: Counts, max: {0} \union Maxes, val: Vals,
                sound: BOOLEAN]

\* whether a configuration fits: 0 means "take the count from the device"
Fits(cfg) == /\ fs.minor <= Minor
             /\ fs.max <= cfg.max
             /\ cfg.count \in {0, fs.count}

Init == /\ fs = None \/ fs.sound
        /\ ~mounted
        /\ call = Quiet
        /\ answer = "none"

Ask == /\ call = Quiet
       /\ call'.kind \in IF mounted THEN {"put", "grow"}
                                    ELSE {"format", "mount"}
       /\ answer' = "none"
       /\ UNCHANGED <<fs, mounted>>

\* the first call that writes brings an older version up to date, and fixes a
\* limit that was left open
Upgrade == /\ mounted /\ call.kind = "put"
           /\ fs.minor < Minor
           /\ fs.max # 0 => fs'.max = fs.max
           /\ fs' = [fs EXCEPT !.minor = Minor, !.max = fs'.max]
           /\ UNCHANGED <<mounted, call, answer>>

Put == /\ call.kind = "put"
       /\ fs.minor = Minor
       /\ fs' = [fs EXCEPT !.val = call.arg]

Grow == /\ call.kind = "grow"
        /\ fs' = [fs EXCEPT !.count = call.arg]

\* a call has its effect and returns Ok, or has none and returns an error
Return == /\ mounted
          /\ \/ (Put \/ Grow) /\ answer' = "Ok"
             \/ call # Quiet /\ answer' = "Io" /\ UNCHANGED fs
          /\ call' = Quiet
          /\ UNCHANGED mounted

Mount == /\ call.kind = "mount"
         /\ \/ fs.sound /\ Fits(call.arg) /\ answer' = "Ok"
            \/ ~Fits(call.arg) /\ answer' = "Invalid"
            \/ ~fs.sound /\ answer' = "Corrupt"
         /\ mounted' = (answer' = "Ok")
         /\ call' = Quiet
         /\ UNCHANGED fs

Format == /\ call.kind = "format"
          /\ fs' = [minor |-> Minor, count |-> call.arg.count,
                    max |-> call.arg.max, val |-> 0, sound |-> TRUE]
          /\ call' = Quiet /\ answer' = "Ok"
          /\ UNCHANGED mounted

\* power loss or unmount: what was done stays
Lose == /\ mounted' = FALSE /\ call' = Quiet /\ answer' = "none"
        /\ UNCHANGED fs

\* the list of pairs is overwritten from outside
Damage == /\ ~mounted /\ call = Quiet
          /\ ~fs'.sound
          /\ UNCHANGED <<mounted, call, answer>>

Next == Ask \/ Upgrade \/ Return \/ Mount \/ Format \/ Lose \/ Damage

Spec == Init /\ [][Next]_<<fs, mounted, call, answer>>
=============================================================================
