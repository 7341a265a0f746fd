------------------------------- MODULE Mutex --------------------------------
(***************************************************************************)
(* What SpinMutex promises to its users (kernel/src/lock.rs): a lock has   *)
(* at most one owner, locks nest in the order Nesting, and no interrupt    *)
(* handler runs on a CPU that owns a lock or takes one from a handler.     *)
(***************************************************************************)
EXTENDS Integers

CONSTANTS Cpus, Locks, Nesting

VARIABLES
    owner,      \* the CPU that owns each lock, or -1
    handling    \* the CPUs that are in an interrupt handler

vars == <<owner, handling>>

Init ==
    /\ owner = [l \in Locks |-> -1]
    /\ handling = {}

Take(c, l) ==
    /\ owner[l] = -1 /\ c \notin handling
    /\ \A h \in Locks : owner[h] = c => <<h, l>> \in Nesting
    /\ owner' = [owner EXCEPT ![l] = c]
    /\ UNCHANGED handling

Give(c, l) ==
    /\ owner[l] = c /\ c \notin handling
    /\ owner' = [owner EXCEPT ![l] = -1]
    /\ UNCHANGED handling

EnterHandler(c) ==
    /\ c \notin handling /\ \A l \in Locks : owner[l] # c
    /\ handling' = handling \cup {c}
    /\ UNCHANGED owner

LeaveHandler(c) ==
    /\ c \in handling
    /\ handling' = handling \ {c}
    /\ UNCHANGED owner

Next ==
    \E c \in Cpus :
        \/ EnterHandler(c) \/ LeaveHandler(c)
        \/ \E l \in Locks : Take(c, l) \/ Give(c, l)

Spec == Init /\ [][Next]_vars
=============================================================================
