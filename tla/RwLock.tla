-------------------------------- MODULE RwLock --------------------------------
(***************************************************************************)
(* External: parking_lot::RwLock as src/src/engine/metrics.rs uses it.     *)
(* Readers share the lock.  A writer first shuts out newcomers and then    *)
(* waits for the readers inside to leave; until it releases, nobody else   *)
(* gets in.                                                                *)
(***************************************************************************)
CONSTANT Threads

VARIABLES
    readers,        \* threads that hold the lock shared
    writer          \* the thread that shut out newcomers, or none: {}

lockVars == <<readers, writer>>

Free == readers = {} /\ writer = {}

LockTypeOK ==
    /\ readers \subseteq Threads
    /\ writer = {} \/ \E t \in Threads : writer = {t}

AcquireRead(t) ==
    /\ t \notin readers /\ writer = {}
    /\ readers' = readers \cup {t}
    /\ UNCHANGED writer

ReleaseRead(t) ==
    /\ t \in readers
    /\ readers' = readers \ {t}
    /\ UNCHANGED writer

RequestWrite(t) ==
    /\ writer = {}
    /\ writer' = {t}
    /\ UNCHANGED readers

HoldsWrite(t) == writer = {t} /\ readers = {}

ReleaseWrite(t) ==
    /\ HoldsWrite(t)
    /\ writer' = {}
    /\ UNCHANGED readers
=============================================================================
