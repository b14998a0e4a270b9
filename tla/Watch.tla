--------------------------------- MODULE Watch ---------------------------------
(***************************************************************************)
(* External: the tokio::sync::watch channel that carries validator sets    *)
(* from src/src/engine/ton_subscriber.rs:319 to the resolver, with its     *)
(* single receiver.  Only the newest value is kept.                        *)
(***************************************************************************)
VARIABLES
    value,          \* the newest value sent
    fresh,          \* the receiver has not seen it
    closed          \* the sender was dropped

channel == <<value, fresh, closed>>

\* The receiver is subscribed to the value the channel was made with.
Subscribed(v) == value = v /\ fresh = FALSE /\ closed = FALSE

\* Never fails and always notifies, be the value the same as before.
SendReplace(v) ==
    /\ ~closed
    /\ value' = v /\ fresh' = TRUE
    /\ UNCHANGED closed

DropSender == ~closed /\ closed' = TRUE /\ UNCHANGED <<value, fresh>>

BorrowAndUpdate == fresh' = FALSE /\ UNCHANGED <<value, closed>>

\* changed() returns Ok: a value that was sent before the close counts.
ChangedOk == fresh /\ BorrowAndUpdate

\* changed() returns Err.
ChangedErr == ~fresh /\ closed /\ UNCHANGED channel
=============================================================================
