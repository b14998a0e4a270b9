------------------------------- MODULE Resolver -------------------------------
(***************************************************************************)
(* The task that looks up the addresses of the validators in the DHT,      *)
(* resolve_node_addresses of src/src/engine/ton_subscriber.rs, and the     *)
(* validator_ips map it fills.  All lookups of a round are polled inside   *)
(* the one task, so whatever happens between two awaits is one step, and   *)
(* dropping the round drops its lookups and their permits.                 *)
(***************************************************************************)
EXTENDS Integers, FiniteSets

CONSTANTS
    Validators,     \* public keys
    MaxParallel     \* MAX_PARALLEL_REQUESTS

ASSUME ResolverAssumption ==
    /\ IsFiniteSet(Validators)
    /\ MaxParallel \in Nat \ {0}

\* A validator set: its keys, and those of them that have an adnl_addr.
ValidatorSet == {s \in [keys : SUBSET Validators, adnl : SUBSET Validators] : s.adnl \subseteq s.keys}
DefaultSet == [keys |-> {}, adnl |-> {}]

VARIABLES
    value, fresh, closed,   \* the channel validators_to_resolve
    validator_ips,  \* MetricsState: the keys an address is shown for
    validator_set, remaining,   \* of the loop in hand
    futures,        \* keys whose lookup is not complete
    permits,        \* keys whose lookup holds a permit of the semaphore
    pc

Chan == INSTANCE Watch

channel == <<value, fresh, closed>>
lookups == <<futures, permits>>
vars == <<channel, validator_ips, validator_set, remaining, lookups, pc>>

Init ==
    /\ Chan!Subscribed(DefaultSet)
    /\ validator_ips = {}
    /\ validator_set = DefaultSet
    /\ remaining = {} /\ futures = {} /\ permits = {}
    /\ pc = "borrow"

-----------------------------------------------------------------------------
\* The subscriber sends a set; it is dropped when the process shuts down.
Send(s) == Chan!SendReplace(s) /\ UNCHANGED <<validator_ips, validator_set, remaining, lookups, pc>>
Shutdown == Chan!DropSender /\ UNCHANGED <<validator_ips, validator_set, remaining, lookups, pc>>

Borrow ==
    /\ pc = "borrow"
    /\ Chan!BorrowAndUpdate
    /\ validator_set' = value
    /\ pc' = "clear"
    /\ UNCHANGED <<validator_ips, remaining, lookups>>

\* Mutant: the addresses of the last set are kept.
ClearKeepsIps ==
    /\ pc = "clear"
    /\ remaining' = validator_set.keys
    /\ pc' = "round"
    /\ UNCHANGED <<channel, validator_ips, validator_set, lookups>>

\* clear_validator_ips, and remaining is filled.
Clear ==
    /\ pc = "clear"
    /\ validator_ips' = {}
    /\ remaining' = validator_set.keys
    /\ pc' = "round"
    /\ UNCHANGED <<channel, validator_set, lookups>>

\* The first round, or another one when the 5 seconds of INTERVAL are over.  A
\* validator without an address to ask for is dropped, the others get a future
\* each.
StartRound ==
    /\ pc \in {"round", "sleep"}
    /\ remaining' = remaining \cap validator_set.adnl
    /\ futures' = remaining'
    /\ pc' = "lookup"
    /\ UNCHANGED <<channel, validator_ips, validator_set, permits>>

Acquire(v) ==
    /\ pc = "lookup" /\ v \in futures \ permits
    /\ Cardinality(permits) < MaxParallel
    /\ permits' = permits \cup {v}
    /\ UNCHANGED <<channel, validator_ips, validator_set, remaining, futures, pc>>

\* The lookup ends and its permit is dropped.
Complete(v) ==
    /\ pc = "lookup" /\ v \in permits
    /\ futures' = futures \ {v}
    /\ permits' = permits \ {v}
    /\ UNCHANGED <<channel, validator_set, pc>>

Found(v) ==
    /\ Complete(v)
    /\ validator_ips' = validator_ips \cup {v}
    /\ remaining' = remaining \ {v}

\* Mutant: a failed lookup counts as done.
NotFoundGivesUp(v) ==
    /\ Complete(v)
    /\ remaining' = remaining \ {v}
    /\ UNCHANGED validator_ips

NotFound(v) ==
    /\ Complete(v)
    /\ UNCHANGED <<validator_ips, remaining>>

\* Mutant: a round is not repeated.
EndRoundForGood ==
    /\ pc = "lookup" /\ futures = {}
    /\ pc' = "wait"
    /\ UNCHANGED <<channel, validator_ips, validator_set, remaining, lookups>>

\* futures.next() returns None: resolve returns or sleeps.
EndRound ==
    /\ pc = "lookup" /\ futures = {}
    /\ pc' = IF remaining = {} THEN "wait" ELSE "sleep"
    /\ UNCHANGED <<channel, validator_ips, validator_set, remaining, lookups>>

\* Mutant: the round is finished first.
ChangedWhenResolved ==
    /\ pc = "wait"
    /\ Chan!ChangedOk
    /\ pc' = "borrow"
    /\ UNCHANGED <<validator_ips, validator_set, remaining, lookups>>

\* A new set ends the wait for one, or the round in hand with its lookups.
Changed ==
    /\ pc \in {"lookup", "sleep", "wait"}
    /\ Chan!ChangedOk
    /\ futures' = {} /\ permits' = {}
    /\ pc' = "borrow"
    /\ UNCHANGED <<validator_ips, validator_set, remaining>>

Stop ==
    /\ pc \in {"lookup", "sleep", "wait"}
    /\ Chan!ChangedErr
    /\ futures' = {} /\ permits' = {}
    /\ pc' = "stopped"
    /\ UNCHANGED <<validator_ips, validator_set, remaining>>

Answer(v) == Found(v) \/ NotFound(v)
Advance == Borrow \/ Clear \/ StartRound \/ EndRound

Next ==
    \/ \E s \in ValidatorSet : Send(s)
    \/ Shutdown
    \/ Advance \/ Changed \/ Stop
    \/ \E v \in Validators : Acquire(v) \/ Answer(v)

\* A task that can go on is polled; find_address returns, with an address or
\* without.
Fairness ==
    /\ WF_vars(Advance) /\ WF_vars(Changed) /\ WF_vars(Stop)
    /\ WF_vars(\E v \in Validators : Acquire(v))
    /\ \A v \in Validators : WF_vars(Answer(v))

Spec == Init /\ [][Next]_vars

FairSpec == Spec /\ Fairness

-----------------------------------------------------------------------------
\* A permit belongs to a lookup of the round in hand, so that a cancelled round
\* gives all of them back.
TypeOK ==
    /\ {value, validator_set} \subseteq ValidatorSet
    /\ {fresh, closed} \subseteq BOOLEAN
    /\ validator_ips \subseteq Validators
    /\ remaining \subseteq Validators /\ futures \subseteq remaining
    /\ permits \subseteq futures /\ Cardinality(permits) <= MaxParallel
    /\ pc \in {"borrow", "clear", "round", "lookup", "sleep", "wait", "stopped"}

\* Addresses are shown for validators of the set that is being resolved only,
\* but for the moment between taking a new set and clearing: no lookup of a
\* cancelled round writes its answer late (ton_subscriber.rs:414, 443, 478).
IpsOfTheSet == pc # "clear" => validator_ips \subseteq validator_set.adnl

\* While a set is being resolved every validator of it that has an adnl
\* address is either shown or still looked for, and not both; the task waits
\* for a new set only when all are shown (ton_subscriber.rs:429-435, 457-465).
NobodyForgotten ==
    /\ pc \in {"lookup", "sleep", "wait"} =>
          /\ validator_ips \cup remaining = validator_set.adnl
          /\ validator_ips \cap remaining = {}
    /\ pc = "wait" => remaining = {}

\* A set that was sent is taken up although the lookups of the one before fail
\* for ever, or another one replaces it in the channel, or the process ends;
\* no notification is lost, whenever the set is sent (ton_subscriber.rs:412,
\* 471-482).
SetTakenUp ==
    \A s \in ValidatorSet :
        value = s /\ fresh ~> value # s \/ validator_set = s \/ pc = "stopped"

\* If the DHT finds a validator after enough attempts, and sets cease to come,
\* all addresses of the last set get shown.
AllResolved ==
    (\A v \in Validators : SF_vars(Found(v))) /\ <>[](~fresh /\ ~closed) =>
        <>[](validator_set = value /\ validator_ips = value.adnl)
=============================================================================
