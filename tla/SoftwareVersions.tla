--------------------------- MODULE SoftwareVersions ---------------------------
(***************************************************************************)
(* The blocks-by-software-version metrics of src/src/engine/metrics.rs,    *)
(* one of the two BlockVersions maps: threads that handle blocks count     *)
(* their block's version (handle_software_version) while the exporter      *)
(* takes the counts (the loop at the end of MetricsState::fmt).  A version *)
(* is looked up under the read lock and, if it is new, again under the     *)
(* write lock; entries are never removed.                                  *)
(***************************************************************************)
EXTENDS Integers, FiniteSets

CONSTANTS
    Handlers,       \* threads inside process_block, of any shard
    Exporter,       \* the thread that formats the metrics
    Versions,       \* software versions blocks carry
    MaxBlocks       \* bound: blocks of one version in a behaviour

ASSUME VersionsAssumption ==
    /\ Handlers # {} /\ IsFiniteSet(Handlers) /\ Exporter \notin Handlers
    /\ MaxBlocks \in Nat \ {0}

VARIABLES
    versions,       \* BlockVersions: a count for every version in the map
    readers, writer,    \* the lock around it
    scraping,       \* exporter: versions its loop has still to visit
    pc, version,    \* per handler: position, version of its block
    started,        \* history: blocks of each version handed to handlers
    exported        \* history: sum of the values exported for each version

lock == <<readers, writer>>
vars == <<versions, lock, scraping, pc, version, started, exported>>

Lock == INSTANCE RwLock WITH Threads <- Handlers \cup {Exporter}

Init ==
    /\ versions = [v \in {} |-> 0]
    /\ Lock!Free
    /\ scraping = {}
    /\ pc = [h \in Handlers |-> "idle"]
    /\ version \in [Handlers -> Versions]
    /\ started = [v \in Versions |-> 0]
    /\ exported = [v \in Versions |-> 0]

Goto(h, pos) == pc' = [pc EXCEPT ![h] = pos]

-----------------------------------------------------------------------------
\* External: a block with a software version reaches a handler.
Begin(h, v) ==
    /\ pc[h] = "idle" /\ started[v] < MaxBlocks
    /\ started' = [started EXCEPT ![v] = @ + 1]
    /\ version' = [version EXCEPT ![h] = v]
    /\ Goto(h, "lookup")
    /\ UNCHANGED <<versions, lock, scraping, exported>>

LockRead(h) ==
    /\ pc[h] = "lookup"
    /\ Lock!AcquireRead(h)
    /\ Goto(h, "reading")
    /\ UNCHANGED <<versions, scraping, version, started, exported>>

\* versions.get finds the count: fetch_add, and the read lock is released.
CountKnown(h) ==
    /\ pc[h] = "reading" /\ version[h] \in DOMAIN versions
    /\ versions' = [versions EXCEPT ![version[h]] = @ + 1]
    /\ Lock!ReleaseRead(h)
    /\ Goto(h, "idle")
    /\ UNCHANGED <<scraping, version, started, exported>>

\* drop(versions), then versions_map.write() is called.
LookupMiss(h) ==
    /\ pc[h] = "reading" /\ version[h] \notin DOMAIN versions
    /\ Lock!ReleaseRead(h)
    /\ Goto(h, "insert")
    /\ UNCHANGED <<versions, scraping, version, started, exported>>

LockWrite(h) ==
    /\ pc[h] = "insert"
    /\ Lock!RequestWrite(h)
    /\ UNCHANGED <<versions, scraping, pc, version, started, exported>>

\* Mutant: the version is taken to be new still.
CountedAnew(m, v) == [w \in DOMAIN m \cup {v} |-> IF w # v THEN m[w] ELSE 1]

\* The entry is occupied when another thread came first, vacant otherwise.
Counted(m, v) ==
    [w \in DOMAIN m \cup {v} |->
        IF w # v THEN m[w] ELSE IF v \in DOMAIN m THEN m[v] + 1 ELSE 1]

CountNew(h) ==
    /\ pc[h] = "insert"
    /\ Lock!ReleaseWrite(h)
    /\ versions' = Counted(versions, version[h])
    /\ Goto(h, "idle")
    /\ UNCHANGED <<scraping, version, started, exported>>

-----------------------------------------------------------------------------
BeginWalk ==
    /\ Lock!AcquireRead(Exporter)
    /\ scraping' = DOMAIN versions
    /\ UNCHANGED <<versions, pc, version, started, exported>>

\* Mutants: load instead of swap; a count of one is not written.
SwapLoads(v) ==
    /\ v \in scraping
    /\ exported' = [exported EXCEPT ![v] = @ + versions[v]]
    /\ scraping' = scraping \ {v}
    /\ UNCHANGED <<versions, lock, pc, version, started>>
SwapSkipsOne(v) ==
    /\ v \in scraping
    /\ exported' = [exported EXCEPT ![v] = @ + IF versions[v] > 1 THEN versions[v] ELSE 0]
    /\ versions' = [versions EXCEPT ![v] = 0]
    /\ scraping' = scraping \ {v}
    /\ UNCHANGED <<lock, pc, version, started>>

\* count.swap(0), and a value that is not zero is written.
Swap(v) ==
    /\ v \in scraping
    /\ exported' = [exported EXCEPT ![v] = @ + versions[v]]
    /\ versions' = [versions EXCEPT ![v] = 0]
    /\ scraping' = scraping \ {v}
    /\ UNCHANGED <<lock, pc, version, started>>

EndWalk ==
    /\ scraping = {}
    /\ Lock!ReleaseRead(Exporter)
    /\ UNCHANGED <<versions, scraping, pc, version, started, exported>>

Export == BeginWalk \/ EndWalk \/ \E v \in Versions : Swap(v)

Lookup(h) == CountKnown(h) \/ LookupMiss(h)

Next ==
    \/ \E h \in Handlers, v \in Versions : Begin(h, v)
    \/ \E h \in Handlers : LockRead(h) \/ Lookup(h) \/ LockWrite(h) \/ CountNew(h)
    \/ Export

\* A running thread goes on, the exporter comes back for every collection,
\* and parking_lot hands the lock to every thread that keeps asking for it.
Fairness ==
    /\ WF_vars(Export) /\ SF_vars(BeginWalk)
    /\ \A h \in Handlers :
         /\ WF_vars(Lookup(h) \/ CountNew(h))
         /\ SF_vars(LockRead(h)) /\ SF_vars(LockWrite(h))

Spec == Init /\ [][Next]_vars

FairSpec == Spec /\ Fairness

-----------------------------------------------------------------------------
Pending == [v \in Versions |-> IF v \in DOMAIN versions THEN versions[v] ELSE 0]
InHand(v) == Cardinality({h \in Handlers : pc[h] # "idle" /\ version[h] = v})

\* The walk relies on entries that are there while the read lock is held, and a
\* handler holds it only while it looks its version up.
TypeOK ==
    /\ DOMAIN versions \subseteq Versions
    /\ \A v \in DOMAIN versions : versions[v] \in Nat
    /\ Lock!LockTypeOK
    /\ scraping \subseteq DOMAIN versions
    /\ pc \in [Handlers -> {"idle", "lookup", "reading", "insert"}]
    /\ version \in [Handlers -> Versions]
    /\ readers \cap Handlers = {h \in Handlers : pc[h] = "reading"}
    /\ {started, exported} \subseteq [Versions -> Nat]

\* Every block handed to a handler is with the handler, in the map or in an
\* exported value, once, however threads race to add a new version and
\* whenever the exporter takes the count (metrics.rs:147-160, 432, 441).
BlocksCountedOnce ==
    \A v \in Versions : started[v] = InHand(v) + Pending[v] + exported[v]

Handled == [v \in Versions |-> exported[v] + Pending[v]]

Tally == INSTANCE VersionTally WITH handled <- Handled

\* What is exported and still pending together only grows, block by block,
\* and each export catches up with it.
ImplementsTally == Tally!Spec

\* Every block is reported sooner or later, the last one of a version that is
\* no longer in use, too; no thread waits for the lock for ever.
BlocksEventuallyExported ==
    \A v \in Versions, n \in 1..MaxBlocks : started[v] >= n ~> exported[v] >= n
=============================================================================
