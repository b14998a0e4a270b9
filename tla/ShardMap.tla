------------------------------- MODULE ShardMap -------------------------------
(***************************************************************************)
(* MetricsState::shards of src/src/engine/metrics.rs: the map from shard   *)
(* to its metrics, behind one RwLock, while the shards of the workchain    *)
(* split and merge.  Threads handling blocks update it                     *)
(* (update_shard_chain_stats, force_update_shard_chain_stats), the         *)
(* exporter walks it under the read lock.  What is inside an entry is the  *)
(* subject of ShardState; here an entry is its number of samples not yet   *)
(* exported.                                                               *)
(*                                                                         *)
(* A shard is the path of split decisions from the workchain: <<>> is the  *)
(* whole workchain, <<0>> and <<1>> its two halves, and so on.             *)
(***************************************************************************)
EXTENDS Integers, Sequences, SequencesExt, FiniteSets

CONSTANTS
    Handlers,       \* threads inside process_block for shard blocks
    Exporter,       \* the thread that formats the metrics
    MaxDepth,       \* deepest split (60 in ton_block)
    MaxSamples,     \* bound: samples due for a shard when a block arrives
    MaxMissed,      \* bound: first blocks missed between two restarts
    Overlap         \* may blocks of one shard be handled at the same time?

ASSUME MapAssumption ==
    /\ Handlers # {} /\ IsFiniteSet(Handlers) /\ Exporter \notin Handlers
    /\ MaxDepth \in Nat /\ MaxSamples \in Nat \ {0} /\ MaxMissed \in Nat
    /\ Overlap \in BOOLEAN

Shard == UNION {[1..d -> {0, 1}] : d \in 0..MaxDepth}
Workchain == <<>>
Left(s) == Append(s, 0)
Right(s) == Append(s, 1)
Children(s) == {Left(s), Right(s)}
Parent(s) == Front(s)

\* What a handler does: waiting for the read lock, holding it, waiting for the
\* write lock after a miss, waiting for the write lock with a first block.
Task ==
    [at : {"idle", "lookup", "reading", "insert"}, shard : Shard, kind : {"normal"}]
    \cup [at : {"force"}, shard : Shard, kind : {"split", "merge"}]
NoTask == [at |-> "idle", shard |-> Workchain, kind |-> "normal"]

VARIABLES
    live,           \* external: the shards of the current configuration
    first,          \* external: first blocks to come, by the kind of change
    map,            \* shards: samples not exported, for every entry
    readers, writer,    \* the lock around it
    scraping,       \* exporter: entries its loop has still to visit
    task,           \* per handler: what it does, and the block it has
    due,            \* history: samples of a shard that must be in its entry
    missed,         \* history: first blocks missed since the last restart
    left            \* history: entries that a missed first block left behind

chainVars == <<live, first>>
lock == <<readers, writer>>
history == <<missed, left>>
vars == <<chainVars, map, lock, scraping, task, due, history>>

Lock == INSTANCE RwLock WITH Threads <- Handlers \cup {Exporter}

NoEntries == [s \in {} |-> 0]

Idle(h) == task[h] = NoTask
At(h, pos) == task[h].at = pos
Busy(s) == \E h \in Handlers : ~Idle(h) /\ task[h].shard = s
FirstInFlight(s) == \E h \in Handlers : At(h, "force") /\ task[h].shard = s

\* The first block of the shard after the change that made it was handled, or
\* missed.
Settled(s) == first[s] = "none" /\ ~FirstInFlight(s)

Init ==
    /\ live = {Workchain}
    /\ first = [s \in Shard |-> "none"]
    /\ map = NoEntries
    /\ Lock!Free /\ scraping = {}
    /\ task = [h \in Handlers |-> NoTask]
    /\ due = [s \in Shard |-> 0]
    /\ missed = 0 /\ left = {}

-----------------------------------------------------------------------------
(* External: the chain.  A shard is replaced after its last block was      *)
(* handled, and the halves of a split are both registered in one           *)
(* masterchain block, whose shard blocks the indexer applies before it     *)
(* turns to the next one: no half is replaced before both had a block.     *)

MayChange(s) ==
    /\ s \in live /\ Settled(s) /\ ~Busy(s)
    /\ s # Workchain => \A c \in Children(Parent(s)) \cap live : Settled(c)

SplitShard(s) ==
    /\ MayChange(s) /\ Len(s) < MaxDepth
    /\ live' = (live \ {s}) \cup Children(s)
    /\ first' = [t \in Shard |-> IF t \in Children(s) THEN "split" ELSE first[t]]
    /\ UNCHANGED <<map, lock, scraping, task, due, history>>

MergeShards(s) ==
    /\ \A c \in Children(s) : c \in Shard /\ MayChange(c)
    /\ live' = (live \ Children(s)) \cup {s}
    /\ first' = [first EXCEPT ![s] = "merge"]
    /\ UNCHANGED <<map, lock, scraping, task, due, history>>

\* The process is restarted: the metrics start from nothing.  A first block
\* that was being handled comes again, unless it was stored as applied.
Restart ==
    /\ \E again \in SUBSET {h \in Handlers : At(h, "force")} :
         first' = [s \in Shard |->
                     IF \E h \in again : task[h].shard = s
                       THEN (CHOOSE b \in {task[h] : h \in again} : b.shard = s).kind
                       ELSE first[s]]
    /\ task' = [h \in Handlers |-> NoTask]
    /\ map' = NoEntries
    /\ readers' = {} /\ writer' = {} /\ scraping' = {}
    /\ due' = [s \in Shard |-> 0]
    /\ missed' = 0 /\ left' = {}
    /\ UNCHANGED live

-----------------------------------------------------------------------------
(* Handlers: the shard branch of TonSubscriber::update_metrics             *)

Goto(h, pos) == task' = [task EXCEPT ![h].at = pos]
Finish(h) == task' = [task EXCEPT ![h] = NoTask]

\* A block that cannot be decoded, or comes without a state, changes nothing
\* here: only blocks that get to the metrics are begun.
BeginNormal(h, s) ==
    /\ Idle(h) /\ s \in live /\ first[s] = "none"
    /\ Overlap \/ ~Busy(s)
    /\ due[s] < MaxSamples
    /\ task' = [task EXCEPT ![h] = [at |-> "lookup", shard |-> s, kind |-> "normal"]]
    /\ UNCHANGED <<chainVars, map, lock, scraping, due, history>>

\* The block has after_split or after_merge set.
BeginFirst(h, s) ==
    /\ Idle(h) /\ first[s] # "none"
    /\ due[s] < MaxSamples
    /\ task' = [task EXCEPT ![h] = [at |-> "force", shard |-> s, kind |-> first[s]]]
    /\ first' = [first EXCEPT ![s] = "none"]
    /\ UNCHANGED <<live, map, lock, scraping, due, history>>

\* The first block is missed: it comes without a state, or reading it (its
\* account blocks, its prev_ids) fails.  It is logged, counts as handled, and
\* what it should have removed stays.
SkipFirst(s) ==
    /\ first[s] # "none" /\ missed < MaxMissed
    /\ first' = [first EXCEPT ![s] = "none"]
    /\ missed' = missed + 1
    /\ LET outdated == IF first[s] = "split" THEN {Parent(s)} ELSE Children(s)
       IN  left' = (left \ {s}) \cup (outdated \cap DOMAIN map)
    /\ UNCHANGED <<live, map, lock, scraping, task, due>>

\* Mutant: the entry is not looked up again under the write lock.
EntryAnew(m, s) == [t \in DOMAIN m \cup {s} |-> IF t = s THEN 1 ELSE m[t]]

\* An occupied entry is updated, a vacant one starts with this block.
Entry(m, s) ==
    [t \in DOMAIN m \cup {s} |->
        (IF t \in DOMAIN m THEN m[t] ELSE 0) + (IF t = s THEN 1 ELSE 0)]

LockRead(h) ==
    /\ At(h, "lookup")
    /\ Lock!AcquireRead(h)
    /\ Goto(h, "reading")
    /\ UNCHANGED <<chainVars, map, scraping, due, history>>

\* The entry is found: it is updated and the read lock released at the end.
LookupHit(h) ==
    /\ At(h, "reading") /\ task[h].shard \in DOMAIN map
    /\ map' = [map EXCEPT ![task[h].shard] = @ + 1]
    /\ due' = [due EXCEPT ![task[h].shard] = @ + 1]
    /\ Lock!ReleaseRead(h)
    /\ Finish(h)
    /\ UNCHANGED <<chainVars, scraping, history>>

\* Mutant: the read lock is held while the write lock is requested.
LookupMissKeepsLock(h) ==
    /\ At(h, "reading") /\ task[h].shard \notin DOMAIN map
    /\ Goto(h, "insert")
    /\ UNCHANGED <<chainVars, map, lock, scraping, due, history>>

\* drop(shards), then the write lock is requested.
LookupMiss(h) ==
    /\ At(h, "reading") /\ task[h].shard \notin DOMAIN map
    /\ Lock!ReleaseRead(h)
    /\ Goto(h, "insert")
    /\ UNCHANGED <<chainVars, map, scraping, due, history>>

LockWrite(h) ==
    /\ At(h, "insert") \/ At(h, "force")
    /\ Lock!RequestWrite(h)
    /\ UNCHANGED <<chainVars, map, scraping, task, due, history>>

\* Under the write lock the entry is looked up again: it may be there by now.
Insert(h) ==
    /\ At(h, "insert")
    /\ Lock!ReleaseWrite(h)
    /\ map' = Entry(map, task[h].shard)
    /\ due' = [due EXCEPT ![task[h].shard] = @ + 1]
    /\ Finish(h)
    /\ UNCHANGED <<chainVars, scraping, history>>

\* Mutants: the parent goes with the first half; it never goes; the halves stay
\* after a merge.
OutdatedAtOnce(m, b) ==
    IF b.kind = "split" THEN {Parent(b.shard)} ELSE Children(b.shard)
OutdatedNoParent(m, b) ==
    IF b.kind = "split" THEN {} ELSE Children(b.shard)
OutdatedNoHalves(m, b) ==
    IF b.kind = "split"
      THEN {p \in {Parent(b.shard)} : Children(p) \subseteq DOMAIN m}
      ELSE {}

\* The shards to remove when the entries are those of m: after a split the
\* parent, once both halves are there; after a merge the two halves.
Outdated(m, b) ==
    IF b.kind = "split"
      THEN {p \in {Parent(b.shard)} : Children(p) \subseteq DOMAIN m}
      ELSE Children(b.shard)

ForceUpdate(h) ==
    /\ At(h, "force")
    /\ Lock!ReleaseWrite(h)
    /\ LET updated == Entry(map, task[h].shard)
           gone == Outdated(updated, task[h])
       IN  /\ map' = Restrict(updated, DOMAIN updated \ gone)
           /\ due' = [s \in Shard |->
                        IF s \in gone THEN 0
                        ELSE due[s] + (IF s = task[h].shard THEN 1 ELSE 0)]
           /\ left' = left \ (gone \cup {task[h].shard})
    /\ Finish(h)
    /\ UNCHANGED <<chainVars, scraping, missed>>

-----------------------------------------------------------------------------
(* The exporter: for shard in self.shards.read().values()                  *)

BeginWalk ==
    /\ Lock!AcquireRead(Exporter)
    /\ scraping' = DOMAIN map
    /\ UNCHANGED <<chainVars, map, task, due, history>>

Visit(s) ==
    /\ s \in scraping
    /\ scraping' = scraping \ {s}
    /\ map' = [map EXCEPT ![s] = 0]
    /\ due' = [due EXCEPT ![s] = 0]
    /\ UNCHANGED <<chainVars, lock, task, history>>

EndWalk ==
    /\ scraping = {}
    /\ Lock!ReleaseRead(Exporter)
    /\ UNCHANGED <<chainVars, map, scraping, task, due, history>>

Export == BeginWalk \/ EndWalk \/ \E s \in Shard : Visit(s)

Lookup(h) == LookupHit(h) \/ LookupMiss(h)
Write(h) == Insert(h) \/ ForceUpdate(h)

Next ==
    \/ \E s \in Shard : SplitShard(s) \/ MergeShards(s)
    \/ Restart
    \/ \E s \in Shard : SkipFirst(s)
    \/ \E h \in Handlers, s \in Shard : BeginNormal(h, s) \/ BeginFirst(h, s)
    \/ \E h \in Handlers : LockRead(h) \/ Lookup(h) \/ LockWrite(h) \/ Write(h)
    \/ Export

\* Running threads proceed; parking_lot hands the lock to every thread that
\* keeps asking for it (its unlocks are fair from time to time); the first
\* block of a new shard is applied some day, handled or missed.
Fairness ==
    /\ WF_vars(Export) /\ SF_vars(BeginWalk)
    /\ \A h \in Handlers :
         /\ WF_vars(Lookup(h) \/ Write(h))
         /\ SF_vars(LockRead(h) \/ LockWrite(h))
    /\ \A s \in Shard : SF_vars((\E h \in Handlers : BeginFirst(h, s)) \/ SkipFirst(s))

Spec == Init /\ [][Next]_vars

FairSpec == Spec /\ Fairness

-----------------------------------------------------------------------------
\* The exporter's walk relies on entries that stay while it holds the lock, and
\* a handler holds it only while it looks its shard up.
TypeOK ==
    /\ live \subseteq Shard
    /\ first \in [Shard -> {"none", "split", "merge"}]
    /\ DOMAIN map \subseteq Shard /\ \A s \in DOMAIN map : map[s] \in Nat
    /\ Lock!LockTypeOK
    /\ scraping \subseteq DOMAIN map
    /\ task \in [Handlers -> Task]
    /\ readers \cap Handlers = {h \in Handlers : At(h, "reading")}
    /\ due \in [Shard -> Nat]
    /\ missed \in 0..MaxMissed /\ left \subseteq DOMAIN map

\* No sample is lost while threads race to create an entry: an entry holds
\* every block counted for its shard since it was created and last exported,
\* and a shard without an entry has nothing counted (metrics.rs:199-212).
SamplesDue ==
    \A s \in Shard : due[s] = IF s \in DOMAIN map THEN map[s] ELSE 0

\* Two entries cover a common part of the workchain only while a split is
\* half done (the parent and one child, the other child having had no block), or
\* where the first block that should have removed one of them was missed
\* (metrics.rs:228-245).
OverlapOnlyDuringSplit ==
    \A s, t \in DOMAIN map \ left :
        IsStrictPrefix(s, t) =>
            /\ s = Parent(t)
            /\ \A c \in Children(s) \ {t} : c \in live /\ ~Settled(c)

\* Once the first blocks are over, the exporter reports no entry of a shard that
\* was split or merged away, but for those whose successor's first block was
\* missed: only a first block removes entries (metrics.rs:228-245).
NoOutdatedShard ==
    (\A s \in live : Settled(s)) => DOMAIN map \subseteq live \cup left

\* The smallest parts the workchain can be split into.
Part == [1..MaxDepth -> {0, 1}]
Covered(part, m) == \E s \in DOMAIN m : IsPrefix(s, part)

\* A part of the workchain that the metrics have seen stays covered by an entry
\* while shards come and go, until the process restarts: whatever entry is
\* removed, others cover all of it, as the parent of a split is not removed
\* before both halves are there (metrics.rs:228-245).
CoverageStays ==
    [][(\A s \in DOMAIN map \ DOMAIN map', p \in Part : IsPrefix(s, p) => Covered(p, map'))
       \/ Restart]_vars

\* A thread that has a block gets through, whatever the exporter and the other
\* threads do with the lock.
HandlersFinish == \A h \in Handlers : ~Idle(h) ~> Idle(h)

\* A shard that is split or merged away disappears from the metrics, becomes
\* live again, or a first block that should have removed it was missed.
OutdatedShardsLeave ==
    \A s \in Shard : (s \in DOMAIN map /\ s \notin live)
                        ~> (s \notin DOMAIN map \/ s \in live \/ s \in left)
=============================================================================
