--------------------------- MODULE TranspilerCache ----------------------------
(***************************************************************************)
(* crates/monty-lower/src/transpiler.rs: one Transpiler shared by several  *)
(* threads.  transpile looks the source up under the mutex, lowers it with *)
(* the mutex released, and takes the mutex again to insert the result, so  *)
(* other threads look up, insert, evict and clear in between.  The loop    *)
(* that evicts is one EvictLru step per turn, under the mutex; a step      *)
(* guarded by LockFree takes the mutex and releases it.  The counters are  *)
(* atomics that a call updates after its critical section.                 *)
(*                                                                         *)
(* lower_source is a function of the source (the capabilities of one       *)
(* Transpiler are immutable): only whether it succeeds and how much its    *)
(* result weighs matter here.                                              *)
(***************************************************************************)
EXTENDS Integers, FiniteSets, Functions

CONSTANTS
    Threads,     (* the threads that share the Transpiler                 *)
    Sources,     (* the sources they transpile                            *)
    Unlowerable, (* the sources for which lower_source returns an error   *)
    Weight,      (* cache_weight of each source with its result           *)
    Configs,     (* the CacheConfigs a Transpiler may be built with       *)
    UsizeMax,    (* usize::MAX, the bound of cache_weight and of bytes    *)
    ClockMax,    (* u64::MAX, where the LRU clock saturates               *)
    MaxCalls,    (* bound of the model: calls to transpile in a behaviour *)
    NoThread, NoSource, NoEntry, NoOutput, Failed

ASSUME CacheAssumption ==
    /\ IsFiniteSet(Threads) /\ IsFiniteSet(Sources) /\ Unlowerable \subseteq Sources
    /\ Weight \in [Sources -> Nat]
    /\ {UsizeMax, ClockMax, MaxCalls} \subseteq Nat
    /\ Configs \subseteq [max_entries: Nat, max_bytes: 0..UsizeMax]
    /\ NoThread \notin Threads /\ NoSource \notin Sources

VARIABLES
    config,   (* CacheState.config                                        *)
    entries,  (* CacheState.entries: the entry of each source, or NoEntry *)
    bytes,    (* CacheState.bytes                                         *)
    clock,    (* CacheState.clock                                         *)
    lock,     (* the thread inside the eviction loop, or NoThread         *)
    metrics,  (* CacheMetrics                                             *)
    pc,       (* where each thread is in transpile                        *)
    source,   (* the argument of its call, NoSource between calls         *)
    call,     (* the number of its last call                              *)
    output,   (* the artifact the call holds, NoOutput if none            *)
    evicted,  (* evictions its insert has made and not yet counted        *)
    answer,   (* the result of its last call                              *)
    calls,    (* history: calls begun                                     *)
    older,    (* history: <<r, s>> when the last use of r, both cached,   *)
              (* was before that of s                                     *)
    cleared   (* history: entries dropped by clear_cache                  *)

cacheVars  == <<entries, bytes, clock, older>>
callVars   == <<source, call, output, evicted, answer>>
vars == <<config, cacheVars, callVars, pc, lock, metrics, calls, cleared>>

(* An Arc<LoweringOutput>: the source it is the lowering of and the call   *)
(* that made it.  Arcs of two calls are equal in content, and different.   *)
Artifact == [source: Sources, call: 0..MaxCalls]
Entry    == [output: Artifact, last_access: 0..ClockMax, weight: Nat]
Counter  == {"hits", "misses", "insertions", "evictions", "skipped", "bypasses"}
Location == {"idle", "lookup", "count_miss", "lowering", "insert", "evicting",
             "count_insertion", "count_evictions", "count_skipped"}

(* The sentinels are values of their own.                                  *)
ASSUME SentinelAssumption ==
    /\ NoEntry \notin Entry
    /\ {NoOutput, Failed} \cap Artifact = {} /\ NoOutput # Failed

MaxEntries == config.max_entries
MaxBytes == config.max_bytes

(* An operator with a name like IsEnabledByBytes is a faulty variant of    *)
(* the definition it precedes: a plausible slip that a property catches.   *)
IsEnabledByBytes == MaxBytes > 0
IsEnabled == MaxEntries > 0 /\ MaxBytes > 0

Cached == {s \in Sources : entries[s] # NoEntry}

-------------------------------------------------------------------------------
(* CacheState *)

(* The clock saturates, so accesses beyond ClockMax are ties. *)
NextAccessUnsaturated == clock + 1
NextAccess == IF clock < ClockMax THEN clock + 1 ELSE ClockMax

TouchNothing(entry) == entry
Touch(entry) == [entry EXCEPT !.last_access = NextAccess]

Without(s) == {pair \in older : s \notin {pair[1], pair[2]}}
UseLast(s) == Without(s) \cup ((Cached \ {s}) \X {s})

(* The clock advances even when the source is absent. *)
Get(s) ==
    /\ clock' = NextAccess
    /\ entries' = IF s \in Cached THEN [entries EXCEPT ![s] = Touch(@)] ELSE entries
    /\ older' = IF s \in Cached THEN UseLast(s) ELSE older
    /\ UNCHANGED bytes

(* cache_weight is None when the sum overflows a usize, and an insert      *)
(* treats that as it treats a weight beyond max_bytes.                     *)
RetainableAnyWeight(s) == Weight[s] <= UsizeMax
Retainable(s) == Weight[s] <= UsizeMax /\ Weight[s] <= MaxBytes

SaturatingAdd(a, b) == IF a + b > UsizeMax THEN UsizeMax ELSE a + b
SubForgotten(a, b) == a
SaturatingSub(a, b) == IF a < b THEN 0 ELSE a - b

MakeRoomOffByOne(s) ==
    Cardinality(Cached) > MaxEntries \/ SaturatingAdd(bytes, Weight[s]) > MaxBytes
MakeRoom(s) ==
    Cardinality(Cached) >= MaxEntries \/ SaturatingAdd(bytes, Weight[s]) > MaxBytes

(* Any of the entries that share the smallest last_access: min_by_key      *)
(* takes the first in the iteration order of a HashMap.                    *)
LeastRecent ==
    {s \in Cached : \A r \in Cached :
                        entries[s].last_access <= entries[r].last_access}

RemoveEntry(s) ==
    /\ entries' = [entries EXCEPT ![s] = NoEntry]
    /\ bytes' = SaturatingSub(bytes, entries[s].weight)
    /\ older' = Without(s)
    /\ UNCHANGED clock

AddEntry(s, o) ==
    /\ clock' = NextAccess
    /\ entries' = [entries EXCEPT
           ![s] = [output |-> o, last_access |-> NextAccess, weight |-> Weight[s]]]
    /\ bytes' = SaturatingAdd(bytes, Weight[s])
    /\ older' = UseLast(s)

-------------------------------------------------------------------------------
(* Transpiler *)

Init ==
    /\ config \in Configs
    /\ entries = [s \in Sources |-> NoEntry]
    /\ bytes = 0 /\ clock = 0 /\ lock = NoThread
    /\ metrics = [c \in Counter |-> 0]
    /\ pc = [t \in Threads |-> "idle"]
    /\ source = [t \in Threads |-> NoSource]
    /\ call = [t \in Threads |-> 0]
    /\ output = [t \in Threads |-> NoOutput]
    /\ evicted = [t \in Threads |-> 0]
    /\ answer = [t \in Threads |-> NoOutput]
    /\ calls = 0 /\ older = {} /\ cleared = 0

Step(t, from, to) == pc[t] = from /\ pc' = [pc EXCEPT ![t] = to]

LockFree == lock = NoThread
AcquireNothing(t) == LockFree /\ UNCHANGED lock
Acquire(t) == LockFree /\ lock' = t
Release == lock' = NoThread

CountOnce(c, n) == metrics' = [metrics EXCEPT ![c] = @ + (IF n > 0 THEN 1 ELSE 0)]
Count(c, n) == metrics' = [metrics EXCEPT ![c] = @ + n]

Return(t, from, a) ==
    /\ Step(t, from, "idle")
    /\ source' = [source EXCEPT ![t] = NoSource]
    /\ output' = [output EXCEPT ![t] = NoOutput]
    /\ answer' = [answer EXCEPT ![t] = a]
    /\ UNCHANGED call

(* A disabled cache is bypassed: count the call and lower the source. *)
Begin(t, s) ==
    /\ calls < MaxCalls
    /\ calls' = calls + 1
    /\ source' = [source EXCEPT ![t] = s]
    /\ call' = [call EXCEPT ![t] = calls + 1]
    /\ answer' = [answer EXCEPT ![t] = NoOutput]
    /\ \/ IsEnabled /\ Step(t, "idle", "lookup") /\ UNCHANGED metrics
       \/ ~IsEnabled /\ Step(t, "idle", "lowering") /\ Count("bypasses", 1)
    /\ UNCHANGED <<config, cacheVars, lock, output, evicted, cleared>>

(* The guard of the lookup lives through the body of the if-let, so a hit  *)
(* is counted and returned under the mutex, and a miss after it.           *)
LookupHit(t) ==
    /\ LockFree
    /\ source[t] \in Cached
    /\ Get(source[t])
    /\ Count("hits", 1)
    /\ Return(t, "lookup", entries[source[t]].output)
    /\ UNCHANGED <<lock, evicted, calls, cleared>>

LookupMiss(t) ==
    /\ Step(t, "lookup", "count_miss")
    /\ LockFree
    /\ source[t] \notin Cached
    /\ Get(source[t])
    /\ UNCHANGED <<callVars, lock, metrics, calls, cleared>>

CountMiss(t) ==
    /\ Step(t, "count_miss", "lowering")
    /\ Count("misses", 1)
    /\ UNCHANGED <<cacheVars, callVars, lock, calls, cleared>>

(* lower_source runs without the mutex.  Its error returns at once and is  *)
(* never cached; a bypassed call returns the result it computed.           *)
LowerFails(t) ==
    /\ source[t] \in Unlowerable
    /\ Return(t, "lowering", Failed)
    /\ UNCHANGED <<cacheVars, lock, metrics, evicted, calls, cleared>>

Lowered(t) == [source |-> source[t], call |-> call[t]]

LowerSucceeds(t) ==
    /\ source[t] \notin Unlowerable
    /\ \/ /\ IsEnabled
          /\ Step(t, "lowering", "insert")
          /\ output' = [output EXCEPT ![t] = Lowered(t)]
          /\ UNCHANGED <<source, call, answer>>
       \/ ~IsEnabled /\ Return(t, "lowering", Lowered(t))
    /\ UNCHANGED <<cacheVars, lock, metrics, evicted, calls, cleared>>

(* CacheState::insert looks the source up again: a thread that inserted it *)
(* since the miss made the canonical artifact, and this call's is dropped. *)
OwnArtifact(t) == output[t]
CanonicalArtifact(t) == entries[source[t]].output

InsertExistingRetries(t) ==
    /\ Step(t, "insert", "lowering")
    /\ LockFree
    /\ source[t] \in Cached
    /\ Get(source[t])
    /\ output' = [output EXCEPT ![t] = NoOutput]
    /\ UNCHANGED <<source, call, evicted, answer, lock, metrics, calls, cleared>>
InsertExisting(t) ==
    /\ LockFree
    /\ source[t] \in Cached
    /\ Get(source[t])
    /\ Return(t, "insert", CanonicalArtifact(t))
    /\ UNCHANGED <<lock, metrics, evicted, calls, cleared>>

(* Absent and too heavy to retain: skipped, with nothing evicted for it.   *)
InsertSkip(t) ==
    /\ Step(t, "insert", "count_skipped")
    /\ LockFree
    /\ source[t] \notin Cached
    /\ ~Retainable(source[t])
    /\ Get(source[t])
    /\ UNCHANGED <<callVars, lock, metrics, calls, cleared>>

InsertStart(t) ==
    /\ Step(t, "insert", "evicting")
    /\ Acquire(t)
    /\ source[t] \notin Cached
    /\ Retainable(source[t])
    /\ Get(source[t])
    /\ UNCHANGED <<callVars, metrics, calls, cleared>>

(* One turn of the loop.  With nothing left to evict the insert gives up   *)
(* and skips the artifact, and the evictions it has made go uncounted.     *)
EvictLru(t) ==
    /\ pc[t] = "evicting"
    /\ MakeRoom(source[t])
    /\ IF Cached = {}
       THEN /\ Step(t, "evicting", "count_skipped")
            /\ Release
            /\ evicted' = [evicted EXCEPT ![t] = 0]
            /\ UNCHANGED cacheVars
       ELSE /\ \E s \in LeastRecent : RemoveEntry(s)
            /\ evicted' = [evicted EXCEPT ![t] = @ + 1]
            /\ UNCHANGED <<pc, lock>>
    /\ UNCHANGED <<metrics, source, call, output, answer, calls, cleared>>

InsertFinish(t) ==
    /\ Step(t, "evicting", "count_insertion")
    /\ ~MakeRoom(source[t])
    /\ AddEntry(source[t], output[t])
    /\ Release
    /\ UNCHANGED <<callVars, metrics, calls, cleared>>

CountInsertion(t) ==
    /\ Step(t, "count_insertion", "count_evictions")
    /\ Count("insertions", 1)
    /\ UNCHANGED <<cacheVars, callVars, lock, calls, cleared>>

CountEvictions(t) ==
    /\ Count("evictions", evicted[t])
    /\ evicted' = [evicted EXCEPT ![t] = 0]
    /\ Return(t, "count_evictions", output[t])
    /\ UNCHANGED <<cacheVars, lock, calls, cleared>>

CountSkipped(t) ==
    /\ Count("skipped", 1)
    /\ Return(t, "count_skipped", output[t])
    /\ UNCHANGED <<cacheVars, lock, evicted, calls, cleared>>

(* clear_cache, by any holder of the Transpiler: the clock goes on.        *)
ClearCache ==
    /\ LockFree
    /\ entries' = [s \in Sources |-> NoEntry]
    /\ bytes' = 0
    /\ older' = {}
    /\ cleared' = cleared + Cardinality(Cached)
    /\ UNCHANGED <<config, clock, callVars, pc, lock, metrics, calls>>

Transpile(t) ==
    /\ \/ LookupHit(t) \/ LookupMiss(t) \/ CountMiss(t)
       \/ LowerFails(t) \/ LowerSucceeds(t)
       \/ InsertExisting(t) \/ InsertSkip(t) \/ InsertStart(t)
       \/ EvictLru(t) \/ InsertFinish(t)
       \/ CountInsertion(t) \/ CountEvictions(t) \/ CountSkipped(t)
    /\ UNCHANGED config

Next ==
    \/ \E t \in Threads : Transpile(t) \/ \E s \in Sources : Begin(t, s)
    \/ ClearCache

Spec == Init /\ [][Next]_vars

(* The operating system runs every thread that is inside a call; whether a *)
(* thread begins another one, or clears the cache, is up to the caller.    *)
FairSpec == Spec /\ \A t \in Threads : WF_vars(Transpile(t))

-------------------------------------------------------------------------------
(* Properties *)

TypeOK ==
    /\ config \in Configs
    /\ entries \in [Sources -> Entry \cup {NoEntry}]
    /\ bytes \in 0..UsizeMax
    /\ clock \in 0..ClockMax
    /\ lock \in Threads \cup {NoThread}
    /\ metrics \in [Counter -> Nat]
    /\ pc \in [Threads -> Location]
    /\ source \in [Threads -> Sources \cup {NoSource}]
    /\ call \in [Threads -> 0..MaxCalls]
    /\ output \in [Threads -> Artifact \cup {NoOutput}]
    /\ evicted \in [Threads -> Nat]
    /\ answer \in [Threads -> Artifact \cup {NoOutput, Failed}]
    /\ calls \in 0..MaxCalls
    /\ cleared \in Nat

(* The cache never holds more entries than max_entries nor more bytes than *)
(* max_bytes, at no point of an insert and for no interleaving of inserts, *)
(* evictions and clears; a limit of zero keeps it empty (CacheConfig).     *)
Bounded ==
    /\ Cardinality(Cached) <= MaxEntries
    /\ bytes <= MaxBytes
    /\ ~IsEnabled => Cached = {}

(* The insert that has looked its source up and found it absent still      *)
(* finds it absent when it stores its entry, whatever it evicts meanwhile: *)
(* the defensive branch after HashMap::insert in CacheState::insert is     *)
(* dead, as its comment says.                                              *)
NoPreviousEntry ==
    \A t \in Threads : pc[t] = "evicting" => source[t] \notin Cached

(* CacheState.bytes is the total weight of the entries in the map, after   *)
(* any sequence of inserts, evictions and clears: what the eviction loop   *)
(* compares with max_bytes is never a drifted total.  Only a max_bytes of  *)
(* usize::MAX admits an insert whose saturating_add has saturated; bytes   *)
(* is then less than the total, and never more.                            *)
CachedWeight == SumFunction([s \in Cached |-> entries[s].weight])
BytesAccounted ==
    /\ bytes <= CachedWeight
    /\ MaxBytes < UsizeMax => bytes = CachedWeight

(* An entry is evicted only when every other entry was used since its last *)
(* use, whichever threads used them: a lookup that hits, an insert that    *)
(* finds the source present and an insert are uses; until the clock        *)
(* saturates, as accesses beyond u64::MAX are ties.                        *)
EvictsLeastRecentlyUsed ==
    [][\A t \in Threads :
           lock = t /\ lock' = t /\ clock < ClockMax
           => \A s \in Cached \ Cached' : {s} \X (Cached \ {s}) \subseteq older]_vars

(* An insert evicts for the sake of an artifact it then retains: it never  *)
(* gives one up after evicting, and skips only what max_bytes cannot hold. *)
EvictionsNotWasted ==
    \A t \in Threads : pc[t] = "count_skipped" =>
        ~Retainable(source[t]) /\ evicted[t] = 0

At(locations) == {t \in Threads : pc[t] \in locations}

(* The counters lag the map, and by no more than the calls in flight that  *)
(* have still to count: every call that has looked up is a hit, a miss or  *)
(* a bypass, and insertions less evictions and cleared entries are the     *)
(* entries in the map.  When no call is in flight the telemetry is exact.  *)
MetricsReconcile ==
    /\ metrics["hits"] + metrics["misses"] + metrics["bypasses"]
          + Cardinality(At({"lookup", "count_miss"})) = calls
    /\ Cardinality(Cached) + cleared + metrics["evictions"] + SumFunction(evicted)
          = metrics["insertions"] + Cardinality(At({"count_insertion"}))

(* The memo a Transpiler implements: a thread that has stored or skipped   *)
(* its artifact, and has still to count it, has been answered.             *)
Decided == At({"count_insertion", "count_evictions", "count_skipped"})
memoBar == [s \in Sources |-> IF s \in Cached THEN entries[s].output ELSE NoOutput]
requestBar == [t \in Threads |-> IF t \in Decided THEN NoSource ELSE source[t]]
answerBar == [t \in Threads |-> IF t \in Decided THEN output[t] ELSE answer[t]]

Memo == INSTANCE ResultMemo WITH Calls <- 0..MaxCalls,
            memo <- memoBar, request <- requestBar, answer <- answerBar

(* A call answers like a memo that may forget but never replaces: while an *)
(* artifact of the source is in the cache every call returns that same     *)
(* Arc, also when two calls missed together, and a failure is never kept.  *)
AnswersLikeAMemo == Memo!Spec

(* What a thread holds at each point of a call, and what the mutex guards: *)
(* an inductive invariant.                                                 *)
Holding == {"insert", "evicting", "count_insertion", "count_evictions",
            "count_skipped"}
ThreadInv(t) ==
    /\ lock = t <=> pc[t] = "evicting"
    /\ source[t] \in Sources <=> pc[t] # "idle"
    /\ pc[t] \in Holding => source[t] \notin Unlowerable /\ output[t] = Lowered(t)
    /\ ~IsEnabled => pc[t] \in {"idle", "lowering"}
IInv == TypeOK /\ Bounded /\ NoPreviousEntry /\ \A t \in Threads : ThreadInv(t)

(* Below its saturation the clock orders the uses: an inductive invariant, *)
(* with IInv.                                                              *)
UseInv ==
    /\ \A s \in Cached : entries[s].last_access <= clock
    /\ clock < ClockMax =>
         \A r, s \in Cached : r # s =>
             \/ entries[r].last_access < entries[s].last_access /\ <<r, s>> \in older
             \/ entries[s].last_access < entries[r].last_access /\ <<s, r>> \in older

(* Which insert skips, and who has evictions to count: an inductive        *)
(* invariant, with IInv and BytesAccounted.                                *)
SkipInv(t) ==
    /\ pc[t] = "evicting" => Retainable(source[t])
    /\ pc[t] = "count_skipped" => ~Retainable(source[t])
    /\ evicted[t] # 0 => pc[t] \in {"evicting", "count_insertion", "count_evictions"}

(* Every call returns, and the mutex is always released: no call waits for *)
(* another for ever, and the eviction loop ends.                           *)
EveryCallReturns == \A t \in Threads : pc[t] # "idle" ~> pc[t] = "idle"
===============================================================================
