# A verification project for monty-compat

monty-compat lowers Python source to the subset that a given release of Monty
accepts. It probes a release for its capabilities (`monty-discover`), keeps them in
manifests, and rewrites source by them (`monty-lower`, with Python bindings in
`monty-compat-python`). The TLA+ modules here model its concurrent, failing and
stateful parts; TLC checks them on small instances, and TLAPS proves the main
results for all instances.

## 1. Inventory

| Component | State | Operations | What is hard | What makes it correct |
|---|---|---|---|---|
| Transpiler result cache (`monty-lower/transpiler.rs`) | entries, bytes, LRU clock under a mutex; six atomic counters | `transpile`, `clear_cache`, `cache_stats` | lowering happens outside the mutex, so lookups go stale; eviction at two limits; saturating arithmetic; counters outside the mutex | bounds, canonical artifacts, LRU order, exact accounting, every call returns |
| Discovery worker (`monty-discover/worker.rs`) | child process, two pipes, reader thread, channel, `stopped` | `request`, `request_interactive`, `terminate`, drop | responses are paired with requests by order alone; timeouts race answers; a judge fails half-way through a dialogue; a child crashes, hangs, writes half a line | no answer goes to another request, no verdict to another candidate; no process or thread is left; every request returns |
| Worker children (`run_monty_worker_stdio`, `_discovery_worker.py`) | request being served, candidate count | one line in, one line out; verdict dialogue | reading the wrong line as a verdict | candidate numbers match |
| Baseline run (`monty-discover/lib.rs`) | results, current Monty worker | probe the catalog, restart Monty after an error | one probe's crash affecting the next | statuses are the probe's own, the report is complete |
| Generated run (`monty-discover/lib.rs`) | results, minimized failures, both workers | generate, run, minimize, report | one worker fails while the other is in a dialogue; the worker of one seed is that of the next | what is minimized, by whom it is judged, what shortens the corpus |
| Release pipeline (`monty-discover/main.rs`) | output path, temporary file | resolve, probe, `write_atomic` | kills and power losses between steps; process ids that repeat | the path always holds a whole manifest, rightly labelled |
| Release registry (`monty-compat-python/lib.rs`) | Transpiler of each release, downloaded latest manifest | `transpiler(code, release)` | first calls race; documents are fetched one after the other | one Transpiler per release, one latest per process, vetted manifests |
| Lowering engine (`lower.rs`, `match_lower.rs`) | source, helpers, diagnostics between passes | passes to a fixed point, some forty rules | helpers requested in several passes, name clashes, order of evaluation, exceptions half way, dispatch | semantics kept, or a diagnostic |
| Source edits (`edit.rs`) | edits of one pass | `apply_edits` | overlaps, insertions at one offset, character boundaries | overlaps refused, everything else made once and in order |
| Facts (`facts.rs`) | bindings, classes, dead results of one text | collection, queries | bindings that run in another order than they stand in | what a rule is told holds at run time |
| Capability index (`manifest.rs`, `coverage.rs`) | parsed manifest, constant table | lookups | none | - |
| Release extraction (`monty-extract`) | none | bounded download, archive or checkout, scan | sizes that are declared falsely; Rust read without a lexer | limits hold whatever is declared; archive and checkout agree; bodies and gated items end where Rust ends them |
| Python cache (`cache.py`) | a file per key | load, save, get | crash and concurrent reader during a save; clock; keys that stand for several sources | whole, fresh documents of the source asked for |
| Python discovery (`discovery.py`, `probes.py`, `generated_discovery.py`), scanner (`capabilities.py`), catalog | none of their own | sequential probing | none concurrent | classification |

They interact as follows. The Python function `transpiler` finds a `Transpiler` in
the registry and calls its `transpile`, which calls `lower_source`. The pipeline
runs the baseline and the generated run, which call workers; the closure that
judges a candidate of the Python worker calls the Monty worker. A pass of `lower_source`
collects the facts of its text, walks it with the rules, which ask the facts and the
capability index, and has `apply_edits` make the edits; the next pass starts from the
text that results. The Python package extracts capabilities itself and keeps them in
its cache. Everything is a
call, except the pipes and the channel of a worker, the two mutexes of the
registry and the mutex of a `Transpiler`'s cache, and the files
of the Python cache, which processes share.

`PROJECT.json` lists every hazard at its line, with the properties that cover it.

## 2. Modules

| Module | Models | Role |
|---|---|---|
| `ResultMemo` | what `transpile` promises | abstract specification |
| `TranspilerCache` | `transpiler.rs` | refines `ResultMemo` |
| `MCTranspilerCache` | - | weights and symmetry for TLC |
| `TranspilerCacheProofs` | - | theorems |
| `RpcSession` | what a worker promises | abstract specification |
| `WorkerProcess` | `worker.rs`, both children's loops | refines `RpcSession` |
| `WorkerProcessProofs` | - | theorems |
| `BaselineDiscovery` | `run_baseline_probes` | uses workers as `RpcSession` describes them |
| `GeneratedDiscovery` | `run_generated_internal`, minimization | likewise |
| `ReleasePipeline` | `main.rs` with `write_atomic` | |
| `MCDiscovery` | - | one run for the three above |
| `DiscoveryProofs` | - | theorems of the three |
| `ReleaseRegistry`, `MCReleaseRegistry` | the registry and the latest channel of the bindings | |
| `Extraction` | `monty-extract/lib.rs` | |
| `ExtractionProofs` | - | theorems of `Extraction` and `SourceScanner` |
| `SourceScanner` | brace matching and masking of `scanner.rs` | against Rust's lexical rules |
| `CapabilityCache` | `cache.py` | |
| `ReleasesProofs` | - | theorems of `ReleaseRegistry` and `CapabilityCache` |
| `MCReleases` | - | one run for the four above |
| `LoweringPasses`, `MCLoweringPasses` | `lower_source`: passes, visiting, names, helpers, diagnostics | |
| `LoweringPassesProofs` | - | theorems |
| `SourceEdits` | `apply_edits` | |
| `RuleSemantics` | the rewrite rules of `lower.rs` | against CPython's order of events |
| `MatchLowering`, `MCMatch` | `match_lower.rs` | against CPython's matching |
| `RuleProofs` | - | theorems about `RuleSemantics` and `MatchLowering` |
| `TypeFacts` | bindings, references and dead results of `facts.rs` | |
| `ClassHierarchy` | classes of `facts.rs`, `lower_class_inheritance` | against the method resolution order |
| `PassProofs` | - | theorems about `SourceEdits`, `TypeFacts` and `ClassHierarchy` |
| `MCRules` | - | one run for the five above |

`MCDiscovery`, `MCReleases` and `MCRules` put several modules into one run. Their parts
share no state in the code either (`part` says which one a behaviour is of; the others
keep their variables), so the states of a run are the sum of those of its parts.

An operator whose name says what it gets wrong (`MakeRoomOffByOne`,
`DropWorkerForgotten`) stands before the definition it varies and is not used by
the specification. Each property is known to fail when one of them takes the
place of that definition (`PROJECT.json`, `mutants`).

### TranspilerCache

`config`, `entries`, `bytes` and `clock` are the fields of `CacheState`; `metrics` are the
counters; `pc`, `source`, `call`, `output` and `evicted` are the locals of each
thread's call. A step is what one thread does while it holds the mutex, or one
update of an atomic. The mutex is a variable only for the eviction loop, whose
turns are separate steps (`EvictLru`); the critical sections without a loop are
one step each, guarded by `LockFree`. `older` (which entry
was used before which), `calls` and `cleared` are history, read by properties only.

`lower_source` is abstracted to whether it succeeds and what its result weighs; it
is a function, because a `Transpiler` has immutable capabilities. Artifacts are
identified by the call that made them, so two `Arc`s of equal content differ.
`usize::MAX` and `u64::MAX` are the constants `UsizeMax` and `ClockMax`. The
wrap of the telemetry counters after 2^64 calls is not modelled, nor is a
poisoned mutex (no path panics while holding it).

### WorkerProcess

Three actors. The client is `request` and `request_interactive` together, with
`terminate` split in two (kill and reap, then join), because the join waits for the
reader. The reader moves lines from `stdout` to `channel` and ends at the end of
the stream or at a line that `read_bounded_line` refuses. The child reads, answers,
offers candidates and reads verdicts as `_minimize` does (a candidate that the guard
refuses takes a number without being offered), and may crash at any point or simply
never act.

Abstractions: a timeout may fire whenever the channel is empty, whatever the time
(so every race of a timeout with an answer is covered); pipes never fill (a `send`
has no timeout in the code, so a child that never reads a line larger than the
pipe would block it); the child writes one line per request line; the error of a
write to a dead child may be a Json or an Io error, as `to_writer` wraps it; a
descendant of the child that keeps its stdout open after the kill, which would keep
the reader from ending, is not modelled.

### BaselineDiscovery, GeneratedDiscovery

Sequential programs over two sessions. What a live worker does with each probe or
seed is fixed in the initial state, so that the properties can say whose a failure
was. A worker is live or dead as `RpcSession` has it: after a timeout, an Io error or
a closed stream nothing is answered. What happens to the candidates of a
minimization is left open, `pysource-minimize` being outside the repository; its
budget is not. Summaries and the grouping of promotion candidates are functions of
the results and are left out.

### ReleaseRegistry

One step per critical section or request to the server. `registry` and `remote` are
the two statics. The manifest channel's server is an actor of its own (`Publish`)
that may change the channel document and the manifests between any two requests.
A manifest's hash is the manifest; `compatible` stands for the checks of the channel
document (schema, engine, HTTPS), `Acceptable` for those of the manifest (it parses,
and every feature is known).

### ReleasePipeline

Several runs that write one path, each with a process id from a small set. A file
has a writer, a version, whether its data is complete and whether it was synced. The
file system is external: what was not synced may be torn by a power loss, and the
path may then hold the new or an older file, since `write_atomic` does not sync the
directory.

### Extraction

`Download` is `download_limited` with the checks of the whole archive, a `ReadEntry` is one
turn of the loop of `from_zip`, `MakeBundle` is `from_rust_files`. Sizes are small
numbers; a server and an entry may declare one length and yield another. `buffered`
counts the bytes held at once, of the body and of the entries. `LocalSources` is what
`from_local` takes of the tree the archive unpacks to. ZIP itself is external: the
library shows entries of distinct raw paths and says how many the archive declares.
`MemoryIsBounded` speaks of what is read (`from_rust_files` copies five of the files once more); `Vec::with_capacity` of a size that the checks
have passed reserves no more. `ArchiveAgreesWithCheckout` has two gaps: a file in `.RS` and
a symbolic link are sources of an archive and not of a checkout.

### SourceScanner

A text is a sequence of characters that open, close, quote, escape or do nothing. A step
passes over a comment, a string or one character, as the two loops do. The reference
follows Rust's lexer without recursion: `Token` is what stands at a position, `Starts` the
least set of positions that holds the first one and what follows each token, and `Depth`
counts brackets of code; `RustMatch` and `RustItemEnd` are said with them. Raw strings have
any number of hashes, character literals escapes of any length. The properties
name the gaps, which TLC finds when they are not named: a character literal of a quote, a
slash or what is looked for; a raw string with a backslash, or with a quote that does not
end it (`r#" " }"#`), as the scanner knows neither `r` nor hashes; a nested block comment
(`Misread`); and, when masking, the last item of a list without a comma, a comma between
angle brackets, and a block between round or square brackets. A text to match starts with
the opening brace, as `matching_delimiter` asks; a text to mask nests its brackets
(`IsNested`), as every file does that Rust compiles, but it may close what it did
not open, since it starts in the middle of a file.

### CapabilityCache

`get_capabilities` of several processes, one step per file operation. A file is the
sequence of its parts, of which each knows its document, so that half a document, or two
halves after a cut write, can be told. `open` truncates, `write` writes over from the
start, a process may end in between or in the middle of a write. `now` is real time and
`clock` what `time.time()` says. Extraction is one step that may fail, and so may a save,
which raises although the capabilities were built (`Open`). The gaps that the properties
name: a version that was given says nothing of the source, two checkouts share the key
of the installed package, a cut write may leave two halves that parse if their lengths
agree, a document is stamped when it is saved and not when it was built, and a clock that
is set back.

### LoweringPasses

One call of `lower_source`. A program is a forest of sites, numbered in source order,
each of a kind that stands for a family of rules. What a kind keeps of its rules is
what matters between passes: whether the rule replaces the whole site, so that the
visitor does not enter it in this pass (`Skip`) or edits around it and goes on
(`Walk`); whether it takes a name or a helper and from which counter; which facts of
the text it needs; and which diagnostics it emits. `code` maps each site that was
rewritten to the generated names its text now holds; other sites stand as written; the text inside a
hoisted comprehension is `Hoisted`, in the body of a helper that no pass sees. A step
is the visit of one site; `Return`, `NextPass` and `RefuseEdits` end a pass with the
three outcomes of `lower_source` after the visit.

Left out: what each rule's conditions on capabilities and facts are (a site of a kind
is one that meets them, `wide_match` and `property_of_unknown` are ones that do not) and
what the text that it writes does, which is `RuleSemantics`; the offsets of edits, which
are those of `SourceEdits`, but for the one overlap that two rules make by where they write
(`Conflict`: a loop writes at the first statement of its body, and a match that is this
statement replaces whole lines from before it); parse errors of a text that a rule broke
(`Unparsable` in `RuleSemantics`) and errors of the injection of helpers, which end a call
without a result; and the exhaustion of generated names: the loop tries more numbers than the text has
bytes, hence more than it has names, so one of them is free (`FreshName`). A name counts as
taken where the code's `contains` finds it as a whole name; the code also refuses
prefixes of longer names, which only skips more.

### SourceEdits

`apply_edits`, one step per turn of its loops: validation, the stable sort, the
comparison of neighbours, the splice. A text is its offsets; `Boundaries` are those at
which a character starts, so that splitting one is an error; an edit is known by its
number in the order of the pushes, its replacement being whatever it is. The sort is any
permutation in the order `Before`, of which there is one.

### RuleSemantics

A site is one occurrence of what a rule matches, with what the rule asks for (does the
target lack the feature, do the facts know the class, does it have the method) and what
CPython's semantics depends on (does the method decline, what does the right operand's
type have to do with the left one's, is the key a slice, does the statement share its
line). `source` is the sequence of observable events of the site under CPython:
evaluations of operands, calls of the user's methods, bindings, one outcome. A statement has
up to `MaxParts` targets, iterables, managers or rounds, and a definition up to
`MaxDecorators` decorators. `code` is
that of the text which the rule writes. One action per handler of `Collector` decides
(`applied`, `left`, `diagnosed`); `Happen` runs the text. As every event may raise or
print, a rule keeps the semantics of a site only if the two sequences are equal.

`PreservedOutsideTheKnownGaps` says that they are, *exactly* outside the
circumstances of `Diverges`: a rule that gets better or worse makes it false. These
are, in the order of `Diverges`:

| Rule | The rewritten site differs when |
|---|---|
| binary, comparison | the right operand is of a subclass with a reflected method; the left method returns `NotImplemented`; of a comparison, only the right class is known (it is then the receiver, and is evaluated first) |
| descriptor | the decorator goes and an access is not resolved, and is not of a static method through its class; the decorator stays (it is not alone, or the target has decorators), as accesses of properties and class methods are rewritten all the same; the argument of a class method is a bare generator expression |
| `in`, `x[k] = v`, `x.a = v` | always: the operands are evaluated in another order |
| `x[k]` | the key is a slice, or starred |
| `super()` | the next class of the object is not the first base; the two methods are not bound alike, or the base's is a class method that keeps its decorator; the argument is a bare generator expression |
| `__getattr__` | CPython finds the attribute where `class_has_member` does not look: set on the instance by other code, of a base from elsewhere or a second one, of `object`, bound by unpacking |
| `gather` | a task is cancelled |
| `iter(f, stop)` | `stop` is of a class with its own `__eq__`, or is a NaN |
| `del x[k]` | `x` is a tuple or float (another exception), the key is a pair without parentheses, or a slice held in a variable |
| builtins | the program binds the name; `list` of a class with `__len__`, or whose iterator is none; a result that the builtin refuses or converts; `bool` by `__len__` as an operand of another comparison, since `(...) != 0` gets no parentheses |
| `%` | the program binds `str` or `repr`; the operand is a tuple; under `%d` it is no integer (a float or a bool too) |
| `str.format` | the argument is starred, or has its own `__format__`; the program binds `str` or `repr` |
| f-string | a plain string is concatenated with it; `__format__` returns no text; the class has none of its own and the objects of the target inherit none |
| dict union | a subclass of dict overrides `__or__` |
| lazy builtins | the program binds the name, or `enumerate` starts at an object with `__index__` |
| folded calls | the program binds a name involved; the class has a metaclass, a construction or a representation that the first known bases do not show |
| dataclass | it has methods of its own, options, a factory or a class variable, or is compared with another class |
| static `if` | an `elif` without `else` is lost; a block is left empty; a string of the branch is indented anew |
| class-body comprehension | it uses a name of the class, or of a lambda or comprehension around it |
| `C.__name__ = v` | `v` is no text; the assignment is in a function; the name is read through anything but `C` |
| `from dataclasses import dataclass` | the name is still used; the line has another statement, or is a whole block |
| nested class | the outer body has done something before, the header uses it, the name is shown, or a string of it is indented anew |
| private names | the name is that of a function or a parameter, or stands in another statement |
| tuple in a class body | the value has another length or is an iterator; the statement shares its line |
| `assert` | a statement follows on the line |
| decorators | one raises (the name is bound to the bare function by then) |
| `with` | the body raises after all; the class is no context manager (another exception); the source has no final newline; a string of the body is indented anew |

"Indented anew": `reindent_text` goes line by line, so a string over several lines changes
when its block moves (`Reindented`).

What the sites take for granted: the class of an operand is what the facts say, and its
methods are where the facts find them (their mistakes are `TypeFacts` and `ClassHierarchy`);
names that the inserted text and the helpers use, `isinstance`, `min`, `AssertionError` and
the like, mean what they mean by default, but where `shadowed` or `bound` is a circumstance; special
methods are those of classes, and none is set on an instance; a call has its parenthesis
right behind its name; a text that Rust writes as a literal (`{:?}`) reads the same in Python;
f-strings nest quotes as in Python 3.12.

Left out: the wording and span of diagnostics, rules that only diagnose, and the
combination of several rules in one expression, which is `LoweringPasses`.

### MatchLowering

`PatternCompiler` is `Compile`: a pattern becomes a list of plans, conditions and bindings
each, with the limit on alternatives. The actions run the text that `lower_match` writes:
cases, alternatives, guard, body. A condition names a part of the subject by its path,
where the code uses a temporary. `Matching` is CPython's matching: for a pattern and a
value, whether it matches, does not or raises, and what it binds. Patterns and values are
constants, with those nested in them (`Patterns`, `Values`); `Depth` says that both are
finite, so that what recursion defines on them can be reasoned about. Known gaps: a
subject that is a sequence or mapping of another type than the checked ones; more
positional patterns than `__match_args__` has; positional patterns of a class derived from
a builtin; the lines of a string in a body (`suite_source` indents them); a first body on
the line of its case.

### TypeFacts

The occurrences of one name in the order of the text, and expression statements. The
collectors visit them once; then the program executes them in any order and any number
of times. An expression has what its form says it yields, which the facts go by, and what
it yields. `Surprises` are the bindings the facts cannot know of: forms that the collector
passes over (a walrus, an import, an except, a capture, a class, a lambda or comprehension
variable, an augmented assignment, which binds the name to what it makes of the old value,
and `eval` and `exec`) and expressions that yield something else than they say.
`DeadResultsAreUnread` names three ways in which a result counted as dead is used: an
expression that starts at the same offset, an attribute of a class, an augmented
assignment.

### ClassHierarchy

Classes with bases, members and annotations. Of a class its `own` members are all that its
body binds, `methods` those that a def directly in it does, which is what the facts keep;
`declared` those it annotates without a value; `strings` those whose text has a string over
several lines; and it is `inline` when its body stands on its header line. Names of the form
`__m`, which CPython mangles, are not among the members. First what CPython does: `DefineClass`
executes one class statement, which raises (the action is not enabled) when a base is
not bound yet or the bases have no C3 merge. The merge is stated as a relation
(`IsMerge`): each class comes from the first list whose head stands behind no class that
is not taken yet. Then what monty-lower does: `VisitClass` is `lower_class_inheritance`
on one class, and `AskForMethod`, `FindMethod`, `FollowBase` and `FindNothing` are the loop of
`resolves_method`, one class per step, with its set of visited names (`met`). After the
pass the program may set attributes of classes (`AssignAttribute`).

The gaps are in the comments of the two properties. What a flattened class has differs with
classes of one name, members of a grandparent (only the base's own text is copied),
annotations without a value, a body on the header line (the text is inserted before the
class statement and not in it), strings that are indented anew (`Altered`), and attributes
set at run time. What a method resolves to differs with classes of one name, diamonds, bases
that are no names, members that are bound otherwise than by a def (`__add__ = other`), and
attributes set at run time. A copied member is evaluated again in the child, so what is
compared is the class whose text it is.

## 3. Runs

| Run | Instance | What it shows |
|---|---|---|
| `cache` | 2 threads, 4 calls, 6 sources, limits of 2 entries and 4 bytes | byte accounting, no wasted eviction, LRU, telemetry, `ResultMemo` |
| `cache_limits` | 3 calls, fair threads; clock saturates at 2, bytes at `max_bytes`, or a limit of 0 | the inductive invariant `IInv`, bounds included, where integers end and where the cache is disabled; every call returns |
| `worker` | 4 requests, 3 candidates, fair client and reader | pairing of answers and verdicts, clean termination, `RpcSession`, `IInv`; every request and drop returns |
| `discovery` | all behaviours of 3 probes; of 3 seeds with 2 candidates; 3 runs with 2 process ids, 2 versions | a baseline report is complete and its failures are the probes' own; what a generated report may hold, what is minimized and by whom; the output path, through kills and power losses; both runs end |
| `generated_isolation` | 2 seeds | **violated**: see findings |
| `releases` | 2 threads, 3 calls, 2 releases, 4 manifests, a consistent server at the start and 1 publication; archives of up to 5 entries of 15 kinds; texts of up to 10 characters; 2 processes, 6 requests, 2 units of time | one Transpiler per release, stable latest, vetted manifests; bounded memory, archive against checkout; matching and masking against Rust; whole, fresh answers of the right source |
| `registry_bundle` | 2 threads, 2 calls | **violated**: see findings |
| `lowering` | all programs of 3 sites of 14 kinds, 4 passes, 3 names taken | diagnostics agree with the code, nothing is silent in the text, generated names are fresh, one pass is consistent, the inductive invariant `IInv`, every call returns |
| `lowering_helpers`, `lowering_descriptor` | 3 sites of the kinds concerned | **violated**: see findings |
| `rules` | every site of every rule; match statements of 1 or 2 cases on 15 subjects; all lists of 3 edits of 3 bytes; all texts of 3 occurrences; hierarchies of up to 4 classes | events as under CPython outside the known gaps; matching, edits, facts, dead results, inheritance, resolution of methods |
| `rules_reflected` | the sites of `RuleSemantics` | **violated**: see findings |

Bounds. Two threads are enough for the races of the cache and the registry: each is
between one call's lookup and its insert and whatever another does in between; four
calls let an entry be inserted, hit, and outlive the eviction of another. In `cache`
three sources fit `max_bytes` together and a fourth does not with any other, so
either limit alone forces an eviction. Four requests let one fail transiently, one
fatally, and one follow. Three probes or seeds have one before and one after a
failure. Three runs on two process ids have two that share one. Archives of five
entries exceed `MaxEntries`, and sums of sizes and the body exceed each byte limit. Two
processes of the Python cache meet in every step of a save, and two units of time
let a document expire at, and after, its limit. Three sites have one that encloses another
and one beside them, and a chain of three, which takes three passes. The 128 passes of
the code are `MaxPasses`, 4 here, one more than the nesting can use, so that only a call
that never settles reaches it. Three edits have one between two that overlap, which
neighbours alone would miss without the sort; two of the three bytes are one character.
A text of three occurrences has two bindings and a use. A statement of two parts has one
before and one after each part that raises; three decorators have one between two. Four classes make a diamond. The
limit on alternatives is four, which sums and products of alternatives exceed.

Fairness. `cache_limits` assumes that the operating system schedules each thread that
is inside a call (`WF` of `Transpile(t)`, per thread); starting a call and clearing
the cache are the caller's choice and get none. `worker` assumes that the
client thread and the reader thread are scheduled and that `recv_timeout` returns;
nothing is assumed of the child. The baseline and the generated run of `discovery` are
sequential and assume that the program goes on, which is what `worker` shows of the calls
it makes; the pipeline, which may be killed, gets no fairness. `lowering` assumes it of
one call.
The runs that disable the deadlock check are of programs that end.

## 4. Findings

1. **A bundled release may be served by a downloaded manifest**
   (`registry_bundle`). The registry is keyed by the release alone. A `latest` call
   whose channel names a bundled release with a revised manifest registers its
   Transpiler first, and later `verified` or exact calls get it; in the other order
   `latest` gets the bundled one. `docs/releases.md:14-16` says `verified` uses the
   manifest compiled into the wheel and is deterministic.
2. **A Monty worker that dies stays dead in a generated run**
   (`generated_isolation`). `run_generated_internal` starts it once; after a crash or
   a timeout every later seed is recorded as a crash. `docs/discovery.md:85` promises
   crash isolation and worker restart, which the baseline run has. `discovery` shows
   what does hold (`GeneratedReportIsSound`: failures are a seed's own up to the first).
3. **A helper that two passes ask for may be undefined** (`lowering_helpers`). In
   `a | b | c` the second pass names the helper anew, while `entry(kind).or_insert`
   (`lower.rs:253`) keeps the first definition; the result calls an undefined function.
4. **A property loses its decorator although accesses stay** (`lowering_descriptor`):
   the decorator goes in the first pass, and an access that this pass does not reach,
   in a match arm or an operand, is reached by one whose facts no longer know the
   property. The result is accepted and yields the method.

5. **A lowered operator may skip the reflected method** (`rules_reflected`).
   `docs/lowering.md:190-191` says that protocol calls are dispatched "without changing
   reflected-operation precedence". The code looks at the right operand only when the
   target lacks the reflected protocol and the right class is known
   (`lower.rs:501-516`); else `l + r` becomes `(l).__add__((r))` although CPython calls a
   subclass's `__radd__` first, or after `NotImplemented`.

Findings 3 and 4 are of calls whose diagnostics are all `Applied`, which the Python
binding accepts. What does hold is `OnePassIsConsistent`: without nesting, helpers,
shadows and accesses agree. `LoweringPasses` also shows, without runs of their own:

- what a class-body comprehension contains is silent, since it is moved into a helper
  that no pass visits (`NothingSilentInText` speaks of the text only);
- an assignment of `C.__name__` and a read that a later pass reaches use two
  variables (`OneShadowOfTheName` fails on nested programs);
- the decorator of a property goes also when an access through `self` or a parameter
  cannot be resolved, where `docs/lowering.md:193-194` asks for a diagnostic
  (`AccessFollowsDescriptor` fails with `property_of_unknown`);
- a property with a second decorator ends in `NonConvergent` and not in its review
  diagnostic, because its accesses are rewritten again in every pass.

A comprehension of a class body is hoisted into a function of the module whatever names it
uses (`lower.rs:398-426`), where `docs/lowering.md:184-185` says "only when scope and captured
bindings can be preserved": `RuleSemantics` has it as a gap (`class_comprehension` in
`Diverges`), and the run `rules` fails without it.

`RuleSemantics`, `MatchLowering`, `TypeFacts`, `ClassHierarchy`, `SourceScanner`,
`Extraction` and `CapabilityCache` name, in their properties, the circumstances in which
the code does something else than its reference (section 2). They are not findings, as
no document promises them one by one, but each is a state TLC reaches, and the property
fails when it is left out of the list.

Also noted while modelling: a candidate that crashes Monty during a
minimization ends the whole run with an error (`minimize_generated_failure`); an error while saving the
Python cache is raised although the capabilities were built; `MAX_ARCHIVE_ENTRIES`
(100 000) cannot be reached, as the count of an archive is a 16-bit number and ZIP64 is
refused.

## 5. Proofs

`TranspilerCacheProofs`, for any threads, sources, weights, limits and widths, under
`CacheAssumption` and `SentinelAssumption` (finitely many sources and threads;
`max_bytes` fits a usize; sentinels differ from values):

- `Inductive`: `IInv`, that is `TypeOK`, `Bounded`, `NoPreviousEntry` and
  `ThreadInv`. `Bounded` alone is not inductive: it needs that the source of a thread in the
  eviction loop is absent, hence that the mutex keeps others out (`lock = t` iff `t`
  is in the loop), and that a thread holds what it lowered.
- `CacheBounded`, `InsertFindsNoEntry`: from `Inductive`.
- `Refinement`: `Spec => AnswersLikeAMemo`. A call is answered, in the memo, at the
  step that decides its answer: the hit, the insert that finds an entry, the end of
  the eviction loop, or the failure.
- `BytesTotal`: `BytesAccounted`, from `IInv` and what an entry weighs. `saturating_sub`
  never saturates, because what is evicted is part of the total; `saturating_add` does
  only if `max_bytes` is `usize::MAX`, as the loop has made room before. With that one
  limit `bytes` may fall short of the total, by what saturation cut off (it may then
  keep more than it says); the property names the case.
- `EvictionIsOfTheLeastRecent`: `EvictsLeastRecentlyUsed`, an action property. `UseInv`
  says that as long as the clock is not saturated, `last_access` orders the entries
  strictly, and as `older` does.
- `SkipsEvictNothing`: `EvictionsNotWasted`. A thread in the eviction loop has a
  retainable source (`SkipInv`), so no skip follows an eviction.
- `MetricsExact`: `MetricsReconcile`, one case per counter update.

The sums over entries and threads are folds, that is, recursive functions over sets, and
what a fold computes is an induction over data. The lemmas `SumEmpty`, `SumSplit` and
`SumUpdate` get around it by the least counterexample: if a sum did not split, there would be
a set of least size for which it does not (`LeastNatural`, an instance of `WFMin`), and
removing the element its fold chooses leaves a smaller one.

`WorkerProcessProofs`, for any number of requests and candidates:

- `WorkerInductive`: `IInv`. It says where the one line of a request may be
  (`ChildHasIt`, `LineComing`, `LineHere`) while the reader runs, what may be left once
  it is done (`OnceDone`), that nothing that could be an answer is left once the
  session is over (`Silent`), and that a stopped worker has a dead child.
- `AnswersMatch`, `Quiet`, `VerdictsMatch`, `NothingOutlives`: from it.
- `SessionRefinement`: `Spec => IsAnRpcSession`.

`DiscoveryProofs`, for any set of runs, process ids and versions, any catalog, and any
seeds and budget of checks; the theorems are of `MCSpec`, whose three parts share
nothing:

- `PipelineInductive`: `IInv`. A run between create and rename owns the file at its
  temporary path, because `create_new` refuses one that exists; whatever is, or may
  come back, at the output path was renamed synced.
- `PathIsSound`: `OutputIsSound`, from it.
- `BaselineReports`: `BaselineReportIsSound`. Its `IInv` says what each result so far is of
  its probe's behaviour, and that a Monty worker is dead only after an error
  that has dropped it.
- `GeneratedReports`, `Minimizations`: `GeneratedReportIsSound` and `MinimizationsAreSound`.
  The `IInv` of the generated run says that Monty is live until the first seed whose own
  behaviour broke it, at which position of the results that is, and that the Python
  worker outlives every result but the last.

`ReleasesProofs`, for any threads, releases, manifests, calls and publications, and for any
callers, requests, keys and times:

- `RegistryInductive`: the `IInv` of `ReleaseRegistry`. What a thread holds after the
  checks of a download was announced; a thread that was asked for the latest release
  goes on with the one that is remembered, its own or another's; what was answered
  is what is registered, as the first insert is kept. `OneTranspiler`, `LatestStays` and
  `TranspilersAreVetted` follow.
- `CacheInductive`: `CacheIInv` of `CapabilityCache`. A document of the current schema that
  is in the file of a key belongs to that key unless it was saved under a version
  (`KeyFits`), so what a caller finds there is of its source; files hold whole
  documents until a write is cut (`Over` of a whole document keeps that); and an answer
  is as old as its limit allows if the clock is right, because a clock that is right
  was never set back and was right when the limit was checked.
- `WholeAnswers`, `AnswersOfTheSource`, `FreshAnswers`: from it.

`ExtractionProofs`, for any answers, archives and limits: `ExtractInvariant`, that what is
held of the entries is at most their declared sizes, the last read one byte over, and
that the entries kept are the sources among those read; `MemoryBounded` and
`ArchiveAgrees` follow.

`LoweringPassesProofs`, for any program, kinds and number of passes:

- `LoweringInductive`: `IInv`. `DiagnosticsMatchCode` speaks of the last pass and holds
  because of all of them: a call that goes on has kept only applied diagnostics, each
  pass reports as applied what it edits, and what is diagnosed otherwise is of a kind
  that has no rule or is edited in the same visit (`AppliedInv`). Nothing is silent
  because the walk leaves no site behind it that is not dealt with, or inside one that
  is (`WalkInv`).
- `DiagnosticsAreOfTheCode`, `NothingIsSilent`: from it.
- `GeneratedNamesAreFresh`: `NamesAreFresh`, from `NamesInv`. Each of the allocators
  (helpers and shadows, targets, one per match) hands out names that are not in the text
  of the pass and whose numbers are below where it stands (`Allocated`), so no two of one
  pass meet unless they may; and the names of a pass are not in the text, so
  they meet none of an earlier one. Two match statements may share a name,
  as each counts from 0: edited in one pass they are not nested, because a pass does not
  enter what it replaced (`EditsInv`). That a number is free at all is the pigeonhole
  principle over the names of the text, which are finitely many (`TextFinite`,
  `FreshName`).
- `OnePassConsistency`: `OnePassIsConsistent`, from `OnePassInv`. The first pass keeps its
  helpers and its shadow in step with its edits (`FirstPassInv`); at its end all that has a
  rule was edited, or is inside a generator expression, which no pass enters
  (`FirstPassComplete`); so later passes edit nothing but accesses of properties, ask
  for no helper, and cannot undo what the first one established (`LaterPassInv`). That
  the helpers merged are those of the first pass needs that none were there before.

`RuleProofs`, for any limit, any patterns and values of finite depth and any statements:

- A function defined by recursion is a `CHOOSE`, of which nothing is known until such a
  function exists. `CompileIs`, `MatchingIs`, `AlternativesIs`, `ForeignIs`, `UnprovenIs` (over
  patterns and values) and `PartsOnSteps`, `AllUpToSteps`, `AnyUpToSteps`, `TotalUpToSteps`,
  `ProductUpToSteps`, `FlatSteps` (along a list) show that it does, and give one step of its
  definition. Each is the least-number principle applied to the least depth or length
  up to which there is no such function: no induction theorem is needed, as the
  property is one formula about naturals. The same argument by depth carries the two
  results below.
- `TooManyIs`: a pattern has no plan exactly when it has more than `MaxAlternatives`
  alternatives. `Counted` is what each operation keeps: the length of a list of plans is
  the number of alternatives or, over the limit, zero. Products and sums of positive
  numbers only grow, so the order in which parts are combined does not matter.
- `AllPlansAgree`: within the limit and without a known gap, running the plans of a
  pattern in order finds what `Matching` says. `Found` is the list of what the first
  plan that holds binds; combining two lists of plans finds a pair of what each
  finds (`FoundCombined`: in the product, the first pair in order is the pair of the firsts),
  appending them finds the first that finds anything (`FoundJoined`), and moving one
  under a step finds in the value what it finds in the part (`FoundUnder`). With these
  each kind of pattern agrees when its parts do (`SequenceAgrees`, `MappingAgrees`,
  `ClassAgrees`, `OrAgrees`, `AsAgrees`, `ValueAgrees`).
- `MatchInvariant`: `MatchInv`, what is bound and run at each step of the text: until a
  case decides, what the cases tried so far bind (`BoundBy`), those whose guard
  failed included; afterwards what CPython ends with.
- `MatchAlwaysSound`: `MatchIsSound`, from the three.

`RuleProofs`, second part, for any number of targets, iterables, managers, rounds and
decorators (`RuleAssumption`: at least one may be written):

- One lemma per rule (`SuperKept`, `DescriptorKept` and so on) says that its text is `Faithful`: equal to
  what CPython runs exactly where `Diverges` does not hold, under the conditions the handler
  checks. `SiteIs` gives the kind of the site and its events by its rule.
- Operators: `BinaryOrder` and `CompareOrder` give the order in which the methods are tried,
  of which there are four, `OperatorOne` and `OperatorTwo` what is run in each, and `DirectIs`
  that a direct call equals one of them only if its method comes first and answers.
- Deletions: `ChainIs` says that a run is that of the targets up to the first one that
  raises, which is the same target in both texts. Equal runs have equal parts
  (`FlattenCancels`, from the end, by the least-number principle), so one target
  that differs among those that run makes the whole differ.
- `RuleInvariant`: `RuleInv`, that a site is one of those of its rule (`Sites`) and that what
  runs once it is decided on is as the decision says (`Decided`). `PreservedOutsideTheKnownGaps`
  speaks of the end of a run only and is not inductive.
- `RewritesArePreserved`: `PreservedOutsideTheKnownGaps`, from it.

These proofs have changed the models. The arms of a `CASE` have no order: where
two of them apply, TLA+ leaves open which one it is, while TLC takes the first, so what
TLC had checked did not follow from the definitions. `RuleSemantics`, `CapabilityCache` and
`Extraction` had such arms, in the order in which the code tests; they are chains
of `IF` now.

`PassProofs`, for any source, character boundaries and lists of edits:

- `EditsInvariant`: `EditsIInv`, what each loop has established up to its position. That
  neighbours are enough is its step from `DisjointUpTo(pos)` to the next: an edit that
  starts behind its neighbour starts behind all before it, as each of those ends
  before the next one starts.
- `EditsSound`: `EditsAreSound`. That a byte which no edit covers is in a slice needs the
  first edit that starts behind it, hence the least-number principle (an instance of
  `WFMin`), and not an induction.

`PassProofs`, second part, for any classes, builtin types and texts: `FactsInvariant`, that a
binding which was visited agrees with the fact or made it ambiguous, that names visited
in a load are referenced, and that what was read was held; `FactsSound` and `DeadUnread`
follow.

`PassProofs`, third part, for any number of classes, names and members:

- `HierarchyInductive`: `HierarchyIInv`. The order of a class starts with the class, goes on with
  classes defined before it, and holds none twice (`OrderInv`). Unless two of its bases
  share an ancestor, the order of its first base follows the class directly: until that
  list is used up its head is always ready, since no class of it is in another order
  or behind another base. This is why a walk along first bases agrees with
  the resolution order: it is always at a place of that order, behind which the order of the
  class it looks at follows, and no class before that place has the method (`WalkInv`).
- `ResolvedAsCalled`: `ResolvedAsDispatched`; the class found is at the first place of the
  order that provides the method.
- `FlattenedInherits`: `FlattenedAsInherited`; a class that is flattened has one base, so its
  order is itself and that of its base.

The positions are bounded, so the first or last one with a property is an instance of
the least-number principle. No induction over classes is needed: each step of
`DefineClass` adds one order to those that the invariant already speaks of.

`ExtractionProofs`, second part, for texts of any length:

- `ScanInductive`: `ScanIInv`. The scanner stands where a token starts, in a character literal,
  at the hashes or the quote before a raw string or at the hashes behind it, and nowhere else
  (`WithinToken`), so what it skips
  ends where the token does: the first `*/` is the end of a comment in which no other
  opens (`CommentWithout`), and a quote that ends a string is the first one of a
  raw string without a backslash or an inner quote (`StringWithout`, `RawIs`, `RawFromIsThere`). Its depths are those of the lexer. When it
  matches, `saturating_sub` never bites, as the first brace is open until it is done;
  when it masks, because nothing is closed in an item that was not opened in it, up to
  its end (`NothingIsBare`).
- `TheBraceIsThatOfRust`: `MatchIsThatOfRust`, from it.
- `TheMaskIsTheItem`: `MaskIsTheItem`. The scanner ends at a closing brace whatever the
  other brackets are; that they are all closed follows from the brace that opened the
  block, which exists, stands in none of them, and between which and its end they are
  balanced (`BlockClosesBare`).

That a token starts at one position of a token only (`NoStartWithin`) uses the
minimality of `Starts` and the least-number principle, and no induction.

Only model-checked: liveness (`EveryCallReturns`, `EveryRequestReturns`, `RunsEnd`,
`Terminates`) and the fairness of the refinements, which the prover does not handle.

## 6. Not modelled

- `cache_stats`, `extract_source`, the conversion of errors, command lines and the formats
  of reports: stateless, or they only read.
- `manifest.rs` and `coverage.rs`: a parsed table; an answer of the index is the field
  `missing` of a site.
- The probe catalog: data.
- The feature scan of `scanner.rs` and `capabilities.py`: regular expressions over
  text, whose result no state depends on.
- The Python probes (`discovery.py`, `probes.py`, `generated_discovery.py`): sequential,
  each probe on its own.
- Of the lowering, the text and the spans of diagnostics, the rules that only diagnose, and the
  recognition of the type of an expression (`TypeFacts` takes it as what the expression
  says).

## 7. Plan

Done: `TranspilerCache`, `WorkerProcess`, `BaselineDiscovery`, `GeneratedDiscovery`,
`ReleaseRegistry`, `ReleasePipeline`, `LoweringPasses`, `SourceEdits`, `RuleSemantics`,
`MatchLowering`, `TypeFacts`, `ClassHierarchy`, `Extraction`, `SourceScanner`,
`CapabilityCache`; proofs of every safety and action property that the passing runs check.

What could follow, in order:

1. A helper of `LoweringPasses` as a text that later passes see, once the code lowers
   the bodies of hoisted comprehensions (`lower.rs:419`), and the errors that end a call in the
   middle of a pass.
2. Two rules in one expression: `RuleSemantics` composed with the walk of
   `LoweringPasses`.
