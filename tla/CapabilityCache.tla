--------------------------- MODULE CapabilityCache ---------------------------
(***************************************************************************)
(* The Python package's cache of capability documents                      *)
(* (src/monty_compat/cache.py): get_capabilities called by several          *)
(* processes that share a directory.  A call loads the file of its key,     *)
(* checks its age, or builds the capabilities and writes the file in place: *)
(* it is truncated when it is opened, and written from its start.  A        *)
(* process may end at any point, and a write may be cut.                    *)
(*                                                                         *)
(* A file is the sequence of its parts; a part is the document it is of and *)
(* its place in it.  A file that is missing and one that is empty are one:  *)
(* neither loads.                                                           *)
(***************************************************************************)
EXTENDS Integers, Sequences, FiniteSets

CONSTANTS
    Callers,
    Requests,           \* the arguments of the calls
    Keys,               \* the keys that they lead to
    MaxTime             \* the bound on time

Modes == {"auto", "regenerate", "off"}
Origins == {"released", "main", "checkout", "checkout 2"}

ASSUME CacheAssumption ==
    /\ Requests \subseteq [mode : Modes, origin : Origins, version : {"", "main", "installed"}, ttl : Nat]
    /\ {"latest-release", "main", "installed"} \subseteq Keys
    /\ MaxTime \in Nat

VARIABLES
    step,               \* of each caller, what it does next
    request,            \* of each caller, its arguments
    document,           \* of each caller, the document it has built or read
    answer,             \* of each caller, how it was answered
    stored,             \* of each key, the content of its file
    now,                \* the time that has passed
    clock,              \* what time.time() says
    cut                 \* a write has been cut

cacheVars == <<step, request, document, answer, stored, now, clock, cut>>

NoAnswer == [kind |-> "none", content |-> <<>>, age |-> 0]

----------------------------------------------------------------------------
\* The version that was asked for, or else what stands for the source.
KeyWithoutSource(r) == IF r.version # "" THEN r.version ELSE "latest-release"
Key(r) ==
    IF r.version # "" THEN r.version
    ELSE CASE r.origin \in {"checkout", "checkout 2"} -> "installed"
           [] r.origin = "released" -> "latest-release"
           [] OTHER -> "main"

\* A content that parses: one document from its start to its end; after a cut
\* the parts may be of two documents, if the lengths agree.
ParsesAnyStart(content) == content # <<>>
Parses(content) ==
    /\ content # <<>>
    /\ \A k \in 1..Len(content) : content[k].place = k /\ content[k].of.parts = Len(content)

\* A file that was written by an earlier version of the package.
OldFile ==
    <<[of |-> [by |-> "earlier", origin |-> "main", named |-> FALSE, built |-> 0, created |-> 0,
               schema |-> 1, parts |-> 1],
       place |-> 1]>>
OldSchema(content) == content[1].of.schema # 2

ExpiredLate(created, ttl) == ttl > 0 /\ clock - created > ttl + 1
Expired(created, ttl) == ttl > 0 /\ clock - created > ttl

CacheInit ==
    /\ step = [c \in Callers |-> "idle"]
    /\ request \in [Callers -> Requests]
    /\ document = [c \in Callers |-> <<>>]
    /\ answer = [c \in Callers |-> NoAnswer]
    /\ \E content \in {<<>>, OldFile} : stored = [k \in Keys |-> content]
    /\ now = 0
    /\ clock = 0
    /\ cut = FALSE

\* Only "auto" looks at the file.
Start(c) ==
    /\ step[c] = "idle"
    /\ step' = [step EXCEPT ![c] = IF request[c].mode = "auto" THEN "load" ELSE "build"]
    /\ UNCHANGED <<request, document, answer, stored, now, clock, cut>>

\* load_cache up to the schema guard: the whole file is read at once.
Load(c) ==
    /\ step[c] = "load"
    /\ LET content == stored[Key(request[c])]
           usable == Parses(content) /\ ~OldSchema(content)
       IN  /\ document' = [document EXCEPT ![c] = IF usable THEN content ELSE <<>>]
           /\ step' = [step EXCEPT ![c] = IF usable THEN "check" ELSE "build"]
    /\ UNCHANGED <<request, answer, stored, now, clock, cut>>

Answered(c, kind, age) ==
    /\ step' = [step EXCEPT ![c] = "done"]
    /\ answer' = [answer EXCEPT ![c] = [kind |-> kind, content |-> document'[c], age |-> age]]

\* The time limit, on what was read.
Check(c) ==
    /\ step[c] = "check"
    /\ LET first == document[c][1].of IN
       IF Expired(first.created, request[c].ttl)
       THEN step' = [step EXCEPT ![c] = "build"] /\ UNCHANGED <<document, answer>>
       ELSE UNCHANGED document /\ Answered(c, "loaded", now - first.built)
    /\ UNCHANGED <<request, stored, now, clock, cut>>

\* What a caller builds now, of any length, and its parts.
BuiltBy(c, n) ==
    [by |-> c, origin |-> request[c].origin, named |-> request[c].version # "",
     built |-> now, created |-> now, schema |-> 2, parts |-> n]
PartsOf(built) == [k \in 1..built.parts |-> [of |-> built, place |-> k]]

\* from_local and from_github: they may fail.
Build(c) ==
    /\ step[c] = "build"
    /\ \/ \E n \in 1..2 :
             document' = [document EXCEPT ![c] = PartsOf(BuiltBy(c, n))]
          /\ IF request[c].mode = "off" THEN Answered(c, "built", 0)
             ELSE step' = [step EXCEPT ![c] = "save"] /\ UNCHANGED answer
       \/ document' = [document EXCEPT ![c] = <<>>] /\ Answered(c, "error", 0)
    /\ UNCHANGED <<request, stored, now, clock, cut>>

Stamped(parts) == [k \in DOMAIN parts |-> [parts[k] EXCEPT !.of.created = clock]]

\* save_cache: the payload gets its time, and the file is opened, which
\* truncates it; an error goes to the caller, who has no answer then.
Open(c) ==
    /\ step[c] = "save"
    /\ \/ /\ document' = [document EXCEPT ![c] = Stamped(@)]
          /\ stored' = [stored EXCEPT ![Key(request[c])] = <<>>]
          /\ step' = [step EXCEPT ![c] = "write"]
          /\ UNCHANGED answer
       \/ UNCHANGED <<document, stored>> /\ Answered(c, "error", 0)
    /\ UNCHANGED <<request, now, clock, cut>>

\* The parts written go over those that are there.
Over(parts, content) == parts \o SubSeq(content, Len(parts) + 1, Len(content))

Write(c) ==
    /\ step[c] = "write"
    /\ stored' = [stored EXCEPT ![Key(request[c])] = Over(document[c], @)]
    /\ UNCHANGED document
    /\ Answered(c, "built", 0)
    /\ UNCHANGED <<request, now, clock, cut>>

\* The process ends, before its write or in the middle of it.
Crash(c) ==
    /\ step[c] \notin {"idle", "done"}
    /\ \/ UNCHANGED <<stored, cut>>
       \/ /\ step[c] = "write" /\ Len(document[c]) > 1
          /\ stored' = [stored EXCEPT ![Key(request[c])] = Over(SubSeq(document[c], 1, 1), @)]
          /\ cut' = TRUE
    /\ step' = [step EXCEPT ![c] = "idle"]
    /\ document' = [document EXCEPT ![c] = <<>>]
    /\ UNCHANGED <<request, answer, now, clock>>

\* Time passes; and the clock may be set back.
Tick ==
    /\ now < MaxTime
    /\ now' = now + 1
    /\ clock' = clock + 1
    /\ UNCHANGED <<step, request, document, answer, stored, cut>>

SetBack ==
    /\ clock = now
    /\ clock' = clock - 2
    /\ UNCHANGED <<step, request, document, answer, stored, now, cut>>

CacheNext ==
    \/ \E c \in Callers : Start(c) \/ Load(c) \/ Check(c) \/ Build(c) \/ Open(c) \/ Write(c) \/ Crash(c)
    \/ Tick \/ SetBack

CacheSpec == CacheInit /\ [][CacheNext]_cacheVars

----------------------------------------------------------------------------
Loaded(c) == answer[c].kind = "loaded"
LoadedFrom(c) == answer[c].content[1].of

\* The inductive invariant: of whom a file and the document of a caller are.
Document ==
    [by : Callers \cup {"earlier"}, origin : Origins, named : BOOLEAN, built : Int,
     created : Int, schema : {1, 2}, parts : Nat]
Part == [of : Document, place : Nat]

CacheTypeOK ==
    /\ step \in [Callers -> {"idle", "load", "check", "build", "save", "write", "done"}]
    /\ request \in [Callers -> Requests]
    /\ document \in [Callers -> Seq(Part)]
    /\ answer \in [Callers -> [kind : {"none", "loaded", "built", "error"},
                               content : Seq(Part), age : Int]]
    /\ stored \in [Keys -> Seq(Part)]
    /\ now \in Nat /\ clock \in Int /\ cut \in BOOLEAN

\* A document of this schema is of what its key stands for.
KeyFits(d, k) == d.schema = 2 => d.named \/ Key([version |-> "", origin |-> d.origin]) = k

\* The parts that the first part promises are of its document.
Whole(content) ==
    \A i \in 1..Len(content) :
        (content # <<>> /\ i <= content[1].of.parts) => content[i].of = content[1].of

\* What a caller holds at each point of a call.
CallerInv(c) ==
    /\ step[c] \in {"check", "save", "write"} =>
          /\ document[c] # <<>>
          /\ Len(document[c]) = document[c][1].of.parts
          /\ document[c][1].of.schema = 2
          /\ KeyFits(document[c][1].of, Key(request[c]))
    /\ (step[c] = "check" /\ ~cut) => Whole(document[c])
    /\ step[c] \in {"save", "write"} =>
          \A i \in 1..Len(document[c]) : document[c][i].of = document[c][1].of

AnswerInv(c) == Loaded(c) =>
    /\ answer[c].content # <<>>
    /\ Len(answer[c].content) = LoadedFrom(c).parts
    /\ ~cut => Whole(answer[c].content)
    /\ LoadedFrom(c).schema = 2 /\ KeyFits(LoadedFrom(c), Key(request[c]))
    /\ (clock = now /\ request[c].ttl > 0) =>
          answer[c].age <= request[c].ttl + (LoadedFrom(c).created - LoadedFrom(c).built)

FilesInv ==
    /\ \A k \in Keys : \A i \in 1..Len(stored[k]) : KeyFits(stored[k][i].of, k)
    /\ ~cut => \A k \in Keys : Whole(stored[k])

CacheIInv ==
    CacheTypeOK /\ FilesInv /\ \A c \in Callers : CallerInv(c) /\ AnswerInv(c)

\* No call returns half a document, or two halves: a file that is read between
\* the opening and the write of another process, or after its crash, does not
\* load.  Only a cut write over the parts of another one could make two halves.
AnswersAreWhole ==
    \A c \in Callers : Loaded(c) =>
        LET content == answer[c].content IN
        /\ Len(content) = LoadedFrom(c).parts
        /\ cut \/ \A k \in 1..Len(content) : content[k].of = LoadedFrom(c)

\* What a call loads is of the source it asks for, but for the known gaps: it
\* or the writer gave a version, which says nothing of the source, or they read
\* checkouts, which share the key of the installed package.
AnswersAreOfTheSource ==
    \A c \in Callers : Loaded(c) =>
        \/ LoadedFrom(c).origin = request[c].origin
        \/ request[c].version # "" \/ LoadedFrom(c).named
        \/ {LoadedFrom(c).origin, request[c].origin} = {"checkout", "checkout 2"}

\* The capabilities that a call loads are no older than its limit, which zero
\* lifts, but for the time between their building and their saving, and for a
\* clock that was set back.
AnswersAreFresh ==
    \A c \in Callers : Loaded(c) /\ request[c].ttl > 0 /\ clock = now =>
        answer[c].age <= request[c].ttl + (LoadedFrom(c).created - LoadedFrom(c).built)
============================================================================
