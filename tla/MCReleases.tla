------------------------------ MODULE MCReleases ------------------------------
(***************************************************************************)
(* How the capabilities of a release reach the lowering: the registry of    *)
(* manifests, the extraction from a downloaded archive, the scanner of the  *)
(* Rust source, and the cache on disk of the Python package.  They share no *)
(* state: a behaviour is one of any of them, while the others stay as they  *)
(* are at their start.                                                      *)
(***************************************************************************)
EXTENDS MCReleaseRegistry, Extraction, SourceScanner, CapabilityCache

VARIABLE part   \* the one that runs

releaseVars == <<part, vars, extractVars, scanVars, cacheVars>>

----------------------------------------------------------------------------
(* Archives: an entry of each kind, and pairs that disagree.                *)
EntryOf(path, kind, size, yields, utf8) ==
    [path |-> path, kind |-> kind, size |-> size, yields |-> yields, utf8 |-> utf8]
SourceOf(name, size, yields) == EntryOf(<<"m", "crates", name>>, "file", size, yields, TRUE)
MCEntries ==
    {SourceOf("builtins_old", 1, y) : y \in {1, 5}} \cup {SourceOf(n, 1, 1) : n \in {"builtins_new", "upper", "readme"}}
    \cup {SourceOf("modules", s, s) : s \in {0, 2, 3}}
    \cup {EntryOf(<<"m", "crates", "other">>, "link", 1, 1, TRUE),
          EntryOf(<<"m", "crates", "other">>, "file", 1, 1, FALSE),
          EntryOf(<<"m", "crates">>, "dir", 0, 0, TRUE), EntryOf(<<"m", "crates">>, "file", 0, 0, TRUE),
          EntryOf(<<"m", "..", "modules">>, "file", 1, 1, TRUE),
          EntryOf(<<"n", "crates", "other">>, "file", 1, 1, TRUE),
          EntryOf(<<"m", "docs", "other">>, "file", 1, 1, TRUE)}
Distinct(entries) == \A i, j \in 1..Len(entries) :
    entries[i].path = entries[j].path /\ (entries[i].kind = "dir") = (entries[j].kind = "dir") => i = j
ArchiveOf(n, entries) == [standard |-> TRUE, count |-> n, entries |-> entries]
MCArchives ==
    {a \in {[standard |-> FALSE, count |-> 0, entries |-> <<>>], ArchiveOf(3, <<SourceOf("modules", 0, 0)>>)}
           \cup UNION {{ArchiveOf(n, entries) : entries \in [1..n -> MCEntries]} : n \in 0..3}
           \cup {ArchiveOf(n, <<SourceOf("builtins_old", 1, 1), SourceOf("modules", 2, 2), a, b>>) : n \in {4, 5}, a, b \in MCEntries} :
        Distinct(a.entries)}
    \cup {ArchiveOf(5, <<SourceOf("builtins_old", 1, 1), SourceOf("modules", 2, 2), SourceOf("upper", 0, 0), SourceOf("readme", 0, 0), SourceOf("other", 0, 0)>>)}
MCResponses ==
    [status : {200}, declares : {0, 9}, yields : {2, 9}] \cup {[status |-> 404, declares |-> 2, yields |-> 2]}
MCNames == {"m", "n", "crates", "docs", "..", "builtins_old", "builtins_new", "modules", "upper", "readme", "other"}
----------------------------------------------------------------------------
(* Texts for the scanner: all short ones over what opens, closes and quotes. *)
Quoting == {"{", "}", "\"", "\\", "'", "/", "*", "\n"}
MCTexts ==
    UNION {[1..n -> Quoting] : n \in 0..4}
    \cup {<<"/", "*", a, b, c, "*", "/", "}">> : a, b, c \in {"/", "*", "}", "\"", "\n"}}
    \cup {<<"\"", a, b, c, "\"", "}">> : a, b, c \in {"\"", "\\", "}", "/"}}
    \cup {<<"r", "\"", a, b, "\"", "}">> : a, b \in {"\"", "\\", "}", "/"}}
    \cup {<<"r", "#", "\"", a, b, "\"", c, "}">> : a, b \in {"\"", "\\", "}", "#"}, c \in {"#", "}"}}
    \cup {<<"r", "#", "#", "\"", a, "\"", "#", b, "}">> : a \in {"\"", "}"}, b \in {"#", "}"}}
    \cup {<<"'", "\\", a, b, c, "}">> : a, b, c \in {"'", "\"", "{", "}"}}
\* Rust nests its brackets; an item is followed by the rest of what it is in.
MCItems == {text \in
    UNION {[1..n -> {"x", ",", ";", "{", "}", "(", ")"}] : n \in 0..4}
    \cup {<<a, "x", b, "x", c, d>> : a \in {"(", "[", "{", "<"}, b, d \in {",", ";", "x"}, c \in {")", "]", "}", ">"}}
    \cup {<<"(", "{", a, "}", b, ")", ",">> : a, b \in {"x", ","}}
    \cup {<<"x", "{", a, b, c, "}", ",">> : a, b, c \in {"x", ",", "\"", "}", "'", "/", "\n"}}
    \cup {<<"x", "{", "r", "#", "\"", a, "\"", b, "}", ",">> : a \in {"}", ","}, b \in {"#", "}"}} : IsNested(text)}
MCTasks == ({"match"} \X {<<"{">> \o t : t \in MCTexts}) \cup ({"mask"} \X MCItems)
----------------------------------------------------------------------------
(* Requests of the Python cache: each mode, and sources that share a key.   *)
RequestFor(m, o, v, t) == [mode |-> m, origin |-> o, version |-> v, ttl |-> t]
MCRequests ==
    {RequestFor("auto", "released", "", 1), RequestFor("auto", "main", "", 0),
     RequestFor("auto", "released", "main", 1), RequestFor("auto", "checkout", "", 1),
     RequestFor("regenerate", "checkout 2", "", 1), RequestFor("off", "released", "", 1)}

Symmetry == ThreadSymmetry \cup Permutations(Callers)

----------------------------------------------------------------------------
RegistryIdle ==
    /\ registry = [r \in Releases |-> None] /\ remote = None
    /\ pc = [t \in Threads |-> "idle"]
    /\ release = [t \in Threads |-> "verified"]
    /\ call = [t \in Threads |-> 0]
    /\ channel = [t \in Threads |-> None]
    /\ selection = [t \in Threads |-> None]
    /\ files = r19 :> bundled19 @@ r20 :> new20
    /\ published = [release |-> r20, sha256 |-> new20, compatible |-> TRUE]
    /\ announced = {published} /\ calls = 0 /\ publishes = 0 /\ answers = {}

ExtractionIdle ==
    /\ response = [status |-> 200, declares |-> 0, yields |-> 2]
    /\ archive = ArchiveOf(0, <<>>)
    /\ index = 0 /\ root = "" /\ seen = {} /\ expanded = 0 /\ buffered = 0
    /\ kept = {} /\ outcome = "downloading"

ScannerIdle ==
    /\ task = "match" /\ source = <<"{">> /\ at = 1
    /\ nesting = [round |-> 0, square |-> 0, brace |-> 0] /\ found = -1

CacheIdle ==
    /\ step = [c \in Callers |-> "idle"]
    /\ request = [c \in Callers |-> RequestFor("off", "released", "", 1)]
    /\ document = [c \in Callers |-> <<>>]
    /\ answer = [c \in Callers |-> NoAnswer]
    /\ stored = [k \in Keys |-> <<>>]
    /\ now = 0 /\ clock = 0 /\ cut = FALSE

\* The server starts with a channel document that fits the manifest it names;
\* the publication then changes one of the two.
Consistent == published.compatible /\ files[published.release] = published.sha256

MCInit ==
    \/ part = "registry" /\ Init /\ Consistent /\ ExtractionIdle /\ ScannerIdle /\ CacheIdle
    \/ part = "extraction" /\ ExtractInit /\ RegistryIdle /\ ScannerIdle /\ CacheIdle
    \/ part = "scanner" /\ ScanInit /\ RegistryIdle /\ ExtractionIdle /\ CacheIdle
    \/ part = "cache" /\ CacheInit /\ RegistryIdle /\ ExtractionIdle /\ ScannerIdle

MCNext ==
    /\ UNCHANGED part
    /\ \/ part = "registry" /\ Next /\ UNCHANGED <<extractVars, scanVars, cacheVars>>
       \/ part = "extraction" /\ ExtractNext /\ UNCHANGED <<vars, scanVars, cacheVars>>
       \/ part = "scanner" /\ ScanNext /\ UNCHANGED <<vars, extractVars, cacheVars>>
       \/ part = "cache" /\ CacheNext /\ UNCHANGED <<vars, extractVars, scanVars>>

MCSpec == MCInit /\ [][MCNext]_releaseVars
==============================================================================
