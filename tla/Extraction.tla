------------------------------ MODULE Extraction ------------------------------
(***************************************************************************)
(* Loading the sources of Monty (crates/monty-extract/src/lib.rs): an HTTP  *)
(* answer read within a limit, the ZIP archive in it read entry by entry    *)
(* within more limits, never unpacked, and the Rust sources kept of it; or  *)
(* a local checkout.                                                        *)
(*                                                                         *)
(* The zip library shows the entries of distinct raw paths, of which count  *)
(* tells how many the end record declares, and yields the bytes an entry    *)
(* holds, whatever size its header declares.  A path is the sequence of its *)
(* components; a slash after them is what makes an entry a directory.  Of a *)
(* name, the extension matters, and whether the extractor asks for it.      *)
(***************************************************************************)
EXTENDS Integers, Sequences

CONSTANTS
    Names,              \* the names of files and directories
    Responses,          \* the answers of the server
    Archives,           \* the archives they may hold
    MaxArchiveBytes, MaxEntries, MaxFileBytes, MaxExpandedBytes

\* The files that are asked for: of each list, the first that is there.
Required == {<<"builtins_new", "builtins_old">>, <<"modules">>}

Extension(name) ==
    CASE name \in {"builtins_new", "builtins_old", "modules", "other"} -> "rs"
      [] name = "upper" -> "RS"
      [] OTHER -> "none"

\* No component is empty, "." or "..", and the first has no colon.
Unsafe == {"", "..", "c:"}

Entry ==
    [path : Seq(Names) \ {<<>>}, kind : {"file", "dir", "link"},
     size : Nat, yields : Nat, utf8 : BOOLEAN]

ASSUME ExtractionAssumption ==
    /\ Responses \subseteq [status : Nat, declares : Nat, yields : Nat]
    /\ Archives \subseteq [standard : BOOLEAN, count : Nat, entries : Seq(Entry)]
    /\ MaxArchiveBytes \in Nat /\ MaxEntries \in Nat
    /\ MaxFileBytes \in Nat /\ MaxExpandedBytes \in Nat

VARIABLES
    response,           \* [status, declares, yields]: length declared, length sent
    archive,            \* what the body of the answer holds
    index,              \* the entries that have been read
    root,               \* the common first component, "" before the first entry
    seen,               \* the normalised paths
    expanded,           \* the sum of the declared sizes
    buffered,           \* the bytes held of the body and of the entries
    kept,               \* the entries whose text is kept as Rust source
    outcome             \* "downloading", "reading", "bundle" or the error

extractVars == <<response, archive, index, root, seen, expanded, buffered, kept, outcome>>

AtMost(limit, bytes) == IF bytes < limit THEN bytes ELSE limit

----------------------------------------------------------------------------
ExtractInit ==
    /\ response \in Responses
    /\ archive \in Archives
    /\ index = 0
    /\ root = ""
    /\ seen = {}
    /\ expanded = 0
    /\ buffered = 0
    /\ kept = {}
    /\ outcome = "downloading"

Finish(result) ==
    /\ outcome' = result
    /\ UNCHANGED <<response, archive, index, root, seen, expanded, kept>>

\* download_limited, and the checks of the whole archive: at most one byte
\* beyond the limit is read, whatever length the answer declares.
Download ==
    /\ outcome = "downloading"
    /\ IF response.status \notin 200..299 THEN Finish("status") /\ UNCHANGED buffered
       ELSE IF response.declares > MaxArchiveBytes THEN Finish("too large") /\ UNCHANGED buffered
       ELSE /\ buffered' = AtMost(MaxArchiveBytes + 1, response.yields)
            /\ Finish(IF buffered' > MaxArchiveBytes THEN "too large"
                      ELSE IF ~archive.standard THEN "unsupported archive"
                      ELSE IF archive.count # Len(archive.entries) THEN "duplicate paths"
                      ELSE IF Len(archive.entries) > MaxEntries THEN "too many entries"
                      ELSE "reading")

\* Only files below crates whose name ends in .rs, in either case.
IsSourceAnywhere(e) == e.kind # "dir" /\ Extension(e.path[Len(e.path)]) \in {"rs", "RS"}
IsSource(e) ==
    /\ e.kind # "dir"
    /\ Len(e.path) > 1 /\ e.path[2] = "crates"
    /\ Extension(e.path[Len(e.path)]) \in {"rs", "RS"}

IsValidPath(e) == \A k \in 1..Len(e.path) : e.path[k] \notin Unsafe

WithinLimits(e) == e.size <= MaxFileBytes /\ expanded + e.size <= MaxExpandedBytes

\* A source is read up to one byte beyond its declared size, and refused when
\* it does not yield that size exactly.
TakeAll(e) == e.yields
Take(e) == AtMost(e.size + 1, e.yields)

\* An entry that is refused before its text is read, and one that is after.
RefuseEntry(e) ==
    /\ \/ ~IsValidPath(e) /\ Finish("unsafe path")
       \/ IsValidPath(e) /\ root \notin {"", e.path[1]} /\ Finish("several roots")
       \/ IsValidPath(e) /\ root \in {"", e.path[1]} /\ e.path \in seen /\ Finish("duplicate paths")
       \/ IsValidPath(e) /\ root \in {"", e.path[1]} /\ e.path \notin seen
          /\ ~WithinLimits(e) /\ Finish("too large")
    /\ UNCHANGED buffered

Admissible(e) ==
    IsValidPath(e) /\ root \in {"", e.path[1]} /\ e.path \notin seen /\ WithinLimits(e)

RefuseText(e) ==
    /\ Admissible(e) /\ IsSource(e)
    /\ buffered' = buffered + Take(e)
    /\ \/ Take(e) # e.size /\ Finish("wrong size")
       \/ Take(e) = e.size /\ ~e.utf8 /\ Finish("no text")

\* An entry that passes is counted, and its text is kept when it is a source.
AcceptEntry(e) ==
    /\ Admissible(e) /\ (IsSource(e) => Take(e) = e.size /\ e.utf8)
    /\ buffered' = IF IsSource(e) THEN buffered + Take(e) ELSE buffered
    /\ kept' = IF IsSource(e) THEN kept \cup {index + 1} ELSE kept
    /\ index' = index + 1
    /\ root' = e.path[1]
    /\ seen' = seen \cup {e.path}
    /\ expanded' = expanded + e.size
    /\ UNCHANGED <<response, archive, outcome>>

ReadEntry ==
    /\ outcome = "reading"
    /\ index < Len(archive.entries)
    /\ LET e == archive.entries[index + 1]
       IN  RefuseEntry(e) \/ RefuseText(e) \/ AcceptEntry(e)

HasRequired(paths) ==
    \A names \in Required : \E k \in 1..Len(names) : <<"crates", names[k]>> \in paths

\* from_rust_files: the sources that the extractor asks for are there.
MakeBundle ==
    /\ outcome = "reading"
    /\ index = Len(archive.entries)
    /\ Finish(IF root = "" THEN "no entries"
              ELSE IF HasRequired({Tail(archive.entries[k].path) : k \in kept}) THEN "bundle"
              ELSE "missing source")
    /\ UNCHANGED buffered

ExtractNext == Download \/ ReadEntry \/ MakeBundle

ExtractSpec == ExtractInit /\ [][ExtractNext]_extractVars

----------------------------------------------------------------------------
(* from_local, over the tree that the archive unpacks to: the regular files *)
(* below crates whose name ends in .rs.                                     *)

LocalSources ==
    {k \in 1..Len(archive.entries) :
        LET e == archive.entries[k]
        IN  /\ e.kind = "file"
            /\ Len(e.path) > 1 /\ e.path[2] = "crates"
            /\ Extension(e.path[Len(e.path)]) = "rs"}

\* A link of the archive, or a name that ends in .RS.
TakenOnlyFromArchives(e) == e.kind = "link" \/ Extension(e.path[Len(e.path)]) = "RS"

\* What the numbers are while the archive is read, and which entries are kept.
ExtractIInv ==
    /\ buffered \in Nat /\ expanded \in Nat /\ index \in 0..Len(archive.entries)
    /\ expanded <= MaxExpandedBytes
    /\ outcome = "downloading" => index = 0 /\ expanded = 0 /\ buffered = 0
    /\ outcome = "reading" =>
          buffered <= MaxArchiveBytes + expanded /\ Len(archive.entries) <= MaxEntries
    /\ buffered <= MaxArchiveBytes + MaxExpandedBytes + 1
    /\ index > 0 => Len(archive.entries) <= MaxEntries
    /\ kept = {k \in 1..index : IsSource(archive.entries[k])}
    /\ outcome = "bundle" => index = Len(archive.entries)

\* An archive gives the sources that a checkout of it gives, of the same
\* entries, but for two known differences: a name in .RS is a source of an
\* archive only, and so is a symbolic link, with its target for a text.
ArchiveAgreesWithCheckout ==
    outcome = "bundle" =>
        /\ LocalSources \subseteq kept
        /\ \A k \in kept \ LocalSources : TakenOnlyFromArchives(archive.entries[k])

\* Whatever the server and the headers declare, what is held of the answer and
\* of its entries stays within the limits and one byte, and so does the number
\* of entries that are read.
MemoryIsBounded ==
    /\ buffered <= MaxArchiveBytes + MaxExpandedBytes + 1
    /\ index <= MaxEntries
===============================================================================
