-------------------------- MODULE ExtractionProofs --------------------------
(***************************************************************************)
(* Theorems about Extraction, for archives of any length and any limits, and *)
(* about SourceScanner, for texts of any length.                             *)
(***************************************************************************)
EXTENDS Extraction, SourceScanner, SequenceTheorems, FiniteSetTheorems, NaturalsInduction, TLAPS

(* What the variables are that no action but the first ones change.          *)
InputsOK == response \in Responses /\ archive \in Archives

LEMMA EntryAt ==
  ASSUME InputsOK
  PROVE  /\ Len(archive.entries) \in Nat
         /\ \A k \in 1..Len(archive.entries) : archive.entries[k] \in Entry
<1>1. archive.entries \in Seq(Entry)
  BY ExtractionAssumption DEF InputsOK
<1>2. QED
  BY <1>1, ElementOfSeq, LenProperties

(* What is taken of an entry is no more than one byte beyond its size.      *)
LEMMA TakenOfEntry ==
  ASSUME NEW e \in Entry
  PROVE  Take(e) \in Nat /\ Take(e) <= e.size + 1 /\ e.size \in Nat
<1>1. e.size \in Nat /\ e.yields \in Nat
  BY DEF Entry
<1>2. QED
  BY <1>1 DEF Take, AtMost

(* The kept entries are the sources among those that have been read.         *)
LEMMA KeptStays ==
  ASSUME kept = {k \in 1..index : IsSource(archive.entries[k])},
         UNCHANGED <<archive, index, kept>>
  PROVE  kept' = {k \in 1..index' : IsSource(archive'.entries[k])}
  OBVIOUS

LEMMA FinishKeeps ==
  ASSUME ExtractIInv, NEW result, Finish(result), result \notin {"downloading", "reading", "bundle"},
         buffered' \in Nat, buffered' <= MaxArchiveBytes + MaxExpandedBytes + 1
  PROVE  ExtractIInv'
<1>1. UNCHANGED <<response, archive, index, root, seen, expanded, kept>> /\ outcome' = result
  BY DEF Finish
<1>2. kept' = {k \in 1..index' : IsSource(archive'.entries[k])}
  BY <1>1, KeptStays DEF ExtractIInv
<1>3. QED
  BY <1>1, <1>2 DEF ExtractIInv, IsSource

LEMMA DownloadKeeps ==
  ASSUME InputsOK, ExtractIInv, Download
  PROVE  ExtractIInv'
<1>1. /\ index = 0 /\ expanded = 0 /\ buffered = 0
      /\ MaxArchiveBytes \in Nat /\ MaxExpandedBytes \in Nat /\ response.yields \in Nat
      /\ Len(archive.entries) \in Nat
  BY EntryAt, ExtractionAssumption DEF ExtractIInv, Download, InputsOK
<1>2. CASE (Finish("status") \/ Finish("too large")) /\ UNCHANGED buffered
  <2>1. buffered' = buffered
    BY <1>2
  <2>2. buffered' \in Nat /\ buffered' <= MaxArchiveBytes + MaxExpandedBytes + 1
    BY <1>1, <2>1
  <2>3. PICK result \in {"status", "too large"} : Finish(result)
    BY <1>2
  <2>4. QED
    BY <2>2, <2>3, FinishKeeps
<1>3. CASE /\ buffered' = AtMost(MaxArchiveBytes + 1, response.yields)
           /\ Finish(IF buffered' > MaxArchiveBytes THEN "too large"
                     ELSE IF ~archive.standard THEN "unsupported archive"
                     ELSE IF archive.count # Len(archive.entries) THEN "duplicate paths"
                     ELSE IF Len(archive.entries) > MaxEntries THEN "too many entries"
                     ELSE "reading")
  <2>1. buffered' \in Nat /\ buffered' <= MaxArchiveBytes + 1
    <3>1. buffered' = IF response.yields < MaxArchiveBytes + 1 THEN response.yields ELSE MaxArchiveBytes + 1
      BY <1>3 DEF AtMost
    <3>2. MaxArchiveBytes \in Nat /\ response.yields \in Nat
      BY <1>1
    <3>3. QED
      BY <3>1, <3>2
  <2>2. CASE outcome' = "reading"
    <3>1. buffered' <= MaxArchiveBytes /\ Len(archive.entries) <= MaxEntries
      BY <1>1, <1>3, <2>1, <2>2, ExtractionAssumption DEF Finish
    <3>2. UNCHANGED <<response, archive, index, root, seen, expanded, kept>>
      BY <1>3 DEF Finish
    <3>3. kept' = {k \in 1..index' : IsSource(archive'.entries[k])}
      BY <3>2, KeptStays DEF ExtractIInv
    <3>4. /\ index' = 0 /\ expanded' = 0 /\ archive' = archive
          /\ buffered' <= MaxArchiveBytes + MaxExpandedBytes + 1
      BY <1>1, <3>1, <3>2, <2>1
    <3>5. QED
      BY <1>1, <2>1, <2>2, <3>1, <3>3, <3>4 DEF ExtractIInv, IsSource
  <2>3. CASE outcome' # "reading"
    <3>1. outcome' \notin {"downloading", "reading", "bundle"} /\ Finish(outcome')
      BY <1>3, <2>3 DEF Finish
    <3>2. QED
      BY <1>1, <2>1, <3>1, FinishKeeps
  <2>4. QED
    BY <2>2, <2>3
<1>4. QED
  BY <1>2, <1>3 DEF Download

LEMMA ReadEntryKeeps ==
  ASSUME InputsOK, ExtractIInv, ReadEntry
  PROVE  ExtractIInv'
<1> DEFINE e == archive.entries[index + 1]
<1>1. /\ outcome = "reading" /\ index < Len(archive.entries)
      /\ RefuseEntry(e) \/ RefuseText(e) \/ AcceptEntry(e)
  BY DEF ReadEntry
<1>2. /\ Len(archive.entries) \in Nat /\ index \in Nat /\ e \in Entry
      /\ buffered \in Nat /\ expanded \in Nat /\ expanded <= MaxExpandedBytes
      /\ buffered <= MaxArchiveBytes + expanded /\ Len(archive.entries) <= MaxEntries
      /\ MaxArchiveBytes \in Nat /\ MaxExpandedBytes \in Nat
  BY <1>1, EntryAt, ExtractionAssumption DEF ExtractIInv
<1>3. Take(e) \in Nat /\ Take(e) <= e.size + 1 /\ e.size \in Nat
  BY <1>2, TakenOfEntry
<1>4. WithinLimits(e) => expanded + e.size <= MaxExpandedBytes
  BY DEF WithinLimits
<1> HIDE DEF e
<1>5. CASE RefuseEntry(e)
  <2>1. buffered' = buffered
    BY <1>5 DEF RefuseEntry
  <2>2. buffered' \in Nat /\ buffered' <= MaxArchiveBytes + MaxExpandedBytes + 1
    BY <1>2, <2>1
  <2>3. PICK result \in {"unsafe path", "several roots", "duplicate paths", "too large"} : Finish(result)
    BY <1>5 DEF RefuseEntry
  <2>4. QED
    BY <2>2, <2>3, FinishKeeps
<1>6. CASE RefuseText(e)
  <2>1. expanded + e.size <= MaxExpandedBytes /\ buffered' = buffered + Take(e)
    BY <1>4, <1>6 DEF RefuseText, Admissible
  <2>2. buffered' \in Nat /\ buffered' <= MaxArchiveBytes + MaxExpandedBytes + 1
    BY <1>2, <1>3, <2>1
  <2>3. QED
    <3>1. PICK result \in {"wrong size", "no text"} : Finish(result)
      BY <1>6 DEF RefuseText
    <3>2. QED
      BY <2>2, <3>1, FinishKeeps
<1>7. CASE AcceptEntry(e)
  <2>1. /\ expanded + e.size <= MaxExpandedBytes
        /\ IsSource(e) => Take(e) = e.size
        /\ buffered' = IF IsSource(e) THEN buffered + Take(e) ELSE buffered
        /\ kept' = IF IsSource(e) THEN kept \cup {index + 1} ELSE kept
        /\ index' = index + 1 /\ expanded' = expanded + e.size
        /\ UNCHANGED <<response, archive, outcome>>
    BY <1>4, <1>7 DEF AcceptEntry, Admissible
  <2>2. /\ buffered' \in Nat /\ expanded' \in Nat /\ expanded' <= MaxExpandedBytes
        /\ buffered' <= MaxArchiveBytes + expanded'
    <3>1. CASE IsSource(e)
      <4>1. buffered' = buffered + e.size /\ expanded' = expanded + e.size
        BY <2>1, <3>1
      <4>2. e.size \in Nat /\ buffered \in Nat /\ expanded \in Nat /\ MaxArchiveBytes \in Nat
            /\ buffered <= MaxArchiveBytes + expanded /\ expanded + e.size <= MaxExpandedBytes
        BY <1>2, <1>3, <2>1
      <4>3. QED
        BY <4>1, <4>2
    <3>2. CASE ~IsSource(e)
      <4>1. buffered' = buffered /\ expanded' = expanded + e.size
        BY <2>1, <3>2
      <4>2. QED
        BY <1>2, <1>3, <2>1, <4>1
    <3>3. QED
      BY <3>1, <3>2
  <2>3. index' \in 0..Len(archive.entries)
    BY <1>1, <1>2, <2>1
  <2>4. kept' = {k \in 1..index' : IsSource(archive.entries[k])}
    <3>1. kept = {k \in 1..index : IsSource(archive.entries[k])}
      BY DEF ExtractIInv
    <3>2. 1..index' = (1..index) \cup {index + 1}
      BY <1>2, <2>1
    <3>3. IsSource(e) <=> IsSource(archive.entries[index + 1])
      BY DEF e
    <3>4. QED
      BY <2>1, <3>1, <3>2, <3>3
  <2>5. buffered' <= MaxArchiveBytes + MaxExpandedBytes + 1
    <3>1. /\ buffered' \in Nat /\ expanded' \in Nat /\ expanded' <= MaxExpandedBytes
          /\ buffered' <= MaxArchiveBytes + expanded'
          /\ MaxArchiveBytes \in Nat /\ MaxExpandedBytes \in Nat
      BY <1>2, <2>2
    <3>2. \A a, b, c, d \in Nat : a <= c + b /\ b <= d => a <= c + d + 1
      OBVIOUS
    <3>3. QED
      BY <3>1, <3>2
  <2>6. QED
    BY <1>1, <1>2, <2>1, <2>2, <2>3, <2>4, <2>5 DEF ExtractIInv, IsSource
<1>8. QED
  BY <1>1, <1>5, <1>6, <1>7

LEMMA BundleKeeps ==
  ASSUME InputsOK, ExtractIInv, MakeBundle
  PROVE  ExtractIInv'
<1>1. /\ outcome = "reading" /\ index = Len(archive.entries)
      /\ outcome' \in {"no entries", "bundle", "missing source"}
      /\ UNCHANGED <<response, archive, index, root, seen, expanded, kept, buffered>>
  BY DEF MakeBundle, Finish
<1>2. QED
  BY <1>1 DEF ExtractIInv, IsSource

(* The numbers and the kept entries, in every state.                         *)
THEOREM ExtractInvariant == ExtractSpec => []ExtractIInv
<1>1. ExtractInit => InputsOK /\ ExtractIInv
  <2>1. SUFFICES ASSUME ExtractInit PROVE InputsOK /\ ExtractIInv
    OBVIOUS
  <2>2. InputsOK
    BY <2>1 DEF ExtractInit, InputsOK
  <2>3. /\ Len(archive.entries) \in Nat /\ MaxArchiveBytes \in Nat /\ MaxExpandedBytes \in Nat
        /\ index = 0 /\ expanded = 0 /\ buffered = 0 /\ kept = {} /\ outcome = "downloading"
    BY <2>1, <2>2, EntryAt, ExtractionAssumption DEF ExtractInit
  <2>4. kept = {k \in 1..index : IsSource(archive.entries[k])}
    <3>1. 1..index = {}
      BY <2>3
    <3>2. QED
      BY <2>3, <3>1
  <2>5. QED
    BY <2>2, <2>3, <2>4 DEF ExtractIInv
<1>2. InputsOK /\ ExtractIInv /\ [ExtractNext]_extractVars => InputsOK' /\ ExtractIInv'
  <2>1. SUFFICES ASSUME InputsOK, ExtractIInv, [ExtractNext]_extractVars
                 PROVE  InputsOK' /\ ExtractIInv'
    OBVIOUS
  <2>2. CASE UNCHANGED extractVars
    BY <2>1, <2>2 DEF extractVars, InputsOK, ExtractIInv, IsSource
  <2>3. CASE ExtractNext
    <3>1. UNCHANGED <<response, archive>>
      BY <2>3 DEF ExtractNext, Download, ReadEntry, MakeBundle, RefuseEntry, RefuseText, AcceptEntry, Finish
    <3>2. QED
      BY <2>1, <2>3, <3>1, DownloadKeeps, ReadEntryKeeps, BundleKeeps DEF ExtractNext, InputsOK
  <2>4. QED
    BY <2>1, <2>2, <2>3
<1>3. QED
  BY <1>1, <1>2, PTL DEF ExtractSpec

(* Memory is bounded for all limits, whatever is declared.                   *)
THEOREM MemoryBounded == ExtractSpec => []MemoryIsBounded
<1>1. ExtractSpec => []InputsOK
  <2>1. ExtractInit => InputsOK
    BY DEF ExtractInit, InputsOK
  <2>2. InputsOK /\ [ExtractNext]_extractVars => InputsOK'
    BY DEF ExtractNext, Download, ReadEntry, MakeBundle, RefuseEntry, RefuseText, AcceptEntry, Finish,
       extractVars, InputsOK
  <2>3. QED
    BY <2>1, <2>2, PTL DEF ExtractSpec
<1>2. InputsOK /\ ExtractIInv => MemoryIsBounded
  <2>1. SUFFICES ASSUME InputsOK, ExtractIInv PROVE index <= MaxEntries
    BY DEF ExtractIInv, MemoryIsBounded
  <2>2. Len(archive.entries) \in Nat /\ MaxEntries \in Nat /\ index \in 0..Len(archive.entries)
        /\ (index > 0 => Len(archive.entries) <= MaxEntries)
    BY <2>1, EntryAt, ExtractionAssumption DEF ExtractIInv
  <2>3. QED
    BY <2>2
<1>3. QED
  BY <1>1, <1>2, ExtractInvariant, PTL

(* A bundle of an archive is that of its checkout, but for the two known     *)
(* differences, for every archive.                                           *)
THEOREM ArchiveAgrees == ExtractSpec => []ArchiveAgreesWithCheckout
<1>1. ExtractSpec => []InputsOK
  <2>1. ExtractInit => InputsOK
    BY DEF ExtractInit, InputsOK
  <2>2. InputsOK /\ [ExtractNext]_extractVars => InputsOK'
    BY DEF ExtractNext, Download, ReadEntry, MakeBundle, RefuseEntry, RefuseText, AcceptEntry, Finish,
       extractVars, InputsOK
  <2>3. QED
    BY <2>1, <2>2, PTL DEF ExtractSpec
<1>2. InputsOK /\ ExtractIInv => ArchiveAgreesWithCheckout
  <2>1. SUFFICES ASSUME InputsOK, ExtractIInv, outcome = "bundle"
                 PROVE  /\ LocalSources \subseteq kept
                        /\ \A k \in kept \ LocalSources : TakenOnlyFromArchives(archive.entries[k])
    BY DEF ArchiveAgreesWithCheckout
  <2>2. kept = {k \in 1..Len(archive.entries) : IsSource(archive.entries[k])}
    BY <2>1 DEF ExtractIInv
  <2>3. \A k \in 1..Len(archive.entries) : archive.entries[k].kind \in {"file", "dir", "link"}
    BY <2>1, EntryAt DEF Entry
  <2>4. LocalSources \subseteq kept
    BY <2>2 DEF LocalSources, IsSource
  <2>5. ASSUME NEW k \in kept \ LocalSources
        PROVE  TakenOnlyFromArchives(archive.entries[k])
    BY <2>2, <2>3, <2>5 DEF LocalSources, IsSource, TakenOnlyFromArchives
  <2>6. QED
    BY <2>4, <2>5
<1>3. QED
  BY <1>1, <1>2, ExtractInvariant, PTL

----------------------------------------------------------------------------
(* The scanner: positions, tokens and depths, then the steps.                *)

LEMMA LeastPosition ==
  ASSUME NEW S \in SUBSET Nat, S # {}
  PROVE  Min(S) \in S /\ \A m \in S : Min(S) <= m
<1>1. PICK n \in S : \A m \in S : ~(<<m, n>> \in OpToRel(<, Nat))
  BY NatLessThanWellFounded, WFMin
<1>2. \A m \in S : ~(m < n)
  BY <1>1 DEF OpToRel
<1>3. n \in S /\ \A m \in S : n <= m
  BY <1>2
<1>4. QED
  BY <1>3 DEF Min

LEMMA LastPosition ==
  ASSUME NEW N \in Nat, NEW S \in SUBSET (0..N), S # {}
  PROVE  Max(S) \in S /\ \A m \in S : Max(S) >= m
<1> DEFINE T == {N - m : m \in S}
<1>0. \A m \in S : m \in Nat /\ N - m \in Nat
  OBVIOUS
<1>1. T \in SUBSET Nat /\ T # {}
  BY <1>0
<1> HIDE DEF T
<1>2. Min(T) \in T /\ \A x \in T : Min(T) <= x
  BY <1>1, LeastPosition
<1>3. PICK m \in S : \A n \in S : N - m <= N - n
  BY <1>2 DEF T
<1>4. \A n \in S : m >= n
  BY <1>3
<1>5. QED
  BY <1>4 DEF Max

(* The first position of a set is in the text, or right behind it.          *)
LEMMA FirstIsThere ==
  ASSUME NEW text, Len(text) \in Nat, NEW set \in SUBSET (1..Len(text))
  PROVE  /\ FirstOf(text, set) \in 1..(Len(text) + 1)
         /\ set # {} => FirstOf(text, set) \in set
         /\ set = {} => FirstOf(text, set) = Len(text) + 1
         /\ \A k \in set : FirstOf(text, set) <= k
<1>1. CASE set = {}
  BY <1>1 DEF FirstOf
<1>2. CASE set # {}
  <2>1. set \in SUBSET Nat
    OBVIOUS
  <2>2. Min(set) \in set /\ \A m \in set : Min(set) <= m
    BY <1>2, <2>1, LeastPosition
  <2>3. FirstOf(text, set) = Min(set) /\ Min(set) \in 1..Len(text)
    BY <1>2, <2>2 DEF FirstOf
  <2>4. QED
    BY <1>2, <2>2, <2>3
<1>3. QED
  BY <1>1, <1>2

LEMMA CommentFromIsThere ==
  ASSUME NEW text, Len(text) \in Nat, NEW i \in Nat \ {0}, i <= Len(text) + 1
  PROVE  CommentFrom(text, i) \in Nat /\ CommentFrom(text, i) > i
<1> DEFINE openings == {k \in i..Len(text) : Pair(text, k) = <<"/", "*">>}
<1> DEFINE closings == {k \in i..Len(text) : Pair(text, k) = <<"*", "/">>}
<1> DEFINE Real(k) == EvenBefore(openings \cup closings, i, k)
<1> DEFINE set == {k \in closings :
            Real(k) /\ Cardinality({j \in openings : j < k /\ Real(j)}) + 1
                         = Cardinality({j \in closings : j <= k /\ Real(j)})}
<1>1. set \in SUBSET (i..Len(text))
  OBVIOUS
<1>2. CommentFrom(text, i) = FirstOf(text, set) + 2
  BY DEF CommentFrom
<1> HIDE DEF set
<1>3. set \in SUBSET (1..Len(text))
  BY <1>1
<1>4. /\ FirstOf(text, set) \in 1..(Len(text) + 1)
      /\ set # {} => FirstOf(text, set) \in set
      /\ set = {} => FirstOf(text, set) = Len(text) + 1
  BY <1>3, FirstIsThere
<1>5. QED
  BY <1>1, <1>2, <1>4

LEMMA CharactersDiffer ==
  /\ {Quote, OpenBrace, CloseBrace} \cap ({"(", ")", "[", "]", "<", ">", "\\", "'", "/", "*", "\n", "r", "#", ""} \cup Separators) = {}
  /\ "" # "\\" /\ Quote # OpenBrace /\ Quote # CloseBrace /\ OpenBrace # CloseBrace
  /\ Separators \cap {"(", ")", "[", "]", "<", ">", "'", "r", "#"} = {}
  BY Zenon DEF Quote, OpenBrace, CloseBrace, Separators

(* What a token is, by the characters at its start.                          *)
LEMMA TokenAt ==
  ASSUME NEW text \in Seq(Characters), NEW i \in 1..Len(text)
  PROVE  /\ Pair(text, i) = <<"/", "/">> => Token(text, i) =
              [kind |-> "line", next |-> Behind(text, i + 2, "\n")]
         /\ Pair(text, i) = <<"/", "*">> => Token(text, i) =
              [kind |-> "block", next |-> CommentFrom(text, i + 2)]
         /\ IsRaw(text, i) => Token(text, i) =
              [kind |-> "raw",
               next |-> RawFrom(text, i + 2 + Hashes(text, i + 1), Hashes(text, i + 1))]
         /\ text[i] = Quote => Token(text, i) =
              [kind |-> "string", next |-> StringFrom(text, i + 1)]
         /\ IsChar(text, i) => Token(text, i) =
              [kind |-> "char", next |-> CharFrom(text, i)]
         /\ (/\ Pair(text, i) \notin {<<"/", "/">>, <<"/", "*">>} /\ ~IsRaw(text, i)
             /\ text[i] # Quote /\ ~IsChar(text, i))
              => Token(text, i) = [kind |-> "code", next |-> i + 1]
<1>1. Len(text) \in Nat /\ At(text, i) = text[i]
  BY LenProperties DEF At
<1>3. IsChar(text, i) => text[i] = "'"
  BY <1>1 DEF IsChar
<1>4. /\ Pair(text, i) = <<"/", "/">> => text[i] = "/" /\ Pair(text, i) # <<"/", "*">>
      /\ Pair(text, i) = <<"/", "*">> => text[i] = "/"
      /\ IsRaw(text, i) => text[i] = "r"
      /\ Quote \notin {"/", "r", "'"}
  BY <1>1, CharactersDiffer DEF Pair, IsRaw
<1>5. CASE Pair(text, i) = <<"/", "/">>
  BY <1>3, <1>4, <1>5 DEF Token
<1>6. CASE Pair(text, i) = <<"/", "*">>
  BY <1>3, <1>4, <1>6 DEF Token
<1>7. CASE IsRaw(text, i)
  BY <1>3, <1>4, <1>7 DEF Token
<1>8. CASE text[i] = Quote
  BY <1>3, <1>4, <1>8 DEF Token
<1>9. CASE IsChar(text, i)
  BY <1>3, <1>4, <1>9 DEF Token
<1>10. CASE /\ Pair(text, i) \notin {<<"/", "/">>, <<"/", "*">>} /\ ~IsRaw(text, i)
            /\ text[i] # Quote /\ ~IsChar(text, i)
  BY <1>10 DEF Token
<1>11. QED
  BY <1>5, <1>6, <1>7, <1>8, <1>9, <1>10

LEMMA BehindIsThere ==
  ASSUME NEW text \in Seq(Characters), NEW i \in Nat \ {0}, NEW c
  PROVE  /\ Behind(text, i, c) \in Nat
         /\ i <= Len(text) + 1 => Behind(text, i, c) > i
         /\ i > Len(text) => Behind(text, i, c) = Len(text) + 2
         /\ \A k \in i..Len(text) : text[k] = c => Behind(text, i, c) <= k + 1
         /\ \/ Behind(text, i, c) = Len(text) + 2
            \/ /\ Behind(text, i, c) - 1 \in i..Len(text)
               /\ text[Behind(text, i, c) - 1] = c
<1> DEFINE set == {k \in i..Len(text) : text[k] = c}
<1>1. Len(text) \in Nat /\ set \in SUBSET (1..Len(text)) /\ set \in SUBSET (i..Len(text))
  BY LenProperties
<1>2. Behind(text, i, c) = FirstOf(text, set) + 1
  BY DEF Behind
<1> HIDE DEF set
<1>3. /\ FirstOf(text, set) \in 1..(Len(text) + 1)
      /\ set # {} => FirstOf(text, set) \in set
      /\ set = {} => FirstOf(text, set) = Len(text) + 1
      /\ \A k \in set : FirstOf(text, set) <= k
  BY <1>1, FirstIsThere
<1>4. PICK n : n = Len(text)
  OBVIOUS
<1>5. PICK f : f = FirstOf(text, set)
  OBVIOUS
<1>6. Behind(text, i, c) = f + 1 /\ f \in 1..(n + 1) /\ n \in Nat
  BY <1>1, <1>2, <1>3, <1>4, <1>5
<1>7. (f = n + 1 /\ set = {}) \/ (f \in i..n /\ text[f] = c)
  BY <1>1, <1>3, <1>4, <1>5 DEF set
<1>8. /\ \A k \in i..n : text[k] = c => f <= k
      /\ i > n => set = {}
  BY <1>3, <1>4, <1>5 DEF set
<1>9. QED
  BY <1>4, <1>6, <1>7, <1>8

LEMMA StringFromIsThere ==
  ASSUME NEW text \in Seq(Characters), NEW i \in Nat \ {0}, i <= Len(text) + 1
  PROVE  StringFrom(text, i) \in Nat /\ StringFrom(text, i) > i
<1> DEFINE slashes == {k \in i..Len(text) : text[k] = "\\"}
<1> DEFINE set == {k \in i..Len(text) : text[k] = Quote /\ EvenBefore(slashes, i, k)}
<1>0. Len(text) \in Nat /\ set \in SUBSET (i..Len(text))
  BY LenProperties
<1>1. Len(text) \in Nat /\ set \in SUBSET (1..Len(text)) /\ set \in SUBSET (i..Len(text))
  <2> HIDE DEF set
  <2>1. QED
    BY <1>0
<1>2. StringFrom(text, i) = FirstOf(text, set) + 1
  BY DEF StringFrom
<1> HIDE DEF set
<1>3. /\ FirstOf(text, set) \in 1..(Len(text) + 1)
      /\ set # {} => FirstOf(text, set) \in set
      /\ set = {} => FirstOf(text, set) = Len(text) + 1
  BY <1>1, FirstIsThere
<1>4. QED
  BY <1>1, <1>2, <1>3

(* The hashes of a raw string, and the quotes before and behind it.          *)
LEMMA HashesAre ==
  ASSUME NEW text \in Seq(Characters), NEW i \in Nat \ {0}, i <= Len(text) + 1
  PROVE  /\ Hashes(text, i) \in Nat /\ i + Hashes(text, i) <= Len(text) + 1
         /\ \A k \in Nat : i <= k /\ k < i + Hashes(text, i) => text[k] = "#"
<1> DEFINE set == {k \in i..Len(text) : text[k] # "#"}
<1>1. Len(text) \in Nat
  BY LenProperties
<1>2. set \in SUBSET (1..Len(text)) /\ set \in SUBSET (i..Len(text))
  BY <1>1
<1>3. PICK first : first = FirstOf(text, set)
  OBVIOUS
<1>4. Hashes(text, i) = first - i
  BY <1>3 DEF Hashes
<1>5. \A k \in i..Len(text) : text[k] = "#" \/ k \in set
  OBVIOUS
<1> HIDE DEF set
<1>6. /\ first \in 1..(Len(text) + 1) /\ \A k \in set : first <= k
      /\ first \in set \/ first = Len(text) + 1
  BY <1>1, <1>2, <1>3, FirstIsThere
<1>7. first \in Nat /\ i <= first
  BY <1>1, <1>2, <1>6
<1>8. ASSUME NEW k \in Nat, i <= k, k < first PROVE text[k] = "#"
  <2>1. k \in i..Len(text)
    BY <1>1, <1>6, <1>8
  <2>2. k \notin set
    BY <1>6, <1>7, <1>8
  <2>3. QED
    BY <1>5, <2>1, <2>2
<1>9. QED
  BY <1>1, <1>4, <1>6, <1>7, <1>8

LEMMA RawIs ==
  ASSUME NEW text \in Seq(Characters), NEW i \in 1..Len(text), IsRaw(text, i)
  PROVE  /\ text[i] = "r"
         /\ Hashes(text, i + 1) \in Nat /\ i + 1 + Hashes(text, i + 1) <= Len(text)
         /\ text[i + 1 + Hashes(text, i + 1)] = Quote
         /\ \A k \in Nat : i < k /\ k < i + 1 + Hashes(text, i + 1) => text[k] = "#"
<1>1. Len(text) \in Nat /\ i + 1 \in Nat \ {0} /\ i + 1 <= Len(text) + 1
  BY LenProperties
<1>2. PICK h : h = Hashes(text, i + 1)
  OBVIOUS
<1>3. h \in Nat /\ \A k \in Nat : i + 1 <= k /\ k < i + 1 + h => text[k] = "#"
  BY <1>1, <1>2, HashesAre
<1>4. At(text, i + 1 + h) = Quote /\ text[i] = "r"
  BY <1>2 DEF IsRaw
<1>5. i + 1 + h \in 1..Len(text) /\ text[i + 1 + h] = Quote
  BY <1>4, CharactersDiffer DEF At
<1>6. QED
  BY <1>1, <1>2, <1>3, <1>4, <1>5

LEMMA RawFromIsThere ==
  ASSUME NEW text \in Seq(Characters), NEW i \in Nat \ {0}, i <= Len(text) + 1,
         NEW h \in Nat
  PROVE  /\ RawFrom(text, i, h) \in Nat /\ RawFrom(text, i, h) >= i + 1 + h
         /\ \A k \in Nat :
              RawFrom(text, i, h) - h <= k /\ k < RawFrom(text, i, h) /\ k <= Len(text)
                => text[k] = "#"
         /\ (\A k \in Nat : i <= k /\ k < RawFrom(text, i, h) - 1 - h => At(text, k) # Quote)
              => RawFrom(text, i, h) = Behind(text, i, Quote) + h
<1> DEFINE quotes == {k \in i..Len(text) : text[k] = Quote}
<1> DEFINE set == {k \in i..Len(text) :
                     text[k] = Quote /\ \A j \in 1..h : At(text, k + j) = "#"}
<1>1. Len(text) \in Nat
  BY LenProperties
<1>2. /\ set \in SUBSET (1..Len(text)) /\ set \in SUBSET (i..Len(text))
      /\ quotes \in SUBSET (1..Len(text)) /\ set \subseteq quotes
  BY <1>1
<1>3. PICK first : first = FirstOf(text, set)
  OBVIOUS
<1>4. PICK quote : quote = FirstOf(text, quotes)
  OBVIOUS
<1>5. RawFrom(text, i, h) = first + 1 + h /\ Behind(text, i, Quote) = quote + 1
  BY <1>3, <1>4 DEF RawFrom, Behind
<1>6. \A k \in quotes : k \in i..Len(text) /\ text[k] = Quote
  OBVIOUS
<1>7. \A k \in set : \A j \in 1..h : At(text, k + j) = "#"
  OBVIOUS
<1> HIDE DEF set, quotes
<1>8. /\ first \in 1..(Len(text) + 1) /\ \A k \in set : first <= k
      /\ first \in set \/ (first = Len(text) + 1 /\ set = {})
  BY <1>1, <1>2, <1>3, FirstIsThere
<1>9. /\ quote \in 1..(Len(text) + 1) /\ \A k \in quotes : quote <= k
      /\ quote \in quotes \/ (quote = Len(text) + 1 /\ quotes = {})
  BY <1>1, <1>2, <1>4, FirstIsThere
<1>10. first \in Nat /\ first >= i
  BY <1>1, <1>2, <1>8
<1>11. ASSUME NEW k \in Nat, first + 1 <= k, k < first + 1 + h, k <= Len(text)
       PROVE  text[k] = "#"
  <2>1. first \in set
    BY <1>1, <1>8, <1>11
  <2>2. k - first \in 1..h /\ first + (k - first) = k
    BY <1>10, <1>11
  <2>3. At(text, k) = "#"
    BY <1>7, <2>1, <2>2
  <2>4. k \in 1..Len(text)
    BY <1>1, <1>10, <1>11
  <2>5. QED
    BY <2>3, <2>4 DEF At
<1>12. ASSUME \A k \in Nat : i <= k /\ k < first => At(text, k) # Quote
       PROVE  first = quote
  <2>1. CASE quote \in quotes
    <3>1. quote \in i..Len(text) /\ quote \in 1..Len(text) /\ text[quote] = Quote /\ quote \in Nat
      BY <1>1, <1>2, <1>6, <2>1
    <3>2. At(text, quote) = Quote
      BY <3>1 DEF At
    <3>3. first <= quote
      BY <1>10, <1>12, <3>1, <3>2
    <3>4. quote <= first
      BY <1>2, <1>8, <1>9, <3>1
    <3>5. QED
      BY <1>10, <3>1, <3>3, <3>4
  <2>2. CASE quote = Len(text) + 1 /\ quotes = {}
    BY <1>2, <1>8, <2>2
  <2>3. QED
    BY <1>9, <2>1, <2>2
<1>13. RawFrom(text, i, h) - h = first + 1 /\ RawFrom(text, i, h) - 1 - h = first
  BY <1>5, <1>10
<1>14. RawFrom(text, i, h) \in Nat /\ RawFrom(text, i, h) >= i + 1 + h
  BY <1>5, <1>10
<1>15. RawFrom(text, i, h) = first + 1 + h /\ (first = quote => RawFrom(text, i, h) = Behind(text, i, Quote) + h)
  <2>1. quote \in Nat
    BY <1>1, <1>9
  <2>2. QED
    BY <1>5, <1>10, <2>1
<1>16. QED
  BY <1>11, <1>12, <1>13, <1>14, <1>15

(* A token ends behind its start, and what is known of where.                *)
LEMMA TokenIsThere ==
  ASSUME NEW text \in Seq(Characters), NEW i \in 1..Len(text)
  PROVE  Token(text, i).next \in Nat /\ Token(text, i).next > i
<1>1. PICK n : n = Len(text)
  OBVIOUS
<1>2. n \in Nat /\ i \in Nat /\ i > 0 /\ i <= n
  BY <1>1, LenProperties
<1>3. CASE Pair(text, i) \in {<<"/", "/">>, <<"/", "*">>}
  <2>1. i + 1 \in 1..n
    <3>1. At(text, i + 1) # ""
      BY <1>3, CharactersDiffer DEF Pair
    <3>2. QED
      BY <1>1, <1>2, <3>1 DEF At
  <2>2. i + 2 \in Nat \ {0} /\ i + 2 <= Len(text) + 1
    BY <1>1, <1>2, <2>1
  <2>3. ASSUME NEW c PROVE Behind(text, i + 2, c) \in Nat /\ Behind(text, i + 2, c) > i + 2
    BY <2>2, BehindIsThere
  <2>4. CommentFrom(text, i + 2) \in Nat /\ CommentFrom(text, i + 2) > i + 2
    BY <1>1, <1>2, <2>2, CommentFromIsThere
  <2>5. CASE Pair(text, i) = <<"/", "/">>
    <3>1. Token(text, i) = [kind |-> "line", next |-> Behind(text, i + 2, "\n")]
      BY <2>5, TokenAt
    <3>2. QED
      BY <3>1, <1>2, <2>3
  <2>6. CASE Pair(text, i) = <<"/", "*">>
    <3>1. Token(text, i) = [kind |-> "block", next |-> CommentFrom(text, i + 2)]
      BY <2>6, TokenAt
    <3>2. QED
      BY <3>1, <1>2, <2>4
  <2>7. QED
    BY <1>3, <2>5, <2>6
<1>4. CASE text[i] = Quote
  <2>1. i + 1 \in Nat \ {0} /\ i + 1 <= Len(text) + 1
    BY <1>1, <1>2
  <2>2. StringFrom(text, i + 1) \in Nat /\ StringFrom(text, i + 1) > i + 1
    BY <2>1, StringFromIsThere
  <2>3. Token(text, i) = [kind |-> "string", next |-> StringFrom(text, i + 1)]
    BY <1>4, TokenAt
  <2>4. QED
    BY <1>2, <2>2, <2>3
<1>5. CASE IsChar(text, i)
  <2>1. Token(text, i) = [kind |-> "char", next |-> CharFrom(text, i)]
    BY <1>5, TokenAt
  <2>2. Token(text, i).next = CharFrom(text, i)
    BY <2>1
  <2>3. i + 3 \in Nat \ {0}
    BY <1>2
  <2>4. Behind(text, i + 3, "'") \in Nat /\ Behind(text, i + 3, "'") > i
    <3>1. PICK b : b = Behind(text, i + 3, "'")
      OBVIOUS
    <3>2. b \in Nat /\ (b = n + 2 \/ b - 1 >= i + 3)
      BY <1>1, <1>2, <2>3, <3>1, BehindIsThere
    <3>3. QED
      BY <1>2, <3>1, <3>2
  <2>5. QED
    BY <1>2, <2>2, <2>4 DEF CharFrom
<1>6. CASE /\ Pair(text, i) \notin {<<"/", "/">>, <<"/", "*">>} /\ ~IsRaw(text, i)
           /\ text[i] # Quote /\ ~IsChar(text, i)
  <2>1. Token(text, i) = [kind |-> "code", next |-> i + 1]
    BY <1>6, TokenAt
  <2>2. Token(text, i).next = i + 1
    BY <2>1
  <2>3. QED
    BY <1>2, <2>2
<1>7. CASE IsRaw(text, i)
  <2>1. PICK h : h = Hashes(text, i + 1)
    OBVIOUS
  <2>2. h \in Nat /\ i + 1 + h <= n
    BY <1>1, <1>7, <2>1, RawIs
  <2>3. i + 2 + h \in Nat \ {0} /\ i + 2 + h <= Len(text) + 1
    BY <1>1, <1>2, <2>2
  <2>4. Token(text, i) = [kind |-> "raw", next |-> RawFrom(text, i + 2 + h, h)]
    BY <1>7, <2>1, TokenAt
  <2>5. PICK r : r = RawFrom(text, i + 2 + h, h)
    OBVIOUS
  <2>6. r \in Nat /\ r >= i + 2 + h + 1 + h
    BY <2>2, <2>3, <2>5, RawFromIsThere
  <2>7. Token(text, i).next = r
    BY <2>4, <2>5
  <2>8. QED
    BY <1>2, <2>2, <2>6, <2>7
<1>8. QED
  BY <1>3, <1>4, <1>5, <1>6, <1>7

(* Tokens start at the first position and behind each token, and nowhere in  *)
(* one: if a token started in another, the first such start could be left    *)
(* out of the set of all starts.                                             *)
LEMMA StartsAre ==
  ASSUME NEW text, NEW i \in 1..Len(text)
  PROVE  i \in Starts(text) <=>
           \A set \in SUBSET (1..Len(text)) :
              /\ 1 \in set
              /\ \A q \in set : Token(text, q).next \in set \/ Token(text, q).next > Len(text)
              => i \in set
  BY DEF Starts

LEMMA StartsClosed ==
  ASSUME NEW text \in Seq(Characters)
  PROVE  /\ Starts(text) \subseteq 1..Len(text)
         /\ Len(text) > 0 => 1 \in Starts(text)
         /\ \A i \in Starts(text) :
              Token(text, i).next <= Len(text) => Token(text, i).next \in Starts(text)
<1>1. PICK n : n = Len(text)
  OBVIOUS
<1>2. n \in Nat
  BY <1>1, LenProperties
<1>3. Starts(text) \subseteq 1..Len(text) /\ (Len(text) > 0 => 1 \in Starts(text))
  BY <1>1, <1>2 DEF Starts
<1>4. ASSUME NEW i \in Starts(text), Token(text, i).next <= Len(text)
      PROVE  Token(text, i).next \in Starts(text)
  <2>1. Token(text, i).next \in 1..Len(text)
    BY <1>1, <1>2, <1>3, <1>4, TokenIsThere
  <2>2. i \in 1..Len(text)
    BY <1>3, <1>4
  <2>3. ASSUME NEW set \in SUBSET (1..Len(text)), 1 \in set,
               \A q \in set : Token(text, q).next \in set \/ Token(text, q).next > Len(text)
        PROVE  Token(text, i).next \in set
    <3>1. i \in set
      BY <1>4, <2>2, <2>3, StartsAre
    <3>2. QED
      BY <1>1, <1>2, <1>4, <2>1, <2>3, <3>1
  <2>4. QED
    BY <2>1, <2>3, StartsAre
<1>5. QED
  BY <1>3, <1>4

LEMMA NoStartWithin ==
  ASSUME NEW text \in Seq(Characters), NEW i \in Starts(text), NEW k \in Starts(text), i < k
  PROVE  Token(text, i).next <= k
<1> DEFINE Covers(s, r) == s < r /\ r < Token(text, s).next
<1> DEFINE Bad == {s \in Starts(text) : \E r \in Starts(text) : Covers(s, r)}
<1>0. /\ Starts(text) \subseteq 1..Len(text) /\ Len(text) \in Nat
      /\ \A s \in Starts(text) : s \in Nat /\ s > 0 /\ Token(text, s).next \in Nat
                                /\ Token(text, s).next > s
  BY StartsClosed, TokenIsThere, LenProperties
<1> SUFFICES ASSUME Bad # {} PROVE FALSE
  BY <1>0
<1>1. Bad \in SUBSET Nat
  BY <1>0
<1>2. PICK s \in Bad : \A q \in Bad : s <= q
  <2> HIDE DEF Bad
  <2>1. QED
    BY <1>1, LeastPosition
<1> DEFINE Inside == {r \in Starts(text) : Covers(s, r)}
<1>3. s \in Starts(text) /\ Inside # {} /\ Inside \in SUBSET Nat
  BY <1>0, <1>2
<1>4. PICK r \in Inside : \A q \in Inside : r <= q
  <2> HIDE DEF Inside
  <2>1. QED
    BY <1>3, LeastPosition
<1>5. r \in Starts(text) /\ s < r /\ r < Token(text, s).next
  BY <1>4
<1>6. \A q \in Starts(text) : Token(text, q).next # r
  <2> SUFFICES ASSUME NEW q \in Starts(text), Token(text, q).next = r PROVE FALSE
    OBVIOUS
  <2>1. q < r /\ q # s
    BY <1>0, <1>5
  <2>2. CASE q < s
    <3>1. Covers(q, s)
      BY <1>5, <2>2
    <3>2. q \in Bad
      BY <1>3, <3>1
    <3>3. q \in Nat /\ s \in Nat /\ s <= q
      <4> HIDE DEF Bad
      <4>1. QED
        BY <1>1, <1>2, <3>2
    <3>4. QED
      BY <2>2, <3>3
  <2>3. CASE s < q
    <3>1. q \in Inside
      BY <1>0, <1>3, <1>5, <2>1, <2>3
    <3>2. QED
      BY <1>0, <1>4, <1>5, <2>1, <3>1
  <2>4. QED
    BY <1>0, <1>3, <2>1, <2>2, <2>3
<1> DEFINE smaller == Starts(text) \ {r}
<1>7. /\ smaller \in SUBSET (1..Len(text)) /\ 1 \in smaller
      /\ \A q \in smaller : Token(text, q).next \in smaller \/ Token(text, q).next > Len(text)
  <2>1. 1 \in Starts(text) /\ r # 1
    BY <1>0, <1>3, <1>5, StartsClosed
  <2>2. ASSUME NEW q \in smaller
        PROVE  Token(text, q).next \in smaller \/ Token(text, q).next > Len(text)
    BY <1>0, <1>6, StartsClosed
  <2>3. QED
    BY <1>0, <2>1, <2>2
<1>8. r \notin Starts(text)
  <2> HIDE DEF smaller
  <2>1. r \notin smaller
    BY DEF smaller
  <2>2. QED
    BY <1>0, <1>7, <2>1, StartsAre
<1>9. QED
  BY <1>5, <1>8

----------------------------------------------------------------------------
(* The depth of the brackets moves with code alone, by one at a time.        *)
LEMMA CodeIsThere ==
  ASSUME NEW text \in Seq(Characters)
  PROVE  CodeOf(text) \subseteq Starts(text) /\ CodeOf(text) \subseteq 1..Len(text)
  BY StartsClosed DEF CodeOf

LEMMA CodeIsFinite ==
  ASSUME NEW text \in Seq(Characters)
  PROVE  /\ CodeOf(text) \in SUBSET Nat /\ IsFiniteSet(CodeOf(text))
         /\ \A k \in CodeOf(text) : k > 0 /\ k <= Len(text)
<1>1. PICK n \in Nat : n = Len(text)
  BY LenProperties
<1>2. CodeOf(text) \subseteq 1..n
  BY <1>1, CodeIsThere
<1>3. IsFiniteSet(1..n)
  BY FS_Interval
<1>4. IsFiniteSet(CodeOf(text))
  BY <1>2, <1>3, FS_Subset
<1>5. QED
  BY <1>1, <1>2, <1>4

LEMMA CountType ==
  ASSUME NEW text, NEW code \in SUBSET Nat, IsFiniteSet(code), NEW i \in Int, NEW c
  PROVE  Count(text, code, i, c) \in Nat
<1> DEFINE those == {k \in code : k <= i /\ text[k] = c}
<1>1. those \subseteq code
  OBVIOUS
<1>2. IsFiniteSet(those)
  BY <1>1, FS_Subset
<1>3. QED
  BY <1>2, FS_CardinalityType DEF Count

LEMMA DepthType ==
  ASSUME NEW text, NEW code \in SUBSET Nat, IsFiniteSet(code), NEW i \in Int, NEW kind
  PROVE  Depth(text, code, i, kind) \in Int
<1>1. ASSUME NEW c PROVE Count(text, code, i, c) \in Nat
  BY CountType
<1>2. QED
  BY <1>1 DEF Depth

LEMMA DepthStretch ==
  ASSUME NEW text, NEW code \in SUBSET Nat, NEW kind,
         NEW i \in Int, NEW j \in Int, \A k \in code : (k <= j) <=> (k <= i)
  PROVE  Depth(text, code, j, kind) = Depth(text, code, i, kind)
<1>1. ASSUME NEW c
      PROVE  {k \in code : k <= j /\ text[k] = c} = {k \in code : k <= i /\ text[k] = c}
  OBVIOUS
<1>2. ASSUME NEW c PROVE Count(text, code, j, c) = Count(text, code, i, c)
  BY <1>1 DEF Count
<1>3. QED
  BY <1>2 DEF Depth

LEMMA DepthAtZero ==
  ASSUME NEW text, NEW code \in SUBSET Nat, \A k \in code : k > 0, NEW kind
  PROVE  Depth(text, code, 0, kind) = 0
<1>1. \A k \in code : ~(k <= 0)
  OBVIOUS
<1>2. ASSUME NEW c PROVE Count(text, code, 0, c) = 0
  <2>1. {k \in code : k <= 0 /\ text[k] = c} = {}
    BY <1>1
  <2>2. QED
    BY <2>1, FS_EmptySet DEF Count
<1>3. QED
  BY <1>2 DEF Depth

LEMMA OneMore ==
  ASSUME NEW text, NEW code \in SUBSET Nat, IsFiniteSet(code), NEW i \in code, NEW c
  PROVE  Count(text, code, i, c) =
           Count(text, code, i - 1, c) + (IF text[i] = c THEN 1 ELSE 0)
<1> DEFINE before == {k \in code : k <= i - 1 /\ text[k] = c}
<1>0. i \in Nat /\ \A k \in code : k \in Nat
  OBVIOUS
<1>1. /\ ~(i <= i - 1) /\ i <= i
      /\ \A k \in code : (k <= i) <=> (k <= i - 1 \/ k = i)
  BY <1>0
<1>3. before \subseteq code
  OBVIOUS
<1>4. i \notin before
  BY <1>1
<1>5. IsFiniteSet(before)
  BY <1>3, FS_Subset
<1>6. Cardinality(before) \in Nat
  BY <1>5, FS_CardinalityType
<1>7. CASE text[i] = c
  <2>1. {k \in code : k <= i /\ text[k] = c} = before \cup {i}
    BY <1>1, <1>7
  <2>2. Cardinality(before \cup {i}) = Cardinality(before) + 1
    <3> HIDE DEF before
    <3>1. QED
      BY <1>4, <1>5, FS_AddElement
  <2>3. QED
    BY <1>7, <2>1, <2>2 DEF Count
<1>8. CASE text[i] # c
  <2>1. {k \in code : k <= i /\ text[k] = c} = before
    BY <1>1, <1>8
  <2>2. QED
    BY <1>6, <1>8, <2>1 DEF Count
<1>9. QED
  BY <1>7, <1>8

LEMMA Brackets ==
  /\ Opening["round"] = "(" /\ Opening["square"] = "["
  /\ Opening["brace"] = OpenBrace /\ Opening["angle"] = "<"
  /\ Closing["round"] = ")" /\ Closing["square"] = "]"
  /\ Closing["brace"] = CloseBrace /\ Closing["angle"] = ">"
  BY DEF Opening, Closing

LEMMA DepthStep ==
  ASSUME NEW text, NEW code \in SUBSET Nat, IsFiniteSet(code), NEW i \in code, NEW kind \in Kinds
  PROVE  /\ text[i] = Opening[kind] =>
              Depth(text, code, i, kind) = Depth(text, code, i - 1, kind) + 1
         /\ text[i] = Closing[kind] =>
              Depth(text, code, i, kind) = Depth(text, code, i - 1, kind) - 1
         /\ text[i] \notin {Opening[kind], Closing[kind]} =>
              Depth(text, code, i, kind) = Depth(text, code, i - 1, kind)
<1>1. Opening[kind] # Closing[kind]
  <2>1. kind = "round" \/ kind = "square" \/ kind = "brace" \/ kind = "angle"
    BY DEF Kinds
  <2>2. CASE kind = "round"
    BY <2>2, Brackets
  <2>3. CASE kind = "square"
    BY <2>3, Brackets
  <2>4. CASE kind = "brace"
    BY <2>4, Brackets, CharactersDiffer
  <2>5. CASE kind = "angle"
    BY <2>5, Brackets
  <2>6. QED
    BY <2>1, <2>2, <2>3, <2>4, <2>5
<1>2. i \in Int /\ i - 1 \in Int
  <2>1. i \in Nat
    OBVIOUS
  <2>2. QED
    BY <2>1
<1>3. ASSUME NEW c
      PROVE  /\ Count(text, code, i - 1, c) \in Nat
             /\ Count(text, code, i, c) =
                  Count(text, code, i - 1, c) + (IF text[i] = c THEN 1 ELSE 0)
  BY <1>2, CountType, OneMore
<1>4. QED
  BY <1>1, <1>3 DEF Depth

(* Between two positions without code between them, and at one of no code.   *)
LEMMA DepthStays ==
  ASSUME NEW text, NEW code \in SUBSET Nat, NEW kind,
         NEW i \in Nat, NEW next \in Nat, i <= next, \A k \in code : k < i \/ next <= k
  PROVE  Depth(text, code, next - 1, kind) = Depth(text, code, i - 1, kind)
<1>1. PICK a \in Int : a = i - 1
  OBVIOUS
<1>2. PICK b \in Int : b = next - 1
  OBVIOUS
<1>3. \A k \in code : (k <= b) <=> (k <= a)
  <2>1. \A k \in code : k \in Int
    OBVIOUS
  <2>2. \A k \in Int : k < i => k <= b /\ k <= a
    BY <1>1, <1>2
  <2>3. \A k \in Int : next <= k => ~(k <= b) /\ ~(k <= a)
    BY <1>1, <1>2
  <2>4. QED
    BY <2>1, <2>2, <2>3
<1>4. Depth(text, code, b, kind) = Depth(text, code, a, kind)
  BY <1>3, DepthStretch
<1>5. QED
  BY <1>1, <1>2, <1>4

LEMMA DepthOffCode ==
  ASSUME NEW text, NEW code \in SUBSET Nat, NEW i \in Nat, i \notin code, NEW kind
  PROVE  Depth(text, code, i, kind) = Depth(text, code, i - 1, kind)
<1>1. PICK before \in Int : before = i - 1
  OBVIOUS
<1>2. \A k \in code : (k <= i) <=> (k <= before)
  BY <1>1
<1>3. i \in Int
  OBVIOUS
<1>4. Depth(text, code, i, kind) = Depth(text, code, before, kind)
  BY <1>2, <1>3, DepthStretch
<1>5. QED
  BY <1>1, <1>4

----------------------------------------------------------------------------
(* The scanner steps from token to token.  What it skips is what the lexer   *)
(* skips, in a text without what only the lexer can tell.                    *)
LEMMA NoneBefore ==
  ASSUME NEW set, NEW i \in Nat, NEW k \in Nat, i <= k, \A j \in i..(k - 1) : j \notin set
  PROVE  EvenBefore(set, i, k)
<1> DEFINE ends == {i} \cup {j + 1 : j \in (i..(k - 1)) \ set}
<1>1. ends \in SUBSET (0..k) /\ ends # {}
  OBVIOUS
<1>2. k \in ends
  <2>1. CASE i = k
    BY <2>1
  <2>2. CASE i < k
    <3>1. k - 1 \in (i..(k - 1)) \ set /\ (k - 1) + 1 = k
      BY <2>2
    <3>2. QED
      BY <3>1
  <2>3. QED
    BY <2>1, <2>2
<1>3. Max(ends) = k
  <2> HIDE DEF ends
  <2>1. PICK last : last = Max(ends)
    OBVIOUS
  <2>2. last \in ends /\ \A m \in ends : last >= m
    BY <1>1, <2>1, LastPosition
  <2>3. last \in 0..k /\ last >= k
    BY <1>1, <1>2, <2>2
  <2>4. QED
    BY <2>1, <2>3
<1>4. (k - Max(ends)) % 2 = 0
  <2> HIDE DEF ends
  <2>1. k - Max(ends) = 0
    BY <1>3
  <2>2. QED
    BY <2>1
<1>5. QED
  BY <1>4 DEF EvenBefore

LEMMA FirstIs ==
  ASSUME NEW text, Len(text) \in Nat, NEW set \in SUBSET (1..Len(text)),
         NEW k \in set, \A j \in set : k <= j
  PROVE  FirstOf(text, set) = k
<1>1. PICK first : first = FirstOf(text, set)
  OBVIOUS
<1>2. first \in set /\ first <= k
  BY <1>1, FirstIsThere
<1>3. first \in 1..Len(text) /\ k \in 1..Len(text) /\ k <= first
  BY <1>2
<1>4. first = k
  BY <1>2, <1>3
<1>5. QED
  BY <1>1, <1>4

LEMMA CommentWithout ==
  ASSUME NEW text, Len(text) \in Nat, NEW i \in Nat \ {0}, i <= Len(text) + 1,
         \A k \in Nat : i <= k /\ k < CommentFrom(text, i) => Pair(text, k) # <<"/", "*">>
  PROVE  FirstOf(text, {k \in i..Len(text) : Pair(text, k) = <<"*", "/">>}) + 2
           = CommentFrom(text, i)
<1> DEFINE openings == {k \in i..Len(text) : Pair(text, k) = <<"/", "*">>}
<1> DEFINE closings == {k \in i..Len(text) : Pair(text, k) = <<"*", "/">>}
<1> DEFINE Real(k) == EvenBefore(openings \cup closings, i, k)
<1> DEFINE Inner(k) == {j \in openings : j < k /\ Real(j)}
<1> DEFINE Outer(k) == {j \in closings : j <= k /\ Real(j)}
<1> DEFINE set == {k \in closings :
            Real(k) /\ Cardinality(Inner(k)) + 1 = Cardinality(Outer(k))}
<1>1. CommentFrom(text, i) = FirstOf(text, set) + 2
  BY DEF CommentFrom
<1>2. /\ closings \in SUBSET (1..Len(text)) /\ set \subseteq closings
      /\ closings \subseteq i..Len(text)
  OBVIOUS
<1>3. CASE closings = {}
  <2>1. set = {}
    BY <1>2, <1>3
  <2>2. QED
    BY <1>1, <1>3, <2>1
<1>4. CASE closings # {}
  <2>1. PICK f \in closings : \A k \in closings : f <= k
    <3> HIDE DEF closings
    <3>1. closings \in SUBSET Nat
      BY <1>2
    <3>2. QED
      BY <1>4, <3>1, LeastPosition
  <2>2. f \in i..Len(text) /\ f \in Nat
    BY <1>2, <2>1
  <2>3. f < CommentFrom(text, i)
    <3> HIDE DEF set, closings
    <3>1. set \in SUBSET (1..Len(text))
      BY <1>2
    <3>2. /\ FirstOf(text, set) \in 1..(Len(text) + 1)
          /\ set # {} => FirstOf(text, set) \in set
          /\ set = {} => FirstOf(text, set) = Len(text) + 1
      BY <3>1, FirstIsThere
    <3>3. FirstOf(text, set) >= f
      BY <1>2, <2>1, <2>2, <3>2
    <3>4. QED
      BY <1>1, <2>2, <3>2, <3>3
  <2>4. \A k \in Nat : i <= k /\ k < f => k \notin openings /\ k \notin closings
    <3> SUFFICES ASSUME NEW k \in Nat, i <= k, k < f
                 PROVE  k \notin openings /\ k \notin closings
      OBVIOUS
    <3>1. CommentFrom(text, i) \in Nat /\ k < CommentFrom(text, i)
      BY <2>2, <2>3, CommentFromIsThere
    <3>2. Pair(text, k) # <<"/", "*">>
      BY <3>1
    <3>3. k \notin closings
      <4> HIDE DEF closings
      <4>1. QED
        BY <2>1, <2>2
    <3>4. QED
      BY <3>2, <3>3
  <2>5. Real(f)
    <3>1. \A j \in i..(f - 1) : j \notin openings \cup closings
      <4> HIDE DEF openings, closings
      <4>1. QED
        BY <2>2, <2>4
    <3>2. QED
      BY <2>2, <3>1, NoneBefore
  <2>6. Inner(f) = {}
    <3>1. \A j \in openings : j \in Nat /\ i <= j
      OBVIOUS
    <3> HIDE DEF openings, closings, Real
    <3>2. QED
      BY <2>4, <3>1
  <2>7. Outer(f) = {f}
    <3>1. f <= f
      BY <2>2
    <3>2. \A j \in closings : j <= f <=> j = f
      <4>1. \A j \in closings : j \in Nat
        BY <1>2
      <4> HIDE DEF closings
      <4>2. QED
        BY <2>1, <2>2, <4>1
    <3> HIDE DEF closings, Real
    <3>3. QED
      BY <2>1, <2>5, <3>1, <3>2
  <2>8. f \in set
    <3>1. Cardinality(Inner(f)) = 0 /\ Cardinality(Outer(f)) = 1
      BY <2>6, <2>7, FS_EmptySet, FS_Singleton
    <3> HIDE DEF Inner, Outer, Real, closings
    <3>2. QED
      BY <2>1, <2>5, <3>1
  <2>9. FirstOf(text, set) = f /\ FirstOf(text, closings) = f
    <3> HIDE DEF set, closings
    <3>1. \A k \in set : f <= k
      BY <1>2, <2>1
    <3>2. set \in SUBSET (1..Len(text))
      BY <1>2
    <3>3. FirstOf(text, set) = f
      BY <2>8, <3>1, <3>2, FirstIs
    <3>4. QED
      BY <1>2, <2>1, <3>3, FirstIs
  <2>10. QED
    BY <1>1, <2>9
<1>5. QED
  BY <1>3, <1>4

LEMMA StringWithout ==
  ASSUME NEW text \in Seq(Characters), NEW i \in Nat \ {0},
         \A k \in Nat : i <= k /\ k < Behind(text, i, Quote) => At(text, k) # "\\"
  PROVE  StringFrom(text, i) = Behind(text, i, Quote)
<1> DEFINE slashes == {k \in i..Len(text) : text[k] = "\\"}
<1> DEFINE quotes == {k \in i..Len(text) : text[k] = Quote}
<1> DEFINE set == {k \in i..Len(text) : text[k] = Quote /\ EvenBefore(slashes, i, k)}
<1>1. /\ StringFrom(text, i) = FirstOf(text, set) + 1
      /\ Behind(text, i, Quote) = FirstOf(text, quotes) + 1
  BY DEF StringFrom, Behind
<1>2. Len(text) \in Nat
  BY LenProperties
<1>3. /\ quotes \in SUBSET (1..Len(text)) /\ set \subseteq quotes
      /\ quotes \subseteq i..Len(text)
  BY <1>2
<1>4. CASE quotes = {}
  <2>1. set = {}
    BY <1>3, <1>4
  <2>2. QED
    BY <1>1, <1>4, <2>1
<1>5. CASE quotes # {}
  <2>1. PICK f \in quotes : FirstOf(text, quotes) = f /\ \A k \in quotes : f <= k
    <3> HIDE DEF quotes
    <3>1. QED
      BY <1>2, <1>3, <1>5, FirstIsThere
  <2>2. f \in i..Len(text) /\ f \in Nat /\ Behind(text, i, Quote) = f + 1
    BY <1>1, <1>3, <2>1
  <2>3. \A j \in i..(f - 1) : j \notin slashes
    <3> SUFFICES ASSUME NEW j \in i..(f - 1) PROVE text[j] # "\\"
      OBVIOUS
    <3>1. j \in Nat /\ j \in 1..Len(text) /\ i <= j /\ j < f + 1
      BY <1>2, <2>2
    <3>2. At(text, j) # "\\" /\ At(text, j) = text[j]
      BY <2>2, <3>1 DEF At
    <3>3. QED
      BY <3>2
  <2>4. EvenBefore(slashes, i, f)
    <3> HIDE DEF slashes
    <3>1. QED
      BY <2>2, <2>3, NoneBefore
  <2>5. f \in set
    BY <2>1, <2>4
  <2>6. FirstOf(text, set) = f
    <3> HIDE DEF set, quotes
    <3>1. set \in SUBSET (1..Len(text)) /\ \A k \in set : f <= k
      BY <1>3, <2>1
    <3>2. QED
      BY <1>2, <2>5, <3>1, FirstIs
  <2>7. QED
    BY <1>1, <2>1, <2>6
<1>6. QED
  BY <1>4, <1>5
LEMMA NothingMisread ==
  ASSUME ~Misread, NEW s \in Starts(source), NEW k \in Int, s \in Int,
         Token(source, s).next \in Int, s < k, k < Token(source, s).next,
         Hashes(source, s + 1) \in Int
  PROVE  /\ Token(source, s).kind = "char" => At(source, k) \notin Confusing
         /\ Token(source, s).kind = "raw" =>
              (s + 2 + Hashes(source, s + 1) <= k /\ k <= Token(source, s).next - 2 - Hashes(source, s + 1)
                 => At(source, k) \notin {"\\", Quote})
         /\ Token(source, s).kind = "block" /\ s + 2 <= k => Pair(source, k) # <<"/", "*">>
<1>1. PICK t : t = [kind |-> Token(source, s).kind, first |-> s, last |-> Token(source, s).next - 1]
  OBVIOUS
<1>2. t \in Tokens(source)
  BY <1>1 DEF Tokens
<1>3. t.kind = Token(source, s).kind /\ t.first = s /\ t.last = Token(source, s).next - 1
  BY <1>1
<1>4. k \in (t.first + 1)..t.last /\ (s + 2 <= k => k \in (t.first + 2)..t.last)
  BY <1>3
<1> HIDE <1>1
<1> DEFINE hashes == Hashes(source, t.first + 1)
<1> DEFINE inside == {At(source, j) : j \in (t.first + 1)..t.last}
<1> DEFINE content == {At(source, j) : j \in (t.first + 2 + hashes)..(t.last - 1 - hashes)}
<1>5. /\ At(source, k) \in inside
      /\ s + 2 + Hashes(source, s + 1) <= k /\ k <= Token(source, s).next - 2 - Hashes(source, s + 1)
           => At(source, k) \in content
  <2>1. hashes = Hashes(source, s + 1)
    BY <1>3
  <2>2. PICK h \in Int : h = hashes
    BY <2>1
  <2>3. PICK n \in Int : n = Token(source, s).next
    OBVIOUS
  <2>4. s + 2 + h <= k /\ k <= n - 2 - h => k \in (t.first + 2 + h)..(t.last - 1 - h)
    BY <1>3, <2>3
  <2>5. QED
    BY <1>4, <2>1, <2>2, <2>3, <2>4
<1>6. /\ ~(t.kind = "char" /\ inside \cap Confusing # {})
      /\ ~(t.kind = "raw" /\ content \cap {"\\", Quote} # {})
      /\ ~(t.kind = "block" /\ \E j \in (t.first + 2)..t.last : Pair(source, j) = <<"/", "*">>)
  BY <1>2 DEF Misread
<1>7. (s + 2 <= k => k \in (t.first + 2)..t.last) /\ t.kind = Token(source, s).kind
  BY <1>3, <1>4
<1> HIDE DEF inside, content
<1>8. QED
  BY <1>5, <1>6, <1>7

LEMMA RawToken ==
  ASSUME NEW text \in Seq(Characters), NEW i \in 1..Len(text), Token(text, i).kind = "raw"
  PROVE  /\ IsRaw(text, i)
         /\ Token(text, i).next = RawFrom(text, i + 2 + Hashes(text, i + 1), Hashes(text, i + 1))
<1>1. \/ Pair(text, i) \in {<<"/", "/">>, <<"/", "*">>}
      \/ IsRaw(text, i)
      \/ text[i] = Quote \/ IsChar(text, i)
      \/ /\ Pair(text, i) \notin {<<"/", "/">>, <<"/", "*">>} /\ ~IsRaw(text, i)
         /\ text[i] # Quote /\ ~IsChar(text, i)
  OBVIOUS
<1>2. CASE Pair(text, i) = <<"/", "/">>
  <2>1. Token(text, i) = [kind |-> "line", next |-> Behind(text, i + 2, "\n")]
    BY <1>2, TokenAt
  <2>2. QED
    BY <2>1
<1>3. CASE Pair(text, i) = <<"/", "*">>
  <2>1. Token(text, i) = [kind |-> "block", next |-> CommentFrom(text, i + 2)]
    BY <1>3, TokenAt
  <2>2. QED
    BY <2>1
<1>4. CASE text[i] = Quote
  <2>1. Token(text, i) = [kind |-> "string", next |-> StringFrom(text, i + 1)]
    BY <1>4, TokenAt
  <2>2. QED
    BY <2>1
<1>5. CASE IsChar(text, i)
  <2>1. Token(text, i) = [kind |-> "char", next |-> CharFrom(text, i)]
    BY <1>5, TokenAt
  <2>2. Token(text, i).kind = "char"
    BY <2>1
  <2>3. QED
    BY <2>2
<1>6. CASE /\ Pair(text, i) \notin {<<"/", "/">>, <<"/", "*">>} /\ ~IsRaw(text, i)
           /\ text[i] # Quote /\ ~IsChar(text, i)
  <2>1. Token(text, i) = [kind |-> "code", next |-> i + 1]
    BY <1>6, TokenAt
  <2>2. QED
    BY <2>1
<1>7. CASE IsRaw(text, i)
  <2>1. Token(text, i) = [kind |-> "raw",
          next |-> RawFrom(text, i + 2 + Hashes(text, i + 1), Hashes(text, i + 1))]
    BY <1>7, TokenAt
  <2>2. QED
    BY <1>7, <2>1
<1>8. QED
  BY <1>1, <1>2, <1>3, <1>4, <1>5, <1>6, <1>7

(* Where the scanner stands, and what it sees there.                         *)
InRaw(s) ==
    /\ s < at /\ Token(source, s).kind = "raw"
    /\ \/ source[at] = "#"
       \/ source[at] = Quote /\ at = s + 1 + Hashes(source, s + 1)
    /\ \/ at <= s + 1 + Hashes(source, s + 1)
       \/ at >= Token(source, s).next - Hashes(source, s + 1)
LEMMA WhereItStands ==
  ASSUME ScanTypeOK, Looking, ~Misread, WithinToken(source, at)
  PROVE  \E s \in Starts(source) :
           /\ s \in 1..Len(source) /\ s <= at
           /\ Token(source, s).next \in Nat /\ at < Token(source, s).next
           /\ \/ at = s
              \/ s < at /\ Token(source, s).kind = "char" /\ source[at] \notin Confusing
              \/ InRaw(s)
<1>1. PICK s \in Starts(source) :
        /\ s <= at /\ at < Token(source, s).next
        /\ \/ at = s
           \/ Token(source, s).kind = "char"
           \/ /\ Token(source, s).kind = "raw"
              /\ \/ at <= s + 1 + Hashes(source, s + 1)
                 \/ at >= Token(source, s).next - Hashes(source, s + 1)
  BY DEF WithinToken
<1>2. /\ source \in Seq(Characters) /\ at \in Nat /\ Len(source) \in Nat
      /\ at \in 1..Len(source) /\ At(source, at) = source[at]
  <2>1. source \in Seq(Characters) /\ at \in Nat \ {0} /\ at <= Len(source)
    BY DEF ScanTypeOK, Looking
  <2>2. Len(source) \in Nat
    BY <2>1, LenProperties
  <2>3. at \in 1..Len(source)
    BY <2>1, <2>2
  <2>4. QED
    BY <2>1, <2>2, <2>3 DEF At
<1>3. s \in 1..Len(source)
  BY <1>2, StartsClosed
<1>4. Token(source, s).next \in Nat
  BY <1>2, <1>3, TokenIsThere
<1>5. CASE at = s
  BY <1>1, <1>3, <1>4, <1>5
<1>6. CASE at # s /\ Token(source, s).kind = "char"
  <2>1. s < at
    BY <1>1, <1>2, <1>3, <1>6
  <2>2. source[at] \notin Confusing
    <3>1. s + 1 \in Nat \ {0} /\ s + 1 <= Len(source) + 1
      BY <1>2, <1>3
    <3>2. Hashes(source, s + 1) \in Int
      BY <1>2, <3>1, HashesAre
    <3>3. QED
      BY <1>1, <1>2, <1>3, <1>4, <1>6, <2>1, <3>2, NothingMisread
  <2>3. QED
    BY <1>1, <1>3, <1>4, <1>6, <2>1, <2>2
<1>7. CASE at # s /\ Token(source, s).kind = "raw"
  <2>1. PICK h : h = Hashes(source, s + 1)
    OBVIOUS
  <2>2. IsRaw(source, s) /\ Token(source, s).next = RawFrom(source, s + 2 + h, h)
    BY <1>2, <1>3, <1>7, <2>1, RawToken
  <2>3. /\ h \in Nat /\ s + 1 + h <= Len(source) /\ source[s + 1 + h] = Quote
        /\ \A k \in Nat : s < k /\ k < s + 1 + h => source[k] = "#"
    BY <1>2, <1>3, <2>1, <2>2, RawIs
  <2>4. s < at
    BY <1>1, <1>2, <1>3, <1>7
  <2>5. CASE at <= s + 1 + h
    <3>1. source[at] = "#" \/ (source[at] = Quote /\ at = s + 1 + h)
      BY <1>2, <1>3, <2>3, <2>4, <2>5
    <3>2. QED
      BY <1>1, <1>3, <1>4, <1>7, <2>1, <2>4, <2>5, <3>1 DEF InRaw
  <2>6. CASE at >= Token(source, s).next - h
    <3>1. s + 2 + h \in Nat \ {0} /\ s + 2 + h <= Len(source) + 1
      BY <1>2, <1>3, <2>3
    <3>2. \A k \in Nat :
            RawFrom(source, s + 2 + h, h) - h <= k /\ k < RawFrom(source, s + 2 + h, h) /\ k <= Len(source)
              => source[k] = "#"
      BY <1>2, <2>3, <3>1, RawFromIsThere
    <3>3. RawFrom(source, s + 2 + h, h) - h <= at /\ at <= Len(source)
      BY <1>2, <1>4, <2>2, <2>3, <2>6
    <3>4. source[at] = "#"
      BY <1>1, <1>2, <2>2, <3>2, <3>3
    <3>5. QED
      BY <1>1, <1>3, <1>4, <1>7, <2>1, <2>4, <2>6, <3>4 DEF InRaw
  <2>7. QED
    BY <1>1, <1>7, <2>1, <2>5, <2>6
<1>8. QED
  BY <1>1, <1>5, <1>6, <1>7

LEMMA BehindAToken ==
  ASSUME NEW text \in Seq(Characters), NEW s \in Starts(text), Token(text, s).next <= Len(text)
  PROVE  WithinToken(text, Token(text, s).next)
<1>1. PICK n : n = Token(text, s).next
  OBVIOUS
<1>2. n \in Starts(text) /\ n \in 1..Len(text)
  BY <1>1, StartsClosed
<1>3. Token(text, n).next \in Nat /\ Token(text, n).next > n
  BY <1>2, TokenIsThere
<1>4. n <= n
  BY <1>2
<1>5. QED
  BY <1>1, <1>2, <1>3, <1>4 DEF WithinToken
LEMMA InsideAToken ==
  ASSUME NEW text \in Seq(Characters), NEW s \in Starts(text), NEW k \in CodeOf(text), s < k
  PROVE  Token(text, s).next <= k
  BY CodeIsThere, NoStartWithin

LEMMA Skipped ==
  ASSUME ScanTypeOK, Looking, ~Misread, WithinToken(source, at), NEW next,
         \/ LineComment /\ next = Behind(source, at + 2, "\n")
         \/ /\ BlockComment
            /\ next = FirstOf(source, {k \in (at + 2)..Len(source) :
                                         Pair(source, k) = <<"*", "/">>}) + 2
         \/ source[at] = Quote /\ next = StringFrom(source, at + 1)
  PROVE  /\ next \in Nat /\ next > at
         /\ next <= Len(source) => WithinToken(source, next)
         /\ \A k \in CodeOf(source) : k < at \/ next <= k
<1>1. PICK s \in Starts(source) :
        /\ s \in 1..Len(source) /\ s <= at
        /\ Token(source, s).next \in Nat /\ at < Token(source, s).next
        /\ \/ at = s
           \/ s < at /\ Token(source, s).kind = "char" /\ source[at] \notin Confusing
           \/ InRaw(s)
  BY WhereItStands
<1>2. source \in Seq(Characters) /\ at \in Nat \ {0} /\ at <= Len(source) /\ Len(source) \in Nat
  <2>1. source \in Seq(Characters) /\ at \in Nat \ {0} /\ at <= Len(source)
    BY DEF ScanTypeOK, Looking
  <2>2. QED
    BY <2>1, LenProperties
<1>3. /\ source[at] \in {"/", Quote}
      /\ LineComment \/ BlockComment => source[at] = "/"
      /\ ~(LineComment /\ BlockComment) /\ Quote # "/"
  <2>1. at \in 1..Len(source)
    BY <1>2
  <2>2. At(source, at) = source[at]
    BY <2>1 DEF At
  <2>3. LineComment \/ BlockComment => source[at] = "/"
    BY <2>2 DEF LineComment, BlockComment, Pair
  <2>4. ~(LineComment /\ BlockComment)
    BY DEF LineComment, BlockComment
  <2>5. QED
    BY <2>3, <2>4, CharactersDiffer
<1>4. source[at] \in Confusing
  BY <1>3 DEF Confusing
<1>5. CASE InRaw(s)
  <2>1. PICK h : h = Hashes(source, s + 1)
    OBVIOUS
  <2>2. PICK end \in Nat : end = Token(source, s).next
    BY <1>1
  <2>3. IsRaw(source, s) /\ end = RawFrom(source, s + 2 + h, h)
    BY <1>1, <1>2, <1>5, <2>1, <2>2, RawToken DEF InRaw
  <2>4. /\ h \in Nat /\ s + 1 + h <= Len(source) /\ source[s + 1 + h] = Quote
        /\ \A k \in Nat : s < k /\ k < s + 1 + h => source[k] = "#"
    BY <1>1, <1>2, <2>1, <2>3, RawIs
  <2>5. at = s + 1 + h /\ source[at] = Quote
    BY <1>3, <1>5, <2>1, CharactersDiffer DEF InRaw
  <2>6. s + 2 + h \in Nat \ {0} /\ s + 2 + h <= Len(source) + 1
    BY <1>1, <1>2, <2>4
  <2>7. /\ end >= s + 2 + h + 1 + h
        /\ (\A k \in Nat : s + 2 + h <= k /\ k < end - 1 - h => At(source, k) # Quote)
             => end = Behind(source, s + 2 + h, Quote) + h
    BY <1>2, <2>3, <2>4, <2>6, RawFromIsThere
  <2>8. ASSUME NEW k \in Nat, s + 2 + h <= k, k < end - 1 - h
        PROVE  At(source, k) \notin {"\\", Quote}
    <3>1. s < k /\ k < end /\ k <= end - 2 - h
      BY <1>1, <2>4, <2>8
    <3>2. Token(source, s).kind = "raw"
      BY <1>5 DEF InRaw
    <3>3. QED
      <4>1. s + 2 + h <= k /\ k <= end - 2 - h => At(source, k) \notin {"\\", Quote}
        <5>1. k \in Int /\ s \in Int /\ h \in Int
          BY <1>1, <2>4
        <5>2. QED
          BY <1>1, <2>1, <2>2, <3>1, <3>2, <5>1, NothingMisread
      <4>2. QED
        BY <2>8, <3>1, <4>1
  <2>9. PICK b : b = Behind(source, s + 2 + h, Quote)
    OBVIOUS
  <2>10. b \in Nat /\ end = b + h
    BY <1>2, <2>6, <2>7, <2>8, <2>9, BehindIsThere
  <2>11. \A k \in Nat : s + 2 + h <= k /\ k < b => At(source, k) # "\\"
    <3> SUFFICES ASSUME NEW k \in Nat, s + 2 + h <= k, k < b PROVE At(source, k) # "\\"
      OBVIOUS
    <3>1. CASE k < end - 1 - h
      BY <2>8, <3>1
    <3>2. CASE k = b - 1
      <4>1. b = Len(source) + 2 \/ source[b - 1] = Quote
        BY <1>2, <2>6, <2>9, BehindIsThere
      <4>2. At(source, k) \in {Quote, ""}
        <5>1. CASE k \in 1..Len(source)
          <6>1. source[k] = Quote
            BY <1>2, <2>10, <3>2, <4>1, <5>1
          <6>2. QED
            BY <5>1, <6>1, Zenon DEF At
        <5>2. CASE k \notin 1..Len(source)
          BY <5>2, Zenon DEF At
        <5>3. QED
          BY <5>1, <5>2
      <4>3. QED
        BY <4>2, CharactersDiffer, Zenon
    <3>3. QED
      BY <2>4, <2>10, <3>1, <3>2
  <2>12. StringFrom(source, s + 2 + h) = b
    BY <1>2, <2>6, <2>9, <2>11, StringWithout
  <2>13. at + 1 = s + 2 + h
    BY <1>1, <2>4, <2>5
  <2>14. next = b
    <3>1. next = StringFrom(source, at + 1)
      BY <1>3, <2>5, CharactersDiffer
    <3>2. QED
      BY <2>12, <2>13, <3>1
  <2>15. next \in Nat /\ next > at
    BY <1>1, <2>4, <2>5, <2>7, <2>10, <2>14
  <2>16. ASSUME next <= Len(source) PROVE WithinToken(source, next)
    <3>1. CASE h = 0
      <4>1. next = Token(source, s).next
        BY <2>2, <2>10, <2>14, <3>1
      <4>2. QED
        BY <1>2, <2>16, <4>1, BehindAToken
    <3>2. CASE h > 0
      <4>1. s <= next /\ next < end /\ next >= end - h
        BY <1>1, <1>2, <2>4, <2>10, <2>14, <2>15, <3>2
      <4>2. Token(source, s).kind = "raw"
        BY <1>5 DEF InRaw
      <4>3. QED
        BY <1>1, <2>1, <2>2, <4>1, <4>2 DEF WithinToken
    <3>3. QED
      BY <2>4, <3>1, <3>2
  <2>17. ASSUME NEW k \in CodeOf(source), ~(k < at) PROVE next <= k
    <3>1. k \in 1..Len(source)
      BY <1>2, CodeIsThere
    <3>2. s < k
      BY <1>1, <1>2, <1>5, <2>17, <3>1 DEF InRaw
    <3>3. end <= k
      BY <1>1, <1>2, <2>2, <3>2, InsideAToken
    <3>4. QED
      BY <2>4, <2>10, <2>14, <3>1, <3>3
  <2>18. QED
    BY <2>15, <2>16, <2>17
<1>6. SUFFICES ASSUME ~InRaw(s)
               PROVE  /\ next \in Nat /\ next > at
                      /\ next <= Len(source) => WithinToken(source, next)
                      /\ \A k \in CodeOf(source) : k < at \/ next <= k
  BY <1>5
<1>7. at = s
  BY <1>1, <1>4, <1>6
<1>8. next = Token(source, s).next /\ Token(source, s).kind # "code"
  <2>1. CASE at = s /\ LineComment
    <3>1. Token(source, s) = [kind |-> "line", next |-> Behind(source, s + 2, "\n")]
      BY <1>1, <1>2, <2>1, TokenAt DEF LineComment
    <3>2. Token(source, s).next = Behind(source, s + 2, "\n") /\ Token(source, s).kind = "line"
      BY <3>1
    <3>3. next = Behind(source, at + 2, "\n")
      BY <1>3, <2>1
    <3>4. QED
      BY <2>1, <3>2, <3>3
  <2>2. CASE at = s /\ BlockComment
    <3>1. Token(source, s) = [kind |-> "block", next |-> CommentFrom(source, s + 2)]
      BY <1>1, <1>2, <2>2, TokenAt DEF BlockComment
    <3>2. Token(source, s).next = CommentFrom(source, s + 2) /\ Token(source, s).kind = "block"
      BY <3>1
    <3>3. next = FirstOf(source, {k \in (s + 2)..Len(source) : Pair(source, k) = <<"*", "/">>}) + 2
      BY <1>3, <2>2
    <3>4. s + 2 \in Nat \ {0} /\ s + 2 <= Len(source) + 1
      <4>1. At(source, s + 1) # ""
        BY <2>2 DEF BlockComment, Pair
      <4>2. s + 1 \in 1..Len(source)
        BY <4>1 DEF At
      <4>3. QED
        BY <1>1, <1>2, <4>2
    <3>5. \A k \in Nat : s + 2 <= k /\ k < CommentFrom(source, s + 2) => Pair(source, k) # <<"/", "*">>
      <4> SUFFICES ASSUME NEW k \in Nat, s + 2 <= k, k < CommentFrom(source, s + 2)
                   PROVE  Pair(source, k) # <<"/", "*">>
        OBVIOUS
      <4>1. s \in Int /\ s < k /\ k < Token(source, s).next
        BY <1>1, <3>2
      <4>2. s + 1 \in Nat \ {0} /\ s + 1 <= Len(source) + 1
        BY <1>1, <1>2
      <4>3. Hashes(source, s + 1) \in Int
        BY <1>2, <4>2, HashesAre
      <4>4. QED
        BY <1>1, <3>2, <4>1, <4>3, NothingMisread
    <3>6. FirstOf(source, {k \in (s + 2)..Len(source) : Pair(source, k) = <<"*", "/">>}) + 2
            = CommentFrom(source, s + 2)
      BY <1>2, <3>4, <3>5, CommentWithout
    <3>7. QED
      BY <3>2, <3>3, <3>6
  <2>3. CASE at = s /\ source[at] = Quote
    <3>1. Token(source, s) = [kind |-> "string", next |-> StringFrom(source, s + 1)]
      BY <1>1, <1>2, <2>3, TokenAt
    <3>2. Token(source, s).next = StringFrom(source, s + 1) /\ Token(source, s).kind = "string"
      BY <3>1
    <3>3. next = StringFrom(source, at + 1)
      BY <1>3, <2>3, CharactersDiffer
    <3>4. QED
      BY <2>3, <3>2, <3>3
  <2>4. QED
    BY <1>7, <2>1, <2>2, <2>3
<1>9. next \in Nat /\ next > at
  BY <1>1, <1>2, <1>8
<1>10. next <= Len(source) => WithinToken(source, next)
  BY <1>2, <1>8, BehindAToken
<1>11. ASSUME NEW k \in CodeOf(source), ~(k < at) PROVE next <= k
  <2>1. k \in 1..Len(source) /\ Token(source, k).kind = "code"
    BY <1>2, CodeIsThere DEF CodeOf
  <2>2. s < k
    BY <1>1, <1>2, <1>7, <1>8, <1>11, <2>1
  <2>3. QED
    BY <1>2, <1>8, <2>2, InsideAToken
<1>12. QED
  BY <1>9, <1>10, <1>11
LEMMA Passed ==
  ASSUME ScanTypeOK, Code, ~Misread, WithinToken(source, at)
  PROVE  /\ at + 1 <= Len(source) => WithinToken(source, at + 1)
         /\ at \notin CodeOf(source) => source[at] \notin Confusing
<1>1. PICK s \in Starts(source) :
        /\ s \in 1..Len(source) /\ s <= at
        /\ Token(source, s).next \in Nat /\ at < Token(source, s).next
        /\ \/ at = s
           \/ s < at /\ Token(source, s).kind = "char" /\ source[at] \notin Confusing
           \/ InRaw(s)
  BY WhereItStands DEF Code
<1>2. source \in Seq(Characters) /\ at \in Nat \ {0} /\ at <= Len(source) /\ Len(source) \in Nat
  <2>1. source \in Seq(Characters) /\ at \in Nat \ {0} /\ at <= Len(source)
    BY DEF ScanTypeOK, Looking, Code
  <2>2. QED
    BY <2>1, LenProperties
<1>3. at \in 1..Len(source) /\ At(source, at) = source[at]
  <2>1. at \in 1..Len(source)
    BY <1>2
  <2>2. QED
    BY <2>1 DEF At
<1>4. ASSUME Token(source, s).kind = "char"
      PROVE  at + 1 <= Len(source) => WithinToken(source, at + 1)
  <2>1. CASE at + 1 < Token(source, s).next
    <3>1. s <= at + 1
      BY <1>1, <1>2
    <3>2. QED
      BY <1>1, <1>4, <2>1, <3>1 DEF WithinToken
  <2>2. CASE at + 1 = Token(source, s).next
    BY <1>2, <2>2, BehindAToken
  <2>3. QED
    BY <1>1, <1>2, <2>1, <2>2
<1>5. CASE s < at /\ Token(source, s).kind = "char" /\ source[at] \notin Confusing
  BY <1>4, <1>5
<1>6. CASE at = s /\ IsChar(source, s)
  <2>1. Token(source, s) = [kind |-> "char", next |-> CharFrom(source, s)]
    BY <1>1, <1>2, <1>6, TokenAt
  <2>2. Token(source, s).kind = "char"
    BY <2>1
  <2>3. source[at] = "'"
    BY <1>3, <1>6 DEF IsChar
  <2>4. source[at] \notin Confusing
    BY <2>3, CharactersDiffer DEF Confusing
  <2>5. QED
    BY <1>4, <2>2, <2>4
<1>7. ASSUME s <= at, Token(source, s).kind = "raw", source[at] \in {"r", "#"},
             \/ at < s + 1 + Hashes(source, s + 1)
             \/ at >= Token(source, s).next - Hashes(source, s + 1)
      PROVE  /\ at + 1 <= Len(source) => WithinToken(source, at + 1)
             /\ source[at] \notin Confusing
  <2>1. source[at] \notin Confusing
    BY <1>7, CharactersDiffer DEF Confusing
  <2>2. PICK h : h = Hashes(source, s + 1)
    OBVIOUS
  <2>3. PICK end \in Nat : end = Token(source, s).next
    BY <1>1
  <2>4. h \in Nat
    <3>1. s + 1 \in Nat \ {0} /\ s + 1 <= Len(source) + 1
      BY <1>1, <1>2
    <3>2. QED
      BY <1>2, <2>2, <3>1, HashesAre
  <2>5. at + 1 <= s + 1 + h \/ at + 1 >= end - h
    BY <1>1, <1>2, <1>7, <2>2, <2>3, <2>4
  <2>6. CASE at + 1 < end
    <3>1. s <= at + 1
      BY <1>1, <1>2
    <3>2. QED
      BY <1>1, <1>7, <2>1, <2>2, <2>3, <2>5, <2>6, <3>1 DEF WithinToken
  <2>7. CASE at + 1 = end
    BY <1>2, <2>1, <2>3, <2>7, BehindAToken
  <2>8. QED
    BY <1>1, <1>2, <2>3, <2>6, <2>7
<1>8. CASE at = s /\ IsRaw(source, s)
  <2>1. Token(source, s) = [kind |-> "raw",
          next |-> RawFrom(source, s + 2 + Hashes(source, s + 1), Hashes(source, s + 1))]
    BY <1>1, <1>2, <1>8, TokenAt
  <2>2. Token(source, s).kind = "raw"
    BY <2>1
  <2>3. Hashes(source, s + 1) \in Nat /\ source[s] = "r"
    BY <1>1, <1>2, <1>8, RawIs
  <2>4. at < s + 1 + Hashes(source, s + 1) /\ s <= at /\ source[at] = "r"
    BY <1>1, <1>8, <2>3
  <2>5. QED
    BY <1>7, <2>2, <2>4
<1>9. CASE InRaw(s) /\ source[at] # Quote
  <2>1. source[at] = "#" /\ s < at /\ Token(source, s).kind = "raw"
    BY <1>9 DEF InRaw
  <2>2. PICK h : h = Hashes(source, s + 1)
    OBVIOUS
  <2>3. IsRaw(source, s)
    BY <1>1, <1>2, <2>1, RawToken
  <2>4. h \in Nat /\ source[s + 1 + h] = Quote
    BY <1>1, <1>2, <2>2, <2>3, RawIs
  <2>5. at # s + 1 + h
    BY <1>9, <2>4
  <2>6. at < s + 1 + h \/ at >= Token(source, s).next - h
    BY <1>1, <1>2, <1>9, <2>2, <2>4, <2>5 DEF InRaw
  <2>7. s <= at
    BY <1>1
  <2>8. QED
    BY <1>7, <2>1, <2>2, <2>6, <2>7
<1>10. CASE at = s /\ ~IsChar(source, s) /\ ~IsRaw(source, s)
  <2>1. Token(source, s) = [kind |-> "code", next |-> s + 1]
    <3>1. /\ Pair(source, s) \notin {<<"/", "/">>, <<"/", "*">>} /\ ~IsRaw(source, s)
          /\ source[s] # Quote /\ ~IsChar(source, s)
      BY <1>10 DEF Code, LineComment, BlockComment
    <3>2. QED
      BY <1>1, <1>2, <3>1, TokenAt
  <2>2. Token(source, s).kind = "code" /\ Token(source, s).next = at + 1
    BY <1>10, <2>1
  <2>3. at \in CodeOf(source)
    BY <1>10, <2>2 DEF CodeOf
  <2>4. at + 1 <= Len(source) => WithinToken(source, at + 1)
    BY <1>2, <2>2, BehindAToken
  <2>5. QED
    BY <2>3, <2>4
<1>11. source[at] # Quote
  BY DEF Code
<1>12. QED
  BY <1>1, <1>5, <1>6, <1>8, <1>9, <1>10, <1>11
----------------------------------------------------------------------------
(* The invariant holds at the start, and every step keeps it.                *)
LEMMA StepsKeepTheText ==
  ASSUME ScanNext
  PROVE  source' = source /\ task' = task /\ found = -1
  BY DEF ScanNext, SkipLineComment, SkipBlockComment, SkipString, ScanForMatch, ScanForItem,
         ScanEnds, MoveTo, Looking, Code

LEMMA NestType ==
  ASSUME nesting \in [{"round", "square", "brace"} -> Nat],
         NEW kind \in {"round", "square", "brace"}, NEW c
  PROVE  Nest(kind, c) \in Nat
<1>1. nesting[kind] \in Nat
  OBVIOUS
<1>2. CASE c = Opening[kind]
  BY <1>1, <1>2 DEF Nest
<1>3. CASE c # Opening[kind]
  BY <1>1, <1>3 DEF Nest
<1>4. QED
  BY <1>2, <1>3

LEMMA TypesHold ==
  /\ ScanInit => ScanTypeOK
  /\ ScanTypeOK /\ [ScanNext]_scanVars => ScanTypeOK'
<1>1. ASSUME ScanInit PROVE ScanTypeOK
  <2>1. PICK t \in Tasks : task = t[1] /\ source = t[2]
    BY <1>1 DEF ScanInit
  <2>2. t \in {"match", "mask"} \X Seq(Characters)
    BY TasksAssumption
  <2>3. /\ source \in Seq(Characters)
        /\ task = "match" => source # <<>> /\ source[1] = OpenBrace
        /\ task = "mask" => IsNested(source)
    BY <2>1, <2>2, TasksAssumption
  <2>4. at = 1 /\ found = -1 /\ nesting = [kind \in {"round", "square", "brace"} |-> 0]
    BY <1>1 DEF ScanInit
  <2>5. nesting \in [{"round", "square", "brace"} -> Nat]
    BY <2>4
  <2>6. at \in Nat \ {0} /\ found \in Int
    BY <2>4
  <2>7. QED
    BY <2>3, <2>5, <2>6 DEF ScanTypeOK
<1>2. ASSUME ScanTypeOK, ScanNext PROVE ScanTypeOK'
  <2>1. source' = source /\ task' = task
    BY <1>2, StepsKeepTheText
  <2>2. /\ source \in Seq(Characters) /\ at \in Nat \ {0} /\ Len(source) \in Nat
        /\ found \in Int /\ nesting \in [{"round", "square", "brace"} -> Nat]
    <3>1. source \in Seq(Characters) /\ at \in Nat \ {0}
          /\ found \in Int /\ nesting \in [{"round", "square", "brace"} -> Nat]
      BY <1>2 DEF ScanTypeOK
    <3>2. QED
      BY <3>1, LenProperties
  <2>3. /\ at' \in Nat \ {0} /\ found' \in Int
        /\ nesting' \in [{"round", "square", "brace"} -> Nat]
        => ScanTypeOK'
    BY <1>2, <2>1 DEF ScanTypeOK
  <2>4. CASE SkipLineComment
    <3>1. at + 2 \in Nat \ {0} /\ at <= Len(source)
      BY <2>2, <2>4 DEF SkipLineComment, Looking
    <3>2. /\ Behind(source, at + 2, "\n") \in Nat
          /\ at + 2 <= Len(source) + 1 => Behind(source, at + 2, "\n") > at + 2
          /\ at + 2 > Len(source) => Behind(source, at + 2, "\n") = Len(source) + 2
      BY <2>2, <3>1, BehindIsThere
    <3>3. at' = Behind(source, at + 2, "\n") /\ nesting' = nesting /\ found' = found
      BY <2>4 DEF SkipLineComment, MoveTo
    <3>4. QED
      BY <2>2, <2>3, <3>1, <3>2, <3>3
  <2>5. CASE SkipBlockComment
    <3> DEFINE closings == {k \in (at + 2)..Len(source) : Pair(source, k) = <<"*", "/">>}
    <3>1. closings \in SUBSET (1..Len(source))
      BY <2>2
    <3>2. at' = FirstOf(source, closings) + 2 /\ nesting' = nesting /\ found' = found
      BY <2>5 DEF SkipBlockComment, MoveTo
    <3> HIDE DEF closings
    <3>3. FirstOf(source, closings) \in 1..(Len(source) + 1)
      BY <2>2, <3>1, FirstIsThere
    <3>4. QED
      BY <2>2, <2>3, <3>2, <3>3
  <2>6. CASE SkipString
    <3>1. at' = StringFrom(source, at + 1) /\ nesting' = nesting /\ found' = found
          /\ at <= Len(source)
      BY <2>6 DEF SkipString, MoveTo, StringEnd, Looking
    <3>2. at + 1 \in Nat \ {0} /\ at + 1 <= Len(source) + 1
      BY <2>2, <3>1
    <3>3. StringFrom(source, at + 1) \in Nat /\ StringFrom(source, at + 1) > at + 1
      BY <2>2, <3>2, StringFromIsThere
    <3>4. QED
      BY <2>2, <2>3, <3>1, <3>3
  <2>7. CASE ScanForMatch
    <3>1. Nest("brace", source[at]) \in Nat
      BY <2>2, NestType
    <3>2. nesting' = [nesting EXCEPT !.brace = Nest("brace", source[at])]
      BY <2>7 DEF ScanForMatch
    <3>3. nesting' \in [{"round", "square", "brace"} -> Nat]
      BY <2>2, <3>1, <3>2
    <3>4. (at' = at /\ found' = at) \/ (at' = at + 1 /\ found' = found)
      BY <2>7 DEF ScanForMatch
    <3>5. QED
      BY <2>2, <2>3, <3>3, <3>4
  <2>8. CASE ScanForItem
    <3>1. \A kind \in {"round", "square", "brace"} : Nest(kind, source[at]) \in Nat
      BY <2>2, NestType
    <3>2. \/ found' = at /\ at' = at /\ nesting' = nesting
          \/ /\ found' = found /\ at' = at + 1
             /\ nesting' = [kind \in DOMAIN nesting |-> Nest(kind, source[at])]
      BY <2>8 DEF ScanForItem
    <3>3. DOMAIN nesting = {"round", "square", "brace"}
      BY <2>2
    <3>4. nesting' \in [{"round", "square", "brace"} -> Nat]
      BY <2>2, <3>1, <3>2, <3>3
    <3>5. QED
      BY <2>2, <2>3, <3>2, <3>4
  <2>9. CASE ScanEnds
    <3>1. at' = at /\ nesting' = nesting /\ found' = IF task = "match" THEN 0 ELSE Len(source)
      BY <2>9 DEF ScanEnds
    <3>2. QED
      BY <2>2, <2>3, <3>1
  <2>10. QED
    BY <1>2, <2>4, <2>5, <2>6, <2>7, <2>8, <2>9 DEF ScanNext
<1>3. ASSUME ScanTypeOK, UNCHANGED scanVars PROVE ScanTypeOK'
  BY <1>3 DEF ScanTypeOK, scanVars
<1>4. QED
  BY <1>1, <1>2, <1>3

LEMMA StandsAtTheStart ==
  ASSUME NEW text \in Seq(Characters), 1 <= Len(text)
  PROVE  WithinToken(text, 1)
<1>1. Len(text) \in Nat
  BY LenProperties
<1>2. 1 \in 1..Len(text) /\ 1 \in Starts(text) /\ 1 <= 1
  BY <1>1, StartsClosed
<1>3. Token(text, 1).next \in Nat /\ Token(text, 1).next > 1
  BY <1>2, TokenIsThere
<1>4. QED
  BY <1>2, <1>3 DEF WithinToken

LEMMA InitIsSound ==
  ASSUME ScanInit
  PROVE  MatchInv /\ MaskInv
<1>1. at = 1 /\ found = -1
  BY DEF ScanInit
<1>2. source \in Seq(Characters)
  BY TypesHold DEF ScanTypeOK
<1>4. PICK code \in SUBSET Nat : code = CodeOf(source)
  BY <1>2, CodeIsFinite
<1>5. \A k \in code : k > 0
  BY <1>2, <1>4, CodeIsFinite
<1>6. \A k \in code : k \in Int /\ k >= 1
  BY <1>5
<1>7. InStep
  BY <1>1, <1>2, StandsAtTheStart DEF InStep
<1>8. ASSUME NEW kind PROVE Depth(source, code, at - 1, kind) = 0
  <2>1. at - 1 = 0
    BY <1>1
  <2>2. Depth(source, code, 0, kind) = 0
    BY <1>5, DepthAtZero
  <2>3. QED
    BY <2>1, <2>2
<1>9. nesting.round = 0 /\ nesting.square = 0 /\ nesting.brace = 0
  BY DEF ScanInit
<1>10. MatchInv
  <2>1. nesting.brace = Depth(source, code, at - 1, "brace")
    BY <1>8, <1>9
  <2>2. ~(at > 1) /\ \A k \in code : ~(k < at)
    BY <1>1, <1>6
  <2>3. QED
    BY <1>1, <1>4, <1>7, <2>1, <2>2 DEF MatchInv
<1>11. MaskInv
  <2>1. \A kind \in Kinds : Depth(source, code, at - 1, kind) =
                            IF kind = "angle" THEN 0 ELSE nesting[kind]
    BY <1>8, <1>9 DEF Kinds
  <2>2. \A k \in ItemEnds(source, code) : k >= at
    BY <1>1, <1>6 DEF ItemEnds
  <2>3. QED
    BY <1>1, <1>4, <1>7, <2>1, <2>2 DEF MaskInv
<1>12. QED
  BY <1>10, <1>11
LEMMA SkipsAreSound ==
  ASSUME ScanTypeOK, ~Misread, InStep, SkipLineComment \/ SkipBlockComment \/ SkipString
  PROVE  /\ at' \in Nat /\ at' > at /\ at <= Len(source)
         /\ at' <= Len(source) => WithinToken(source, at')
         /\ \A k \in CodeOf(source) : k < at \/ at' <= k
         /\ nesting' = nesting /\ found' = -1
         /\ At(source, at) \in {"/", Quote}
<1>1. Looking /\ nesting' = nesting /\ found' = -1
  BY DEF SkipLineComment, SkipBlockComment, SkipString, MoveTo, Looking
<1>2. WithinToken(source, at) /\ at <= Len(source)
  BY <1>1 DEF InStep, Looking
<1>3. \/ LineComment /\ at' = Behind(source, at + 2, "\n")
      \/ /\ BlockComment
         /\ at' = FirstOf(source, {k \in (at + 2)..Len(source) :
                                         Pair(source, k) = <<"*", "/">>}) + 2
      \/ source[at] = Quote /\ at' = StringFrom(source, at + 1)
  BY DEF SkipLineComment, SkipBlockComment, SkipString, MoveTo, StringEnd
<1>4. ASSUME NEW next, next = at'
      PROVE  /\ next \in Nat /\ next > at
             /\ next <= Len(source) => WithinToken(source, next)
             /\ \A k \in CodeOf(source) : k < at \/ next <= k
  BY <1>1, <1>2, <1>3, <1>4, Skipped
<1>5. At(source, at) \in {"/", Quote}
  <2>1. source \in Seq(Characters) /\ at \in Nat \ {0}
    BY DEF ScanTypeOK
  <2>2. at \in 1..Len(source)
    BY <1>2, <2>1, LenProperties
  <2>3. At(source, at) = source[at]
    BY <2>2 DEF At
  <2>4. QED
    BY <1>3, <2>3 DEF LineComment, BlockComment, Pair
<1>6. QED
  BY <1>1, <1>2, <1>4, <1>5

(* The reference's own braces: the first one opens, and closing it ends.     *)
LEMMA MatchStep ==
  ASSUME ScanTypeOK, MatchInv, ScanNext
  PROVE  MatchInv'
<1>1. source' = source /\ task' = task /\ found = -1
  BY StepsKeepTheText
<1>2. Misread' <=> Misread
  BY <1>1 DEF Misread, Confusing
<1>3. PICK code \in SUBSET Nat : code = CodeOf(source)
  BY CodeIsFinite DEF ScanTypeOK
<1>4. PICK n \in Nat : n = Len(source)
  BY LenProperties DEF ScanTypeOK
<1>5. PICK i \in Nat, next \in Nat : i = at /\ next = at' /\ i > 0
  <2>1. at \in Nat \ {0} /\ at' \in Nat \ {0}
    BY TypesHold DEF ScanTypeOK
  <2>2. QED
    BY <2>1
<1>6. PICK depth \in Nat, deeper \in Nat : depth = nesting.brace /\ deeper = nesting'.brace
  <2>1. /\ nesting \in [{"round", "square", "brace"} -> Nat]
        /\ nesting' \in [{"round", "square", "brace"} -> Nat]
    BY TypesHold DEF ScanTypeOK
  <2>2. QED
    BY <2>1
<1> SUFFICES ASSUME task = "match", ~Misread
             PROVE  /\ found' = -1 =>
                         /\ next <= n => WithinToken(source, next)
                         /\ deeper = Depth(source, code, next - 1, "brace")
                         /\ next > 1 => deeper > 0
                         /\ \A k \in code : k < next /\ source[k] = CloseBrace =>
                               Depth(source, code, k, "brace") # 0
                    /\ found' # -1 => found' = RustMatch(source)
  BY <1>1, <1>2, <1>3, <1>4, <1>5, <1>6 DEF MatchInv, InStep
<1>7. InStep /\ depth = Depth(source, code, i - 1, "brace")
  BY <1>1, <1>3, <1>5, <1>6 DEF MatchInv
<1>9. /\ i > 0 /\ (i > 1 => depth > 0)
      /\ \A k \in code : k < i /\ source[k] = CloseBrace => Depth(source, code, k, "brace") # 0
  BY <1>1, <1>3, <1>5, <1>6 DEF MatchInv
<1>8. source \in Seq(Characters) /\ source[1] = OpenBrace
  BY DEF ScanTypeOK
<1>10. IsFiniteSet(code) /\ \A k \in code : k > 0 /\ k <= n
  BY <1>3, <1>4, <1>8, CodeIsFinite
<1>11. ASSUME NEW k \in Int PROVE Depth(source, code, k, "brace") \in Int
  BY <1>10, DepthType
<1>12. CASE SkipLineComment \/ SkipBlockComment \/ SkipString
  <2>1. /\ next \in Nat /\ next > i /\ i <= n
        /\ next <= n => WithinToken(source, next)
        /\ \A k \in code : k < i \/ next <= k
        /\ deeper = depth /\ found' = -1
        /\ At(source, i) \in {"/", Quote}
    BY <1>3, <1>4, <1>5, <1>6, <1>7, <1>12, SkipsAreSound
  <2>2. i > 1
    <3> SUFFICES ASSUME i = 1 PROVE FALSE
      BY <1>5
    <3>1. i \in 1..Len(source)
      BY <1>4, <1>5, <2>1
    <3>2. At(source, i) = OpenBrace
      BY <1>8, <3>1 DEF At
    <3>3. QED
      BY <2>1, <3>2, CharactersDiffer
  <2>3. i <= next
    BY <2>1
  <2>4. \A k \in code : k < i \/ next <= k
    BY <2>1
  <2>5. Depth(source, code, next - 1, "brace") = Depth(source, code, i - 1, "brace")
    BY <2>3, <2>4, DepthStays
  <2>6. \A k \in code : k < next => k < i
    BY <1>5, <1>10, <2>1
  <2>7. deeper > 0
    BY <1>9, <2>1, <2>2
  <2>8. \A k \in code : k < next /\ source[k] = CloseBrace => Depth(source, code, k, "brace") # 0
    BY <1>9, <2>6
  <2>9. QED
    BY <1>7, <2>1, <2>5, <2>7, <2>8
<1>13. CASE ScanForMatch
  <2>1. PICK c : c = source[i]
    OBVIOUS
  <2>2. /\ Code /\ deeper = Nest("brace", c)
        /\ c = CloseBrace /\ deeper = 0 => found' = i
        /\ ~(c = CloseBrace /\ deeper = 0) => next = i + 1 /\ found' = -1
    <3>1. nesting' = [nesting EXCEPT !.brace = Nest("brace", c)]
      BY <1>5, <1>13, <2>1 DEF ScanForMatch
    <3>2. nesting'.brace = Nest("brace", c)
      BY <3>1 DEF ScanTypeOK
    <3>3. QED
      BY <1>1, <1>5, <1>6, <1>13, <2>1, <3>2 DEF ScanForMatch
  <2>3. i <= n /\ WithinToken(source, i)
    BY <1>4, <1>5, <1>7, <2>2 DEF Code, Looking, InStep
  <2>4. /\ i + 1 <= n => WithinToken(source, i + 1)
        /\ i \notin code => c \notin Confusing
    BY <1>3, <1>4, <1>5, <2>1, <2>2, <2>3, Passed
  <2>5. i = 1 => c = OpenBrace
    BY <1>8, <2>1
  <2>6. /\ c = OpenBrace => Nest("brace", c) = depth + 1
        /\ c = CloseBrace /\ depth > 0 => Nest("brace", c) = depth - 1
        /\ c \notin {OpenBrace, CloseBrace} => Nest("brace", c) = depth
    <3>1. Opening["brace"] = OpenBrace /\ Closing["brace"] = CloseBrace /\ OpenBrace # CloseBrace
      BY Brackets, CharactersDiffer
    <3>2. /\ c = OpenBrace => Nest("brace", c) = nesting["brace"] + 1
          /\ c = CloseBrace /\ nesting["brace"] > 0 => Nest("brace", c) = nesting["brace"] - 1
          /\ c \notin {OpenBrace, CloseBrace} => Nest("brace", c) = nesting["brace"]
      BY <3>1 DEF Nest
    <3>3. QED
      BY <1>6, <3>2
  <2>7. PICK now \in Int : now = Depth(source, code, i, "brace")
    BY <1>5, <1>11
  <2>8. /\ c = OpenBrace => i \in code /\ now = depth + 1
        /\ c = CloseBrace => i \in code /\ now = depth - 1
        /\ c \notin {OpenBrace, CloseBrace} => now = depth
    <3>1. CASE i \in code
      <4>1. "brace" \in Kinds
        BY DEF Kinds
      <4>2. /\ c = OpenBrace => now = depth + 1
            /\ c = CloseBrace => now = depth - 1
            /\ c \notin {OpenBrace, CloseBrace} => now = depth
        <5>1. /\ c = OpenBrace => Depth(source, code, i, "brace") = Depth(source, code, i - 1, "brace") + 1
              /\ c = CloseBrace => Depth(source, code, i, "brace") = Depth(source, code, i - 1, "brace") - 1
              /\ c \notin {OpenBrace, CloseBrace} =>
                   Depth(source, code, i, "brace") = Depth(source, code, i - 1, "brace")
          BY <1>10, <2>1, <3>1, <4>1, DepthStep, Brackets
        <5>2. QED
          BY <1>7, <2>7, <5>1
      <4>3. QED
        BY <3>1, <4>2
    <3>2. CASE i \notin code
      <4>1. c \notin {OpenBrace, CloseBrace}
        BY <2>4, <3>2 DEF Confusing
      <4>4. now = depth
        <5>1. Depth(source, code, i, "brace") = Depth(source, code, i - 1, "brace")
          BY <3>2, DepthOffCode
        <5>2. QED
          BY <1>7, <2>7, <5>1
      <4>5. QED
        BY <4>1, <4>4
    <3>3. QED
      BY <3>1, <3>2
  <2>9. c # OpenBrace => depth > 0
    BY <1>9, <2>5
  <2>10. deeper = now
    BY <2>2, <2>6, <2>8, <2>9
  <2>11. CASE c = CloseBrace /\ now = 0
    <3>1. found' = i
      BY <2>2, <2>10, <2>11
    <3> DEFINE closing == {k \in code : source[k] = CloseBrace /\ Depth(source, code, k, "brace") = 0}
    <3>2. i \in closing
      <4>1. i \in code /\ source[i] = CloseBrace /\ Depth(source, code, i, "brace") = 0
        BY <2>1, <2>7, <2>8, <2>11
      <4>2. QED
        BY <4>1
    <3>3. closing \in SUBSET Nat
      <4>1. \A k \in code : k \in Nat
        BY <1>10
      <4>2. QED
        BY <4>1
    <3>4. \A k \in closing : i <= k
      BY <1>9, <1>10
    <3>5. RustMatch(source) = Min(closing)
      BY <1>3, <3>2 DEF RustMatch
    <3> HIDE DEF closing
    <3>6. PICK first : first = Min(closing)
      OBVIOUS
    <3>7. first \in closing /\ first <= i
      BY <3>2, <3>3, <3>6, LeastPosition
    <3>8. first = i
      BY <3>3, <3>4, <3>7
    <3>9. i # -1
      OBVIOUS
    <3>10. QED
      BY <3>1, <3>5, <3>6, <3>8, <3>9
  <2>12. CASE ~(c = CloseBrace /\ now = 0)
    <3>1. next = i + 1 /\ found' = -1
      BY <2>2, <2>10, <2>12
    <3>2. next - 1 = i
      BY <3>1
    <3>3. now > 0
      BY <2>8, <2>9, <2>12
    <3>4. \A k \in code : k < next /\ source[k] = CloseBrace => Depth(source, code, k, "brace") # 0
      <4> SUFFICES ASSUME NEW k \in code, k < next, source[k] = CloseBrace
                   PROVE  Depth(source, code, k, "brace") # 0
        OBVIOUS
      <4>1. k < i \/ k = i
        BY <1>10, <3>1
      <4>2. QED
        BY <1>9, <2>1, <2>7, <2>12, <4>1
    <3>5. QED
      BY <2>4, <2>7, <2>10, <3>1, <3>2, <3>3, <3>4
  <2>13. QED
    BY <2>11, <2>12
<1>14. CASE ScanForItem
  BY <1>14 DEF ScanForItem
<1>15. CASE ScanEnds
  <2>1. i > n /\ found' = 0
    BY <1>4, <1>5, <1>15 DEF ScanEnds
  <2>2. \A k \in code : k < i
    BY <1>10, <2>1
  <2>3. {k \in code : source[k] = CloseBrace /\ Depth(source, code, k, "brace") = 0} = {}
    BY <1>9, <2>2
  <2>4. RustMatch(source) = 0
    BY <1>3, <2>3 DEF RustMatch
  <2>5. QED
    BY <2>1, <2>4
<1>16. QED
  BY <1>12, <1>13, <1>14, <1>15 DEF ScanNext
(* A block whose opening brace stands in no other bracket closes in none.    *)
LEMMA BlockClosesBare ==
  ASSUME NEW text \in Seq(Characters), IsNested(text), NEW code \in SUBSET Nat, code = CodeOf(text),
         NEW i \in code, text[i] = CloseBrace, Depth(text, code, i - 1, "brace") = 1,
         \A k \in code : k <= i => \A kind \in Kinds : Depth(text, code, k, kind) >= 0,
         \A k \in code : text[k] = OpenBrace =>
            \A kind \in Kinds \ {"brace"} : Depth(text, code, k, kind) <= 0
  PROVE  \A kind \in {"round", "square", "brace"} : Depth(text, code, i, kind) = 0
<1>1. IsFiniteSet(code) /\ \A k \in code : k > 0
  BY CodeIsFinite
<1>2. "brace" \in Kinds /\ Opening["brace"] = OpenBrace /\ Closing["brace"] = CloseBrace
  BY Brackets DEF Kinds
<1>3. ASSUME NEW k \in Int, NEW kind PROVE Depth(text, code, k, kind) \in Int
  BY <1>1, DepthType
<1>4. ASSUME NEW k \in code
      PROVE  /\ text[k] = OpenBrace => Depth(text, code, k, "brace") = Depth(text, code, k - 1, "brace") + 1
             /\ text[k] = CloseBrace => Depth(text, code, k, "brace") = Depth(text, code, k - 1, "brace") - 1
             /\ text[k] \notin {OpenBrace, CloseBrace} =>
                  Depth(text, code, k, "brace") = Depth(text, code, k - 1, "brace")
  BY <1>1, <1>2, DepthStep
<1>5. Depth(text, code, i, "brace") = 0
  BY <1>4
<1> DEFINE level == {p \in 0..(i - 1) : Depth(text, code, p, "brace") = 0}
<1>6. PICK last \in level : \A p \in level : last >= p
  <2>1. i - 1 \in Nat /\ i \in Nat
    BY <1>1
  <2>2. Depth(text, code, 0, "brace") = 0
    BY <1>1, DepthAtZero
  <2>3. level \in SUBSET (0..(i - 1)) /\ level # {}
    BY <2>1, <2>2
  <2> HIDE DEF level
  <2>4. QED
    BY <2>1, <2>3, LastPosition
<1>7. PICK j \in Nat : j = last + 1
  OBVIOUS
<1>8. last \in Nat /\ last = j - 1 /\ Depth(text, code, j - 1, "brace") = 0 /\ j < i
  <2>1. last \in Nat /\ last <= i - 1 /\ Depth(text, code, last, "brace") = 0 /\ i \in Nat
    BY <1>6
  <2>2. last = j - 1
    BY <1>7
  <2>3. last # i - 1
    BY <2>1
  <2>4. QED
    BY <1>7, <2>1, <2>2, <2>3
<1>9. Depth(text, code, j, "brace") # 0
  <2>1. j \notin level
    <3>1. last < j
      BY <1>7, <1>8
    <3> HIDE DEF level
    <3>2. QED
      BY <1>6, <1>8, <3>1
  <2>2. j \in 0..(i - 1)
    <3>1. i \in Nat
      OBVIOUS
    <3>2. QED
      BY <1>8, <3>1
  <2>3. QED
    BY <2>1, <2>2
<1> HIDE DEF level
<1>10. j \in code
  BY <1>8, <1>9, DepthOffCode
<1>11. text[j] = OpenBrace /\ Depth(text, code, j, "brace") = 1
  <2>1. Depth(text, code, j, "brace") >= 0
    <3>1. j <= i
      BY <1>8
    <3>2. QED
      BY <1>2, <1>10, <3>1
  <2>2. PICK before \in Int : before = Depth(text, code, j - 1, "brace") /\ before = 0
    BY <1>8
  <2>3. PICK depth \in Int : depth = Depth(text, code, j, "brace")
    BY <1>3
  <2>4. /\ text[j] = OpenBrace => depth = before + 1
        /\ text[j] = CloseBrace => depth = before - 1
        /\ text[j] \notin {OpenBrace, CloseBrace} => depth = before
    BY <1>4, <1>10, <2>2, <2>3
  <2>5. depth # 0 /\ depth >= 0 /\ before = 0
    BY <1>9, <2>1, <2>2, <2>3
  <2>6. text[j] = OpenBrace /\ depth = 1
    BY <2>4, <2>5
  <2>7. QED
    BY <2>3, <2>6
<1> DEFINE opened == {k \in code : /\ k < i /\ text[k] = Opening["brace"]
                                   /\ Depth(text, code, k, "brace") = Depth(text, code, i, "brace") + 1}
<1>12. Max(opened) \in opened
  <2>1. j \in opened
    BY <1>2, <1>5, <1>8, <1>10, <1>11
  <2>2. \A k \in code : k \in Nat
    OBVIOUS
  <2>3. opened \in SUBSET (0..i)
    BY <2>2
  <2>4. i \in Nat
    OBVIOUS
  <2> HIDE DEF opened
  <2>5. QED
    BY <2>1, <2>3, <2>4, LastPosition
<1>13. ASSUME NEW other \in {"round", "square"}
       PROVE  Depth(text, code, i, other) = 0
  <2>1. other \in Kinds \ {"angle", "brace"} /\ "brace" \in Kinds \ {"angle"}
    BY DEF Kinds
  <2>2. opened # {} => Depth(text, code, Max(opened), other) = Depth(text, code, i, other)
    BY <1>2, <2>1 DEF IsNested
  <2>3. PICK m : m = Max(opened)
    OBVIOUS
  <2>4. m \in code /\ text[m] = OpenBrace /\ Depth(text, code, m, other) = Depth(text, code, i, other)
    BY <1>2, <1>12, <2>2, <2>3
  <2>5. Depth(text, code, m, other) <= 0
    BY <2>1, <2>4
  <2>6. i <= i
    <3>1. i \in Nat
      OBVIOUS
    <3>2. QED
      BY <3>1
  <2>7. Depth(text, code, i, other) >= 0
    BY <2>1, <2>6
  <2>8. PICK depth \in Int : depth = Depth(text, code, i, other)
    BY <1>3
  <2>9. depth <= 0 /\ depth >= 0
    BY <2>4, <2>5, <2>7, <2>8
  <2>10. depth = 0
    BY <2>9
  <2>11. QED
    BY <2>8, <2>10
<1>14. QED
  BY <1>5, <1>13
(* Until the end of the item nothing closes that it did not open.            *)
LEMMA NothingIsBare ==
  ASSUME NEW text \in Seq(Characters), NEW code \in SUBSET Nat, code = CodeOf(text),
         ~EndsBare(text, code, RustItemEnd(text)), NEW k \in code, k <= RustItemEnd(text),
         NEW kind \in Kinds
  PROVE  Depth(text, code, k, kind) >= 0
<1>1. PICK n \in Nat : n = Len(text)
  BY LenProperties
<1>2. IsFiniteSet(code) /\ \A j \in code : j > 0 /\ j <= n
  BY <1>1, CodeIsFinite
<1>3. PICK ends \in SUBSET Nat : ends = ItemEnds(text, code)
  BY DEF ItemEnds
<1>4. ends \in SUBSET (1..n)
  BY <1>2, <1>3 DEF ItemEnds
<1>5. PICK end \in Nat : end = RustItemEnd(text) /\ end = FirstOf(text, ends)
  <2>1. FirstOf(text, ends) \in 1..(n + 1)
    BY <1>1, <1>4, FirstIsThere
  <2>2. RustItemEnd(text) = FirstOf(text, ends)
    BY <1>3 DEF RustItemEnd
  <2>3. QED
    BY <2>1, <2>2
<1>6. k <= end /\ \A j \in ends : end <= j
  <2>1. \A j \in ends : FirstOf(text, ends) <= j
    BY <1>1, <1>4, FirstIsThere
  <2>2. QED
    BY <1>5, <2>1
<1>7. ~EndsBare(text, code, k)
  <2> SUFFICES ASSUME EndsBare(text, code, k) PROVE FALSE
    OBVIOUS
  <2>1. k \in ends
    BY <1>3 DEF ItemEnds
  <2>2. k = end
    BY <1>6, <2>1
  <2>3. QED
    BY <1>5, <2>2
<1>8. Depth(text, code, k, kind) \in Int
  <2>1. k \in Int
    OBVIOUS
  <2>2. QED
    BY <1>2, <2>1, DepthType
<1>9. ~(Depth(text, code, k, kind) < 0)
  BY <1>7 DEF EndsBare
<1>10. QED
  BY <1>8, <1>9

LEMMA FirstEnd ==
  ASSUME NEW text \in Seq(Characters), NEW code \in SUBSET Nat, code = CodeOf(text)
  PROVE  /\ ItemEnds(text, code) \in SUBSET code
         /\ ItemEnds(text, code) = {} => RustItemEnd(text) = Len(text) + 1
         /\ \A i \in ItemEnds(text, code) :
              (\A k \in ItemEnds(text, code) : i <= k) => RustItemEnd(text) = i
         /\ RustItemEnd(text) \in Nat
         /\ \A i \in Nat : i <= Len(text) + 1 /\ (\A k \in ItemEnds(text, code) : i <= k)
               => i <= RustItemEnd(text)
<1>1. PICK n \in Nat : n = Len(text)
  BY LenProperties
<1>2. \A j \in code : j > 0 /\ j <= n
  BY <1>1, CodeIsFinite
<1>3. PICK ends \in SUBSET code : ends = ItemEnds(text, code)
  BY DEF ItemEnds
<1>4. ends \in SUBSET (1..n) /\ RustItemEnd(text) = FirstOf(text, ends)
  <2>1. ends \in SUBSET (1..n)
    BY <1>2
  <2>2. RustItemEnd(text) = FirstOf(text, ends)
    BY <1>3 DEF RustItemEnd
  <2>3. QED
    BY <2>1, <2>2
<1>5. PICK end \in Nat : end = FirstOf(text, ends) /\ end <= n + 1
  <2>1. FirstOf(text, ends) \in 1..(n + 1)
    BY <1>1, <1>4, FirstIsThere
  <2>2. QED
    BY <2>1
<1>6. /\ ends # {} => end \in ends
      /\ ends = {} => end = n + 1
  BY <1>1, <1>4, <1>5, FirstIsThere
<1>7. ASSUME NEW i \in ends, \A k \in ends : i <= k PROVE FirstOf(text, ends) = i
  BY <1>1, <1>4, <1>7, FirstIs
<1>8. ASSUME NEW i \in Nat, i <= n + 1, \A k \in ends : i <= k PROVE i <= end
  BY <1>6, <1>8
<1>9. QED
  BY <1>1, <1>3, <1>4, <1>5, <1>6, <1>7, <1>8

(* What a character of code does to the depths is what the lexer says, and    *)
(* the item ends where the scanner says.                                     *)
LEMMA NestsAsTheLexer ==
  ASSUME NEW kind \in {"round", "square", "brace"}, NEW c, nesting[kind] \in Nat
  PROVE  /\ c = Opening[kind] => Nest(kind, c) = nesting[kind] + 1
         /\ c = Closing[kind] /\ nesting[kind] > 0 => Nest(kind, c) = nesting[kind] - 1
         /\ c \notin {Opening[kind], Closing[kind]} => Nest(kind, c) = nesting[kind]
<1>1. Opening[kind] # Closing[kind]
  BY Brackets, CharactersDiffer
<1>2. QED
  BY <1>1 DEF Nest

LEMMA Unconfused ==
  ASSUME task = "mask", NEW c, c \notin Confusing
  PROVE  /\ c \notin Separators /\ c # CloseBrace
         /\ \A kind \in {"round", "square", "brace"} : c \notin {Opening[kind], Closing[kind]}
<1>1. c \notin {Quote, "/", OpenBrace, CloseBrace} /\ c \notin {"(", ")", "[", "]"} /\ c \notin Separators
  BY DEF Confusing
<1>2. QED
  BY <1>1, Brackets
(* The scanner's depths behind a character of code, and whether it ends the   *)
(* item there.                                                               *)
LEMMA MaskPasses ==
  ASSUME ScanTypeOK, task = "mask", NoGap, Code, NEW code \in SUBSET Nat, code = CodeOf(source),
         NEW i \in Nat, i = at, WithinToken(source, i),
         \A kind \in Kinds : Depth(source, code, i - 1, kind) = IF kind = "angle" THEN 0 ELSE nesting[kind],
         \A k \in ItemEnds(source, code) : i <= k
  PROVE  /\ \A kind \in Kinds : Depth(source, code, i, kind) =
                                IF kind = "angle" THEN 0 ELSE Nest(kind, source[i])
         /\ EndsItem(source[i]) <=> i \in ItemEnds(source, code)
<1> DEFINE D(k, kind) == Depth(source, code, k, kind)
<1>1. source \in Seq(Characters) /\ IsNested(source) /\ i <= Len(source)
  BY DEF ScanTypeOK, Code, Looking
<1>2. IsFiniteSet(code)
  BY <1>1, CodeIsFinite
<1>3. \A kind \in {"round", "square", "brace"} : nesting[kind] \in Nat
  BY DEF ScanTypeOK
<1>4. PICK c : c = source[i]
  OBVIOUS
<1>5. i \notin code => c \notin Confusing
  BY <1>4, Passed DEF NoGap
<1>6. ASSUME NEW k \in code, k <= i, NEW kind \in Kinds PROVE D(k, kind) >= 0
  <2>1. PICK end \in Nat : end = RustItemEnd(source) /\ i <= end
    <3>1. PICK n \in Nat : n = Len(source)
      BY <1>1, LenProperties
    <3>2. i <= Len(source) + 1
      BY <1>1, <3>1
    <3>3. RustItemEnd(source) \in Nat /\ i <= RustItemEnd(source)
      BY <1>1, <3>2, FirstEnd
    <3>4. QED
      BY <3>3
  <2>2. k <= end
    BY <1>6, <2>1
  <2>3. k <= RustItemEnd(source) /\ ~EndsBare(source, code, RustItemEnd(source))
    BY <2>1, <2>2 DEF NoGap
  <2>4. QED
    BY <1>1, <2>3, NothingIsBare
<1>7. ASSUME NEW kind, NEW k \in Int PROVE D(k, kind) \in Int
  BY <1>2, DepthType
<1>8. i - 1 \in Int /\ i \in Int /\ i <= i
  OBVIOUS
<1>9. ASSUME NEW kind \in Kinds, i \in code
      PROVE  /\ c = Opening[kind] => D(i, kind) = D(i - 1, kind) + 1
             /\ c = Closing[kind] => D(i, kind) = D(i - 1, kind) - 1
             /\ c \notin {Opening[kind], Closing[kind]} => D(i, kind) = D(i - 1, kind)
  BY <1>2, <1>4, <1>9, DepthStep
<1>10. ASSUME NEW kind \in Kinds, i \notin code PROVE D(i, kind) = D(i - 1, kind)
  BY <1>10, DepthOffCode
<1>11. D(i, "angle") = 0
  <2>1. "angle" \in Kinds /\ Opening["angle"] = "<" /\ Closing["angle"] = ">"
    BY Brackets DEF Kinds
  <2>2. D(i - 1, "angle") = 0
    BY <2>1
  <2>3. CASE i \in code
    <3>1. c # "<"
      BY <1>4, <2>3 DEF NoGap
    <3>2. c # ">"
      <4> SUFFICES ASSUME c = ">" PROVE FALSE
        OBVIOUS
      <4>1. D(i, "angle") = 0 - 1
        BY <1>9, <2>1, <2>2, <2>3
      <4>2. D(i, "angle") >= 0
        BY <1>6, <1>8, <2>1, <2>3
      <4>3. QED
        BY <4>1, <4>2
    <3>3. QED
      BY <1>9, <2>1, <2>2, <2>3, <3>1, <3>2
  <2>4. CASE i \notin code
    BY <1>10, <2>1, <2>2, <2>4
  <2>5. QED
    BY <2>3, <2>4
<1>12. ASSUME NEW kind \in {"round", "square", "brace"}
       PROVE  D(i, kind) = Nest(kind, c)
  <2>1. kind \in Kinds
    BY DEF Kinds
  <2>2. kind # "angle"
    OBVIOUS
  <2>3. D(i - 1, kind) = nesting[kind]
    BY <2>1, <2>2
  <2>4. PICK before \in Nat : before = nesting[kind]
    BY <1>3
  <2>5. /\ c = Opening[kind] => Nest(kind, c) = before + 1
        /\ c = Closing[kind] /\ before > 0 => Nest(kind, c) = before - 1
        /\ c \notin {Opening[kind], Closing[kind]} => Nest(kind, c) = before
    BY <2>4, NestsAsTheLexer
  <2>6. CASE i \in code
    <3>1. PICK depth \in Int : depth = D(i, kind)
      BY <1>7, <1>8
    <3>2. /\ c = Opening[kind] => depth = before + 1
          /\ c = Closing[kind] => depth = before - 1
          /\ c \notin {Opening[kind], Closing[kind]} => depth = before
      BY <1>9, <2>1, <2>3, <2>4, <2>6, <3>1
    <3>3. D(i, kind) >= 0
      BY <1>6, <1>8, <2>1, <2>6
    <3>4. depth >= 0
      BY <3>1, <3>3
    <3>5. c = Closing[kind] => before > 0
      BY <3>2, <3>4
    <3>6. depth = Nest(kind, c)
      BY <2>5, <3>2, <3>5
    <3>7. QED
      BY <3>1, <3>6
  <2>7. CASE i \notin code
    <3>1. c \notin {Opening[kind], Closing[kind]}
      BY <1>5, <2>7, Unconfused
    <3>2. D(i, kind) = before
      BY <1>10, <2>1, <2>3, <2>4, <2>7
    <3>3. QED
      BY <2>5, <3>1, <3>2
  <2>8. QED
    BY <2>6, <2>7
<1>13. ASSUME i \in ItemEnds(source, code) PROVE EndsItem(c)
  <2>1. i \in code
    BY <1>13 DEF ItemEnds
  <2>2. ~EndsBare(source, code, i)
    <3> SUFFICES ASSUME NEW kind \in Kinds, D(i, kind) < 0 PROVE FALSE
      BY DEF EndsBare
    <3>1. D(i, kind) \in Int /\ D(i, kind) >= 0
      BY <1>6, <1>7, <1>8, <2>1
    <3>2. QED
      BY <3>1
  <2>3. c \in Separators \cup {CloseBrace} /\ \A kind \in Kinds : D(i, kind) = 0
    BY <1>4, <1>13, <2>2 DEF ItemEnds
  <2>4. \A kind \in {"round", "square", "brace"} : Nest(kind, c) = 0
    <3>1. \A kind \in {"round", "square", "brace"} : kind \in Kinds
      BY DEF Kinds
    <3>2. QED
      BY <1>12, <2>3, <3>1
  <2>5. CASE c \in Separators
    <3>1. \A kind \in {"round", "square", "brace"} : c \notin {Opening[kind], Closing[kind]}
      BY <2>5, Brackets, CharactersDiffer
    <3>2. \A kind \in {"round", "square", "brace"} : nesting[kind] = 0
      BY <1>3, <2>4, <3>1, NestsAsTheLexer
    <3>3. DOMAIN nesting = {"round", "square", "brace"}
      BY DEF ScanTypeOK
    <3>4. QED
      BY <2>5, <3>2, <3>3 DEF EndsItem
  <2>6. CASE c = CloseBrace
    <3>1. PICK before \in Nat : before = nesting["brace"]
      BY <1>3
    <3>2. D(i, "brace") = before - 1 /\ D(i, "brace") = 0
      <4>1. "brace" \in Kinds /\ "brace" # "angle" /\ Closing["brace"] = CloseBrace
        BY Brackets DEF Kinds
      <4>2. D(i - 1, "brace") = nesting["brace"]
        BY <4>1
      <4>3. D(i, "brace") = D(i - 1, "brace") - 1
        BY <1>9, <2>1, <2>6, <4>1
      <4>4. QED
        BY <2>3, <3>1, <4>1, <4>2, <4>3
    <3>3. before = 1
      BY <3>2
    <3>4. QED
      BY <2>6, <3>1, <3>3 DEF EndsItem
  <2>7. QED
    BY <2>3, <2>5, <2>6
<1>14. ASSUME EndsItem(c) PROVE i \in ItemEnds(source, code)
  <2>1. i \in code
    BY <1>5, <1>14, Unconfused DEF EndsItem
  <2>2. CASE c \in Separators /\ \A kind \in DOMAIN nesting : nesting[kind] = 0
    <3>1. DOMAIN nesting = {"round", "square", "brace"}
      BY DEF ScanTypeOK
    <3>2. \A kind \in {"round", "square", "brace"} : c \notin {Opening[kind], Closing[kind]}
      BY <2>2, Brackets, CharactersDiffer
    <3>3. \A kind \in {"round", "square", "brace"} : Nest(kind, c) = 0
      BY <1>3, <2>2, <3>1, <3>2, NestsAsTheLexer
    <3>4. \A kind \in Kinds : D(i, kind) = 0
      BY <1>11, <1>12, <3>3 DEF Kinds
    <3>5. QED
      BY <1>4, <2>1, <2>2, <3>4 DEF ItemEnds
  <2>3. CASE c = CloseBrace /\ nesting.brace = 1
    <3>1. D(i - 1, "brace") = 1
      <4>1. "brace" \in Kinds /\ "brace" # "angle"
        BY DEF Kinds
      <4>2. QED
        BY <2>3, <4>1
    <3>2. \A k \in code : k <= i => \A kind \in Kinds : D(k, kind) >= 0
      BY <1>6
    <3>3. \A k \in code : source[k] = OpenBrace => \A kind \in Kinds \ {"brace"} : D(k, kind) <= 0
      BY DEF NoGap
    <3>4. \A kind \in {"round", "square", "brace"} : D(i, kind) = 0
      <4>1. source[i] = CloseBrace
        BY <1>4, <2>3
      <4>2. QED
        BY <1>1, <2>1, <3>1, <3>2, <3>3, <4>1, BlockClosesBare
    <3>5. \A kind \in Kinds : D(i, kind) = 0
      BY <1>11, <3>4 DEF Kinds
    <3>6. QED
      BY <1>4, <2>1, <2>3, <3>5 DEF ItemEnds
  <2>4. QED
    BY <1>14, <2>2, <2>3 DEF EndsItem
<1>15. \A kind \in Kinds : D(i, kind) = IF kind = "angle" THEN 0 ELSE Nest(kind, c)
  BY <1>11, <1>12 DEF Kinds
<1>16. QED
  BY <1>4, <1>13, <1>14, <1>15

LEMMA MaskStep ==
  ASSUME ScanTypeOK, MaskInv, ScanNext
  PROVE  MaskInv'
<1>1. source' = source /\ task' = task /\ found = -1
  BY StepsKeepTheText
<1>2. NoGap' <=> NoGap
  BY <1>1 DEF NoGap, Misread, Confusing
<1>3. PICK code \in SUBSET Nat : code = CodeOf(source)
  BY CodeIsFinite DEF ScanTypeOK
<1>4. PICK n \in Nat : n = Len(source)
  BY LenProperties DEF ScanTypeOK
<1>5. PICK i \in Nat, next \in Nat : i = at /\ next = at'
  BY TypesHold DEF ScanTypeOK
<1> SUFFICES ASSUME task = "mask", NoGap
             PROVE  /\ found' = -1 =>
                         /\ next <= n => WithinToken(source, next)
                         /\ \A kind \in Kinds : Depth(source, code, next - 1, kind) =
                                                IF kind = "angle" THEN 0 ELSE nesting'[kind]
                         /\ \A k \in ItemEnds(source, code) : k >= next
                    /\ found' # -1 =>
                         found' = IF RustItemEnd(source) > n THEN n ELSE RustItemEnd(source)
  BY <1>1, <1>2, <1>3, <1>4, <1>5 DEF MaskInv, InStep
<1>6. /\ InStep
      /\ \A kind \in Kinds : Depth(source, code, i - 1, kind) =
                             IF kind = "angle" THEN 0 ELSE nesting[kind]
  BY <1>1, <1>3, <1>5 DEF MaskInv
<1>7. PICK ends \in SUBSET code : ends = ItemEnds(source, code)
  BY <1>3, FirstEnd DEF ScanTypeOK
<1>8. \A k \in ends : i <= k
  <2>1. \A k \in ends : k >= at
    BY <1>1, <1>3, <1>7 DEF MaskInv
  <2>2. \A k \in ends : k \in Nat
    OBVIOUS
  <2>3. \A k \in ends : k >= i
    BY <1>5, <2>1
  <2>4. QED
    BY <2>2, <2>3
<1>9. \A k \in code : k > 0 /\ k <= n
  BY <1>3, <1>4, CodeIsFinite DEF ScanTypeOK
<1>10. CASE SkipLineComment \/ SkipBlockComment \/ SkipString
  <2>1. /\ next > i
        /\ next <= n => WithinToken(source, next)
        /\ \A k \in code : k < i \/ next <= k
        /\ found' = -1
    BY <1>3, <1>4, <1>5, <1>6, <1>10, SkipsAreSound DEF NoGap
  <2>2. nesting' = nesting
    BY <1>6, <1>10, SkipsAreSound DEF NoGap
  <2>3. ASSUME NEW kind
        PROVE  Depth(source, code, next - 1, kind) = Depth(source, code, i - 1, kind)
    <3>1. i <= next
      BY <2>1
    <3>2. \A k \in code : k < i \/ next <= k
      BY <2>1
    <3>3. QED
      BY <3>1, <3>2, DepthStays
  <2>4. \A k \in ends : k >= next
    <3>1. \A k \in ends : k \in Nat /\ k \in code
      OBVIOUS
    <3>2. QED
      BY <1>8, <2>1, <3>1
  <2>5. \A kind \in Kinds : Depth(source, code, next - 1, kind) =
                            IF kind = "angle" THEN 0 ELSE nesting'[kind]
    BY <1>6, <2>2, <2>3
  <2>6. QED
    BY <1>7, <2>1, <2>4, <2>5
<1>11. CASE ScanForItem
  <2>1. Code /\ at <= Len(source)
    BY <1>11 DEF ScanForItem, Code, Looking
  <2>2. WithinToken(source, i) /\ i <= n
    BY <1>4, <1>5, <1>6, <2>1 DEF InStep
  <2>3. i + 1 <= n => WithinToken(source, i + 1)
    BY <1>4, <1>5, <2>1, <2>2, Passed DEF NoGap
  <2>4. \A k \in ItemEnds(source, code) : i <= k
    BY <1>7, <1>8
  <2>5. /\ \A kind \in Kinds : Depth(source, code, i, kind) =
                               IF kind = "angle" THEN 0 ELSE Nest(kind, source[i])
        /\ EndsItem(source[i]) <=> i \in ItemEnds(source, code)
    BY <1>3, <1>5, <1>6, <2>1, <2>2, <2>4, MaskPasses
  <2>6. CASE EndsItem(source[i])
    <3>1. found' = i
      BY <1>5, <1>11, <2>6 DEF ScanForItem
    <3>2. RustItemEnd(source) = i
      BY <1>3, <2>4, <2>5, <2>6, FirstEnd DEF ScanTypeOK
    <3>3. ~(i > n) /\ i # -1
      BY <2>2
    <3>4. QED
      BY <3>1, <3>2, <3>3
  <2>7. CASE ~EndsItem(source[i])
    <3>1. /\ next = i + 1 /\ found' = -1
      BY <1>1, <1>5, <1>11, <2>7 DEF ScanForItem
    <3>2. nesting' = [kind \in DOMAIN nesting |-> Nest(kind, source[i])]
      BY <1>5, <1>11, <2>7 DEF ScanForItem
    <3>3. \A kind \in {"round", "square", "brace"} : nesting'[kind] = Nest(kind, source[i])
      BY <3>2 DEF ScanTypeOK
    <3>4. next - 1 = i
      BY <3>1
    <3>5. \A kind \in Kinds : Depth(source, code, next - 1, kind) =
                              IF kind = "angle" THEN 0 ELSE nesting'[kind]
      BY <2>5, <3>3, <3>4 DEF Kinds
    <3>6. \A k \in ends : k >= next
      <4> SUFFICES ASSUME NEW k \in ends PROVE k >= next
        OBVIOUS
      <4>1. k \in Nat /\ i <= k
        BY <1>8
      <4>2. k # i
        BY <1>7, <2>5, <2>7
      <4>3. QED
        BY <3>1, <4>1, <4>2
    <3>7. QED
      BY <1>7, <2>3, <3>1, <3>5, <3>6
  <2>8. QED
    BY <2>6, <2>7
<1>12. CASE ScanForMatch
  BY <1>12 DEF ScanForMatch
<1>13. CASE ScanEnds
  <2>1. i > n /\ found' = n
    BY <1>4, <1>5, <1>13 DEF ScanEnds
  <2>2. ends = {}
    <3> SUFFICES ASSUME NEW k \in ends PROVE FALSE
      OBVIOUS
    <3>1. k \in Nat /\ i <= k /\ k <= n
      BY <1>8, <1>9
    <3>2. QED
      BY <2>1, <3>1
  <2>3. RustItemEnd(source) = n + 1
    BY <1>3, <1>4, <1>7, <2>2, FirstEnd DEF ScanTypeOK
  <2>4. n + 1 > n /\ n # -1
    OBVIOUS
  <2>5. QED
    BY <2>1, <2>3, <2>4
<1>14. QED
  BY <1>10, <1>11, <1>12, <1>13 DEF ScanNext

----------------------------------------------------------------------------
(* ScanIInv is inductive.                                                    *)
THEOREM ScanInductive == ScanSpec => []ScanIInv
<1>1. ScanInit => ScanIInv
  BY TypesHold, InitIsSound DEF ScanIInv
<1>2. ScanIInv /\ [ScanNext]_scanVars => ScanIInv'
  <2>1. ASSUME ScanIInv, ScanNext PROVE ScanIInv'
    BY <2>1, TypesHold, MatchStep, MaskStep DEF ScanIInv
  <2>2. ASSUME ScanIInv, UNCHANGED scanVars PROVE ScanIInv'
    <3>1. task' = task /\ source' = source /\ at' = at /\ nesting' = nesting /\ found' = found
      BY <2>2 DEF scanVars
    <3>2. ScanTypeOK'
      BY <2>2, TypesHold DEF ScanIInv
    <3>3. (Misread' <=> Misread) /\ (NoGap' <=> NoGap)
      BY <3>1 DEF NoGap, Misread, Confusing
    <3>4. MatchInv'
      BY <2>2, <3>1, <3>3 DEF ScanIInv, MatchInv, InStep
    <3>5. MaskInv'
      BY <2>2, <3>1, <3>3 DEF ScanIInv, MaskInv, InStep
    <3>6. QED
      BY <3>2, <3>4, <3>5 DEF ScanIInv
  <2>3. QED
    BY <2>1, <2>2
<1>3. QED
  BY <1>1, <1>2, PTL DEF ScanSpec

(* In a text of any length, whatever its strings and comments hold, the       *)
(* brace that is found is the one that Rust matches.                         *)
THEOREM TheBraceIsThatOfRust == ScanSpec => []MatchIsThatOfRust
<1>1. ScanIInv => MatchIsThatOfRust
  BY DEF ScanIInv, MatchInv, MatchIsThatOfRust
<1>2. QED
  BY <1>1, ScanInductive, PTL

(* What is masked is the item and no more, but for the known gaps.            *)
THEOREM TheMaskIsTheItem == ScanSpec => []MaskIsTheItem
<1>1. ScanIInv => MaskIsTheItem
  <2> SUFFICES ASSUME ScanIInv, task = "mask", found # -1, ~Misread,
                      ~EndsBare(source, CodeOf(source), RustItemEnd(source)),
                      \A k \in CodeOf(source) :
                         /\ source[k] # "<"
                         /\ source[k] = OpenBrace => \A kind \in Kinds \ {"brace"} :
                                                  ~(Depth(source, CodeOf(source), k, kind) > 0)
               PROVE  found = IF RustItemEnd(source) > Len(source) THEN Len(source)
                              ELSE RustItemEnd(source)
    BY DEF MaskIsTheItem
  <2>1. ASSUME NEW k \in CodeOf(source), NEW kind
        PROVE  Depth(source, CodeOf(source), k, kind) \in Int
    <3>1. /\ CodeOf(source) \in SUBSET Nat /\ IsFiniteSet(CodeOf(source))
          /\ k \in Int
      BY CodeIsFinite DEF ScanIInv, ScanTypeOK
    <3>2. QED
      BY <3>1, DepthType
  <2>2. \A k \in CodeOf(source) : source[k] = OpenBrace =>
          \A kind \in Kinds \ {"brace"} : Depth(source, CodeOf(source), k, kind) <= 0
    BY <2>1
  <2>3. NoGap
    BY <2>2 DEF NoGap
  <2>4. QED
    BY <2>3 DEF ScanIInv, MaskInv
<1>2. QED
  BY <1>1, ScanInductive, PTL
=============================================================================
