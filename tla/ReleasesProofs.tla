--------------------------- MODULE ReleasesProofs -----------------------------
(***************************************************************************)
(* Theorems about the registry of ReleaseRegistry, for any threads,        *)
(* releases and manifests, and about the cache on disk of CapabilityCache, *)
(* for any callers and requests.                                           *)
(***************************************************************************)
EXTENDS ReleaseRegistry, CapabilityCache, TLAPS

Selections == [release: Releases, manifest: Manifests]
Arcs == [release: Releases, manifest: Manifests, call: Nat]
USE DEF Selections, Arcs

LEMMA RegistryInitially == Init => IInv
  BY RegistryAssumption DEF Init, IInv, TypeOK, RegistryInv, ThreadInv, Selectors,
     ChannelDocument

(* What was vetted stays so, as nothing is withdrawn from announced.        *)
LEMMA VettedStays ==
  ASSUME NEW r, NEW m, Vetted(r, m), announced \subseteq announced'
  PROVE  Vetted(r, m)'
  BY DEF Vetted

(* A thread that does not move keeps what it has, if the channel documents  *)
(* only grow and what is remembered stays.                                  *)
LEMMA OtherThreads ==
  ASSUME IInv, NEW u \in Threads, announced \subseteq announced',
         remote # None => remote' = remote,
         pc'[u] = pc[u], channel'[u] = channel[u], selection'[u] = selection[u],
         release'[u] = release[u]
  PROVE  ThreadInv(u)'
<1>1. ThreadInv(u)
  BY DEF IInv
<1>2. QED
  BY <1>1, VettedStays DEF ThreadInv

(* A step that registers, remembers and answers nothing keeps what was.     *)
LEMMA RegistryKept ==
  ASSUME IInv, UNCHANGED <<registry, remote, answers>>,
         announced \subseteq announced', published' \in announced'
  PROVE  RegistryInv'
<1>1. RegistryInv
  BY DEF IInv
<1>2. QED
  BY <1>1, VettedStays DEF RegistryInv

LEMMA BundleVetted ==
  ASSUME NEW r \in Bundled
  PROVE  Vetted(r, Bundle[r]) /\ Selection(r, Bundle[r]) \in Selections
  BY RegistryAssumption DEF Vetted, Selection

LEMMA SelectKeeps ==
  ASSUME IInv, NEW t \in Threads, SelectBundled(t) \/ SelectRemembered(t)
  PROVE  IInv'
<1>1. TypeOK /\ RegistryInv /\ \A u \in Threads : ThreadInv(u)
  BY DEF IInv
<1>2. PICK s \in Selections :
        /\ Select(t, "select", s) /\ UNCHANGED remote
        /\ Vetted(s.release, s.manifest)
        /\ release[t] = "latest" => s = remote
  <2>1. CASE SelectBundled(t)
    <3>1. Resolved(release[t]) \in Bundled
      BY <2>1 DEF SelectBundled
    <3>2. QED
      BY <2>1, <3>1, BundleVetted DEF SelectBundled, Selection
  <2>2. CASE SelectRemembered(t)
    BY <1>1, <2>2 DEF SelectRemembered, RegistryInv, TypeOK
  <2>3. QED
    BY <2>1, <2>2
<1>3. TypeOK'
  BY <1>1, <1>2 DEF TypeOK, Select, Step, serverVars
<1>4. RegistryInv'
  BY <1>1, <1>2, RegistryKept DEF Select, serverVars, RegistryInv
<1>5. ThreadInv(t)'
  <2>1. Vetted(s.release, s.manifest)'
    BY <1>2, VettedStays DEF Select, serverVars
  <2>2. /\ pc'[t] = "lookup" /\ selection'[t] = s /\ release' = release /\ remote' = remote
        /\ s # None
    BY <1>1, <1>2, NoneAssumption DEF Select, Step, TypeOK
  <2>3. QED
    BY <1>2, <2>1, <2>2 DEF ThreadInv
<1>6. ASSUME NEW u \in Threads, u # t PROVE ThreadInv(u)'
  BY <1>1, <1>2, <1>6, OtherThreads DEF Select, Step, TypeOK, serverVars
<1>7. QED
  BY <1>3, <1>4, <1>5, <1>6 DEF IInv

LEMMA RememberKeeps ==
  ASSUME IInv, NEW t \in Threads, Remember(t)
  PROVE  IInv'
<1>1. TypeOK /\ RegistryInv /\ \A u \in Threads : ThreadInv(u)
  BY DEF IInv
<1>2. PICK s \in Selections :
        /\ s # None /\ Vetted(s.release, s.manifest)
        /\ remote # None => s = remote
        /\ remote' = s /\ Select(t, "remember", s)
  <2>1. /\ Remembered(t) \in Selections
        /\ Vetted(Remembered(t).release, Remembered(t).manifest)
        /\ remote # None => Remembered(t) = remote
    BY <1>1 DEF Remember, Remembered, TypeOK, ThreadInv, RegistryInv
  <2>2. QED
    BY <2>1, NoneAssumption DEF Remember
<1>3. TypeOK'
  BY <1>1, <1>2 DEF TypeOK, Select, Step, serverVars
<1>4. Vetted(s.release, s.manifest)'
  BY <1>2, VettedStays DEF Select, serverVars
<1>5. RegistryInv'
  <2>1. /\ registry' = registry /\ answers' = answers /\ announced' = announced
        /\ published' = published
    BY <1>2 DEF Select, serverVars
  <2>2. ASSUME NEW r \in Releases, registry[r] # None
        PROVE  registry[r].release = r /\ Vetted(r, registry[r].manifest)'
    BY <1>1, <2>1, <2>2 DEF RegistryInv, Vetted
  <2>3. ASSUME NEW a \in answers, a.release = "latest"
        PROVE  remote' = remote
    BY <1>1, <1>2, <2>3 DEF RegistryInv
  <2>4. QED
    BY <1>1, <1>2, <1>4, <2>1, <2>2, <2>3 DEF RegistryInv
<1>6. ThreadInv(t)'
  <2>1. /\ pc'[t] = "lookup" /\ selection'[t] = s
    BY <1>1, <1>2 DEF Select, Step, TypeOK
  <2>2. QED
    BY <1>2, <1>4, <2>1 DEF ThreadInv
<1>7. ASSUME NEW u \in Threads, u # t PROVE ThreadInv(u)'
  BY <1>1, <1>2, <1>7, OtherThreads DEF Select, Step, TypeOK, serverVars
<1>8. QED
  BY <1>3, <1>5, <1>6, <1>7 DEF IInv

(* A call that ends leaves its thread with nothing.                         *)
LEMMA ReturnedThread ==
  ASSUME TypeOK, NEW t \in Threads, NEW from, Return(t, from)
  PROVE  /\ ThreadInv(t)'
         /\ \A u \in Threads : u # t =>
              /\ pc'[u] = pc[u] /\ channel'[u] = channel[u]
              /\ selection'[u] = selection[u] /\ release'[u] = release[u]
         /\ pc' \in [Threads -> {"idle", "select", "fetch_channel", "fetch_manifest",
                                "remember", "lookup", "register"}]
         /\ release' \in [Threads -> Selectors] /\ call' \in [Threads -> Nat]
         /\ channel' \in [Threads -> ChannelDocument \cup {None}]
         /\ selection' \in [Threads -> Selections \cup {None}]
  BY DEF Return, Step, TypeOK, ThreadInv, Selectors

LEMMA RaiseKeeps ==
  ASSUME IInv, NEW t \in Threads, NEW from, Raise(t, from)
  PROVE  IInv'
<1>1. TypeOK /\ RegistryInv /\ \A u \in Threads : ThreadInv(u)
  BY DEF IInv
<1>2. TypeOK'
  BY <1>1, ReturnedThread DEF TypeOK, Raise, serverVars
<1>3. RegistryInv'
  BY <1>1, RegistryKept DEF Raise, serverVars, RegistryInv
<1>4. ASSUME NEW u \in Threads PROVE ThreadInv(u)'
  BY <1>1, ReturnedThread, OtherThreads DEF Raise, serverVars
<1>5. QED
  BY <1>2, <1>3, <1>4 DEF IInv

LEMMA BeginKeeps ==
  ASSUME IInv, NEW t \in Threads, NEW r \in Selectors, Begin(t, r)
  PROVE  IInv'
<1>1. TypeOK /\ RegistryInv /\ \A u \in Threads : ThreadInv(u)
  BY DEF IInv
<1>2. TypeOK'
  BY <1>1 DEF TypeOK, Begin, Step, serverVars
<1>3. RegistryInv'
  BY <1>1, RegistryKept DEF Begin, serverVars, RegistryInv
<1>4. ThreadInv(t)'
  BY <1>1 DEF Begin, Step, ThreadInv, TypeOK
<1>5. ASSUME NEW u \in Threads, u # t PROVE ThreadInv(u)'
  BY <1>1, <1>5, OtherThreads DEF Begin, Step, TypeOK, serverVars
<1>6. QED
  BY <1>2, <1>3, <1>4, <1>5 DEF IInv

(* The steps of a download up to its verdict.                               *)
LEMMA DownloadKeeps ==
  ASSUME IInv, NEW t \in Threads, StartDownload(t) \/ FetchChannel(t) \/ FetchManifest(t)
  PROVE  IInv'
<1>1. TypeOK /\ RegistryInv /\ \A u \in Threads : ThreadInv(u)
  BY DEF IInv
<1>2. /\ UNCHANGED <<registry, remote, release, call, published, files, publishes, announced,
                     calls, answers>>
      /\ \A u \in Threads : u # t =>
           pc'[u] = pc[u] /\ channel'[u] = channel[u] /\ selection'[u] = selection[u]
  BY <1>1 DEF StartDownload, FetchChannel, FetchManifest, Step, TypeOK, serverVars
<1>3. TypeOK' /\ ThreadInv(t)'
  <2>1. CASE StartDownload(t)
    BY <1>1, <1>2, <2>1 DEF StartDownload, Step, TypeOK, ThreadInv
  <2>2. CASE FetchChannel(t)
    BY <1>1, <1>2, <2>2 DEF FetchChannel, Step, TypeOK, ThreadInv, RegistryInv
  <2>3. CASE FetchManifest(t)
    <3>1. PICK m \in Manifests :
            /\ Valid(channel[t], m) /\ m = files[channel[t].release]
            /\ selection' = [selection EXCEPT ![t] = Selection(channel[t].release, m)]
            /\ pc[t] = "fetch_manifest" /\ pc' = [pc EXCEPT ![t] = "remember"]
            /\ channel' = channel /\ channel[t] \in ChannelDocument
            /\ channel[t] \in announced
      BY <1>1, <2>3 DEF FetchManifest, Step, TypeOK, ThreadInv, ChannelDocument
    <3>2. [release |-> channel[t].release, sha256 |-> m, compatible |-> TRUE] = channel[t]
      BY <3>1 DEF Valid, ChannelDocument
    <3>3. Vetted(channel[t].release, m)'
      BY <1>2, <3>1, <3>2 DEF Vetted
    <3>4. Selection(channel[t].release, m) \in Selections
      BY <3>1 DEF Selection, ChannelDocument
    <3>5. TypeOK'
      BY <1>1, <1>2, <3>1, <3>4 DEF TypeOK
    <3>6. selection'[t] = Selection(channel[t].release, m) /\ pc'[t] = "remember"
      BY <1>1, <3>1 DEF TypeOK
    <3>7. ThreadInv(t)'
      <4>1. release'[t] = "latest"
        BY <1>1, <1>2, <3>1 DEF ThreadInv
      <4>2. /\ selection'[t] # None
            /\ selection'[t].release = channel[t].release /\ selection'[t].manifest = m
        BY <3>4, <3>6, NoneAssumption DEF Selection
      <4>3. QED
        BY <1>2, <3>1, <3>3, <3>6, <4>1, <4>2 DEF ThreadInv, Vetted
    <3>8. QED
      BY <3>5, <3>7
  <2>4. QED
    BY <2>1, <2>2, <2>3
<1>4. RegistryInv'
  BY <1>1, <1>2, RegistryKept DEF RegistryInv
<1>5. ASSUME NEW u \in Threads, u # t PROVE ThreadInv(u)'
  BY <1>1, <1>2, <1>5, OtherThreads
<1>6. QED
  BY <1>3, <1>4, <1>5 DEF IInv

LEMMA MissKeeps ==
  ASSUME IInv, NEW t \in Threads, LookupMiss(t)
  PROVE  IInv'
<1>1. TypeOK /\ RegistryInv /\ \A u \in Threads : ThreadInv(u)
  BY DEF IInv
<1>2. TypeOK'
  BY <1>1 DEF TypeOK, LookupMiss, Step, serverVars
<1>3. RegistryInv'
  BY <1>1, RegistryKept DEF LookupMiss, serverVars, RegistryInv
<1>4. ThreadInv(t)'
  BY <1>1, VettedStays DEF LookupMiss, Step, ThreadInv, TypeOK, serverVars
<1>5. ASSUME NEW u \in Threads, u # t PROVE ThreadInv(u)'
  BY <1>1, <1>5, OtherThreads DEF LookupMiss, Step, TypeOK, serverVars
<1>6. QED
  BY <1>2, <1>3, <1>4, <1>5 DEF IInv

(* An answer with the Transpiler that is, or is now, registered.            *)
LEMMA AnswerKeeps ==
  ASSUME IInv, NEW t \in Threads, NEW from \in {"lookup", "register"}, NEW arc \in Arcs,
         Answer(t, from, arc), arc.release = selection[t].release,
         Vetted(arc.release, arc.manifest),
         registry' = [registry EXCEPT ![arc.release] = arc],
         registry[arc.release] # None => arc = registry[arc.release]
  PROVE  IInv'
<1>1. TypeOK /\ RegistryInv /\ \A u \in Threads : ThreadInv(u)
  BY DEF IInv
<1>2. /\ Return(t, from) /\ pc[t] = from
      /\ answers' = answers \cup {[release |-> release[t], arc |-> arc]}
      /\ UNCHANGED <<remote, published, files, publishes, announced, calls>>
  BY DEF Answer, Return, Step, serverVars
<1>3. TypeOK'
  BY <1>1, <1>2, ReturnedThread DEF TypeOK
<1>4. RegistryInv'
  <2>1. arc # None /\ arc.release \in Releases
    BY NoneAssumption
  <2>2. ASSUME NEW r \in Releases, registry'[r] # None
        PROVE  /\ registry'[r].release = r
               /\ Vetted(r, registry'[r].manifest)
    BY <1>1, <2>1, <2>2 DEF RegistryInv, TypeOK
  <2>3. ASSUME NEW a \in answers
        PROVE  a.arc.release \in Releases /\ registry'[a.arc.release] = a.arc /\ a.arc # None
    BY <1>1, <2>1, <2>3 DEF RegistryInv, TypeOK
  <2>4. release[t] = "latest" => remote # None /\ arc.release = remote.release
    BY <1>1, <1>2 DEF ThreadInv
  <2>5. registry'[arc.release] = arc
    BY <1>1, <2>1 DEF TypeOK
  <2>6. ASSUME NEW a \in answers'
        PROVE  /\ a.arc.release \in Releases /\ registry'[a.arc.release] = a.arc
               /\ a.arc # None
               /\ a.release = "latest" => remote # None /\ a.arc.release = remote.release
    <3>1. CASE a \in answers
      BY <1>1, <2>3, <3>1 DEF RegistryInv
    <3>2. CASE a = [release |-> release[t], arc |-> arc]
      BY <2>1, <2>4, <2>5, <3>2
    <3>3. QED
      BY <1>2, <2>6, <3>1, <3>2
  <2>7. /\ published' \in announced'
        /\ remote' # None => Vetted(remote'.release, remote'.manifest)
    BY <1>1, <1>2 DEF RegistryInv
  <2>8. QED
    BY <1>2, <2>2, <2>6, <2>7 DEF RegistryInv, Vetted
<1>5. ASSUME NEW u \in Threads PROVE ThreadInv(u)'
  BY <1>1, <1>2, ReturnedThread, OtherThreads
<1>6. QED
  BY <1>3, <1>4, <1>5 DEF IInv

LEMMA LookupAndRegisterKeep ==
  ASSUME IInv, NEW t \in Threads, LookupHit(t) \/ Register(t)
  PROVE  IInv'
<1>1. TypeOK /\ RegistryInv /\ ThreadInv(t)
  BY DEF IInv
<1>2. pc[t] \in {"lookup", "register"}
  BY DEF LookupHit, Register
<1>3. /\ selection[t] \in Selections /\ selection[t].release \in Releases
      /\ Vetted(selection[t].release, selection[t].manifest)
  BY <1>1, <1>2 DEF TypeOK, ThreadInv
<1>4. CASE registry[selection[t].release] # None
  <2>1. PICK arc \in Arcs : arc = registry[selection[t].release]
    BY <1>1, <1>3, <1>4 DEF TypeOK
  <2>2. arc.release = selection[t].release /\ Vetted(arc.release, arc.manifest)
    BY <1>1, <1>3, <1>4, <2>1 DEF RegistryInv
  <2>3. registry' = [registry EXCEPT ![arc.release] = arc] /\ Answer(t, pc[t], arc)
    BY <1>1, <1>3, <1>4, <2>1, <2>2 DEF LookupHit, Register, Canonical, TypeOK
  <2>4. QED
    BY <1>2, <2>1, <2>2, <2>3, AnswerKeeps
<1>5. CASE registry[selection[t].release] = None
  <2>1. PICK arc \in Arcs : arc = Arc(selection[t], call[t])
    BY <1>1, <1>3 DEF Arc, TypeOK
  <2>2. /\ arc.release = selection[t].release /\ arc.manifest = selection[t].manifest
    BY <2>1 DEF Arc
  <2>3. registry' = [registry EXCEPT ![arc.release] = arc] /\ Answer(t, "register", arc)
    BY <1>5, <2>1, <2>2 DEF LookupHit, Register, Canonical
  <2>4. QED
    BY <1>3, <1>5, <2>2, <2>3, AnswerKeeps
<1>6. QED
  BY <1>4, <1>5

LEMMA PublishKeeps ==
  ASSUME IInv, Publish
  PROVE  IInv'
<1>1. TypeOK /\ RegistryInv /\ \A u \in Threads : ThreadInv(u)
  BY DEF IInv
<1>2. TypeOK'
  BY <1>1 DEF TypeOK, Publish, threadVars
<1>3. announced \subseteq announced' /\ published' \in announced'
  BY <1>1 DEF Publish, RegistryInv
<1>4. RegistryInv'
  BY <1>3, RegistryKept DEF Publish
<1>5. ASSUME NEW u \in Threads PROVE ThreadInv(u)'
  BY <1>3, OtherThreads DEF Publish, threadVars
<1>6. QED
  BY <1>2, <1>4, <1>5 DEF IInv

(* For any threads, releases and manifests, whatever the server publishes   *)
(* between the requests.                                                    *)
THEOREM RegistryInductive == Spec => []IInv
<1>1. IInv /\ [Next]_vars => IInv'
  <2>1. ASSUME IInv, NEW t \in Threads, Resolve(t) PROVE IInv'
    BY <2>1, SelectKeeps, RememberKeeps, RaiseKeeps, DownloadKeeps, MissKeeps,
       LookupAndRegisterKeep DEF Resolve, UnsupportedRelease, FetchManifestInvalid, DownloadFails
  <2>2. ASSUME IInv, UNCHANGED vars PROVE IInv'
    BY <2>2 DEF vars, threadVars, serverVars, IInv, TypeOK, RegistryInv, ThreadInv, Vetted
  <2>3. QED
    BY <2>1, <2>2, BeginKeeps, PublishKeeps DEF Next
<1>2. QED
  BY <1>1, RegistryInitially, PTL DEF Spec

(* However many first calls of a release race, all get one Transpiler.      *)
THEOREM OneTranspiler == Spec => []OneTranspilerPerRelease
<1>1. IInv => OneTranspilerPerRelease
  BY DEF IInv, RegistryInv, OneTranspilerPerRelease
<1>2. QED
  BY <1>1, RegistryInductive, PTL

(* "latest" is one release for the life of the process.                     *)
THEOREM LatestStays == Spec => []LatestIsStable
<1>1. IInv => LatestIsStable
  BY DEF IInv, RegistryInv, LatestIsStable
<1>2. QED
  BY <1>1, RegistryInductive, PTL

(* No Transpiler is built from a manifest that was neither bundled nor      *)
(* announced with its hash.                                                 *)
THEOREM TranspilersAreVetted == Spec => []EveryTranspilerIsVetted
<1>1. IInv => EveryTranspilerIsVetted
  BY DEF IInv, RegistryInv, EveryTranspilerIsVetted, Vetted
<1>2. QED
  BY <1>1, RegistryInductive, PTL

(***************************************************************************)
(* The cache on disk.                                                      *)
(***************************************************************************)

LEMMA CacheInitially == CacheInit => CacheIInv
<1>1. OldFile \in Seq(Part)
  BY DEF OldFile, Part, Document, Origins
<1>2. \A k \in Keys : Whole(OldFile) /\ \A i \in 1..Len(OldFile) : KeyFits(OldFile[i].of, k)
  <2>1. Len(OldFile) = 1 /\ OldFile[1].of.schema = 1
    BY DEF OldFile
  <2>2. \A i \in 1..Len(OldFile) : i = 1
    BY <2>1
  <2>3. Whole(OldFile)
    BY <2>2 DEF Whole
  <2>4. ASSUME NEW k \in Keys, NEW d, d.schema = 1 PROVE KeyFits(d, k)
    <3>1. d.schema # 2
      BY <2>4
    <3>2. QED
      BY <3>1, Zenon DEF KeyFits
  <2>5. QED
    BY <2>1, <2>2, <2>3, <2>4
<1>3. \A k \in Keys : Whole(<<>>) /\ \A i \in 1..Len(<<>>) : KeyFits(<<>>[i].of, k)
  BY DEF Whole
<1>4. <<>> \in Seq(Part)
  OBVIOUS
<1>5. ASSUME CacheInit
      PROVE  \/ stored = [k \in Keys |-> <<>>]
             \/ stored = [k \in Keys |-> OldFile]
  BY <1>5 DEF CacheInit
<1>6. ASSUME CacheInit PROVE CacheTypeOK
  <2>1. stored \in [Keys -> Seq(Part)]
    <3>1. CASE stored = [k \in Keys |-> <<>>]
      BY <1>4, <3>1
    <3>2. CASE stored = [k \in Keys |-> OldFile]
      BY <1>1, <3>2
    <3>3. QED
      BY <1>5, <1>6, <3>1, <3>2
  <2>2. NoAnswer \in [kind : {"none", "loaded", "built", "error"}, content : Seq(Part), age : Int]
    BY DEF NoAnswer
  <2>3. answer \in [Callers -> [kind : {"none", "loaded", "built", "error"},
                                content : Seq(Part), age : Int]]
    BY <1>6, <2>2 DEF CacheInit
  <2>4. cut \in BOOLEAN
    BY <1>6 DEF CacheInit
  <2>5. document \in [Callers -> Seq(Part)]
    BY <1>4, <1>6 DEF CacheInit
  <2>6. QED
    BY <1>6, <2>1, <2>3, <2>4, <2>5 DEF CacheInit, CacheTypeOK
<1>7. ASSUME CacheInit PROVE FilesInv
  <2>1. CASE stored = [k \in Keys |-> <<>>]
    BY <1>3, <2>1 DEF FilesInv
  <2>2. CASE stored = [k \in Keys |-> OldFile]
    BY <1>2, <2>2 DEF FilesInv
  <2>3. QED
    BY <1>5, <1>7, <2>1, <2>2
<1>8. ASSUME CacheInit, NEW c \in Callers PROVE CallerInv(c) /\ AnswerInv(c)
  BY <1>8 DEF CacheInit, CallerInv, AnswerInv, Loaded, NoAnswer
<1>9. QED
  BY <1>6, <1>7, <1>8 DEF CacheIInv

LEMMA KeyIsAKey ==
  ASSUME NEW r \in Requests
  PROVE  Key(r) \in Keys
  BY CacheAssumption DEF Key, Origins

(* A caller keeps what it has if it does not move, a cut write stays one    *)
(* and the clock, once set back, stays behind.                              *)
LEMMA OtherCallers ==
  ASSUME CacheIInv, NEW e \in Callers,
         step'[e] = step[e], document'[e] = document[e], answer'[e] = answer[e],
         request' = request, cut => cut', clock' = now' => clock = now
  PROVE  CallerInv(e)' /\ AnswerInv(e)'
<1>1. CallerInv(e) /\ AnswerInv(e)
  BY DEF CacheIInv
<1>2. CallerInv(e)'
  BY <1>1 DEF CallerInv, Whole, KeyFits
<1>3. AnswerInv(e)'
  BY <1>1 DEF AnswerInv, Loaded, LoadedFrom, Whole, KeyFits
<1>4. QED
  BY <1>2, <1>3

(* A caller keeps its answer as long as it gets no other.                   *)
LEMMA AnswerStays ==
  ASSUME CacheIInv, NEW e \in Callers, answer'[e] = answer[e],
         request' = request, cut => cut', clock' = now' => clock = now
  PROVE  AnswerInv(e)'
<1>1. AnswerInv(e)
  BY DEF CacheIInv
<1>2. QED
  BY <1>1 DEF AnswerInv, Loaded, LoadedFrom, Whole, KeyFits

LEMMA FilesStay ==
  ASSUME CacheIInv, stored' = stored, cut => cut'
  PROVE  FilesInv'
<1>1. FilesInv
  BY DEF CacheIInv
<1>2. QED
  BY <1>1 DEF FilesInv, Whole, KeyFits

(* A step of one caller that leaves the others, the files and time alone.   *)
LEMMA OneCaller ==
  ASSUME CacheIInv, NEW c \in Callers, CacheTypeOK', FilesInv',
         CallerInv(c)', AnswerInv(c)', request' = request, cut => cut',
         now' = now, clock' = clock,
         \A e \in Callers : e # c =>
           step'[e] = step[e] /\ document'[e] = document[e] /\ answer'[e] = answer[e]
  PROVE  CacheIInv'
<1>1. ASSUME NEW e \in Callers, e # c PROVE CallerInv(e)' /\ AnswerInv(e)'
  BY <1>1, OtherCallers
<1>2. QED
  BY <1>1 DEF CacheIInv

LEMMA StartKeeps ==
  ASSUME CacheIInv, NEW c \in Callers, Start(c)
  PROVE  CacheIInv'
<1>1. CacheTypeOK
  BY DEF CacheIInv
<1>2. CacheTypeOK'
  BY <1>1 DEF CacheTypeOK, Start
<1>3. step'[c] \in {"load", "build"}
  BY <1>1 DEF CacheTypeOK, Start
<1>4. CallerInv(c)'
  BY <1>3 DEF CallerInv
<1>5. AnswerInv(c)' /\ FilesInv'
  BY AnswerStays, FilesStay DEF Start
<1>6. QED
  BY <1>1, <1>2, <1>4, <1>5, OneCaller DEF Start, CacheTypeOK

LEMMA LoadKeeps ==
  ASSUME CacheIInv, NEW c \in Callers, Load(c)
  PROVE  CacheIInv'
<1>1. CacheTypeOK /\ FilesInv /\ CallerInv(c)
  BY DEF CacheIInv
<1>2. PICK content \in Seq(Part) : content = stored[Key(request[c])]
  BY <1>1, KeyIsAKey DEF CacheTypeOK
<1>3. Key(request[c]) \in Keys
  BY <1>1, KeyIsAKey DEF CacheTypeOK
<1>4. /\ \A i \in 1..Len(content) : KeyFits(content[i].of, Key(request[c]))
      /\ ~cut => Whole(content)
  BY <1>1, <1>2, <1>3 DEF FilesInv
<1>5. CASE Parses(content) /\ ~OldSchema(content)
  <2>1. /\ document' = [document EXCEPT ![c] = content]
        /\ step' = [step EXCEPT ![c] = "check"]
    BY <1>2, <1>5 DEF Load
  <2>2. CacheTypeOK'
    BY <1>1, <2>1 DEF CacheTypeOK, Load
  <2>3. step'[c] = "check" /\ document'[c] = content
    BY <1>1, <2>1 DEF CacheTypeOK
  <2>4. /\ content # <<>> /\ 1 \in 1..Len(content)
        /\ Len(content) = content[1].of.parts /\ content[1].of.schema = 2
        /\ KeyFits(content[1].of, Key(request[c]))
    BY <1>4, <1>5 DEF Parses, OldSchema
  <2>5. CallerInv(c)'
    BY <1>4, <2>3, <2>4 DEF CallerInv, Load, Whole, KeyFits
  <2>6. AnswerInv(c)' /\ FilesInv'
    BY AnswerStays, FilesStay DEF Load
  <2>7. QED
    BY <1>1, <2>1, <2>2, <2>5, <2>6, OneCaller DEF Load, CacheTypeOK
<1>6. CASE ~(Parses(content) /\ ~OldSchema(content))
  <2>1. /\ document' = [document EXCEPT ![c] = <<>>]
        /\ step' = [step EXCEPT ![c] = "build"]
    BY <1>2, <1>6 DEF Load
  <2>2. CacheTypeOK' /\ step'[c] = "build"
    BY <1>1, <2>1 DEF CacheTypeOK, Load
  <2>3. CallerInv(c)'
    BY <2>2 DEF CallerInv
  <2>4. AnswerInv(c)' /\ FilesInv'
    BY AnswerStays, FilesStay DEF Load
  <2>5. QED
    BY <1>1, <2>1, <2>2, <2>3, <2>4, OneCaller DEF Load, CacheTypeOK
<1>7. QED
  BY <1>5, <1>6

(* What was checked while the clock was right is no older than it says.     *)
LEMMA CheckKeeps ==
  ASSUME CacheIInv, NEW c \in Callers, Check(c)
  PROVE  CacheIInv'
<1>1. CacheTypeOK /\ CallerInv(c)
  BY DEF CacheIInv
<1>2. PICK d \in Seq(Part) : d = document[c]
  BY <1>1 DEF CacheTypeOK
<1>3. /\ d # <<>> /\ Len(d) = d[1].of.parts /\ d[1].of.schema = 2
      /\ KeyFits(d[1].of, Key(request[c]))
      /\ ~cut => Whole(d)
  BY <1>1, <1>2 DEF CallerInv, Check
<1>4. d[1] \in Part
  BY <1>3
<1>5. /\ d[1].of.built \in Int /\ d[1].of.created \in Int /\ now \in Int /\ clock \in Int
      /\ request[c].ttl \in Int
  <2>1. d[1].of \in Document
    BY <1>4 DEF Part
  <2>2. d[1].of.built \in Int /\ d[1].of.created \in Int
    BY <2>1 DEF Document
  <2>3. request[c] \in Requests /\ now \in Int /\ clock \in Int
    BY <1>1 DEF CacheTypeOK
  <2>4. request[c].ttl \in Nat
    BY <2>3, CacheAssumption
  <2>5. QED
    BY <2>2, <2>3, <2>4
<1>6. FilesInv'
  BY FilesStay DEF Check
<1>7. CASE Expired(d[1].of.created, request[c].ttl)
  <2>1. step' = [step EXCEPT ![c] = "build"] /\ UNCHANGED <<document, answer>>
    BY <1>2, <1>7 DEF Check
  <2>2. CacheTypeOK' /\ step'[c] = "build"
    BY <1>1, <2>1 DEF CacheTypeOK, Check
  <2>3. CallerInv(c)' /\ AnswerInv(c)'
    BY <2>1, <2>2, AnswerStays DEF CallerInv, Check
  <2>4. QED
    BY <1>1, <1>6, <2>1, <2>2, <2>3, OneCaller DEF Check, CacheTypeOK
<1>8. CASE ~Expired(d[1].of.created, request[c].ttl)
  <2>1. /\ step' = [step EXCEPT ![c] = "done"] /\ document' = document
        /\ answer' = [answer EXCEPT ![c] = [kind |-> "loaded", content |-> d,
                                            age |-> now - d[1].of.built]]
    BY <1>2, <1>8 DEF Check, Answered
  <2>2. CacheTypeOK' /\ step'[c] = "done"
    BY <1>1, <1>5, <2>1 DEF CacheTypeOK, Check
  <2>3. answer'[c] = [kind |-> "loaded", content |-> d, age |-> now - d[1].of.built]
    BY <1>1, <2>1 DEF CacheTypeOK
  <2>4. (clock = now /\ request[c].ttl > 0) =>
          now - d[1].of.built <= request[c].ttl + (d[1].of.created - d[1].of.built)
    BY <1>5, <1>8 DEF Expired
  <2>5. AnswerInv(c)'
    <3>1. /\ answer'[c].content = d /\ answer'[c].age = now - d[1].of.built
          /\ UNCHANGED <<request, now, clock, cut>>
      BY <2>3 DEF Check
    <3>2. ~cut' => Whole(answer'[c].content)
      BY <1>3, <3>1 DEF Whole
    <3>3. KeyFits(answer'[c].content[1].of, Key(request'[c]))
      BY <1>3, <3>1
    <3>4. (clock' = now' /\ request'[c].ttl > 0) =>
            answer'[c].age <= request'[c].ttl + (d[1].of.created - d[1].of.built)
      BY <2>4, <3>1
    <3>5. QED
      BY <1>3, <3>1, <3>2, <3>3, <3>4 DEF AnswerInv, LoadedFrom, Whole, KeyFits
  <2>6. CallerInv(c)'
    BY <2>2 DEF CallerInv
  <2>7. QED
    BY <1>1, <1>6, <2>1, <2>2, <2>5, <2>6, OneCaller DEF Check, CacheTypeOK
<1>9. QED
  BY <1>7, <1>8

(* The file of what was built for a request is the one of its key.          *)
LEMMA BuiltFits ==
  ASSUME NEW r \in Requests, NEW d, d.named = (r.version # ""), d.origin = r.origin
  PROVE  KeyFits(d, Key(r))
<1>1. CASE r.version # ""
  BY <1>1 DEF KeyFits
<1>2. CASE r.version = ""
  <2>1. Key([version |-> "", origin |-> r.origin]) = Key(r)
    BY <1>2 DEF Key
  <2>2. QED
    BY <2>1 DEF KeyFits
<1>3. QED
  BY <1>1, <1>2

LEMMA BuildKeeps ==
  ASSUME CacheIInv, NEW c \in Callers, Build(c)
  PROVE  CacheIInv'
<1>1. CacheTypeOK
  BY DEF CacheIInv
<1>2. request[c] \in Requests /\ FilesInv'
  BY <1>1, FilesStay DEF CacheTypeOK, Build
<1>3. ASSUME NEW n \in 1..2
      PROVE  LET built == BuiltBy(c, n)
                 parts == PartsOf(built)
             IN  /\ parts \in Seq(Part) /\ parts # <<>> /\ Len(parts) = n
                 /\ \A i \in 1..Len(parts) : parts[i].of = built
                 /\ built.parts = n /\ built.schema = 2
                 /\ KeyFits(built, Key(request[c]))
  <2> DEFINE built == BuiltBy(c, n)
             parts == PartsOf(built)
  <2>1. built \in Document
    <3>1. request[c].origin \in Origins
      BY <1>2, CacheAssumption
    <3>2. now \in Int
      BY <1>1 DEF CacheTypeOK
    <3>3. (request[c].version # "") \in BOOLEAN
      OBVIOUS
    <3>4. c \in Callers \cup {"earlier"} /\ n \in Nat /\ 2 \in {1, 2}
      OBVIOUS
    <3>5. QED
      BY <3>1, <3>2, <3>3, <3>4 DEF Document, BuiltBy
  <2>2. built.parts = n /\ built.schema = 2
    BY DEF BuiltBy
  <2>3. KeyFits(built, Key(request[c]))
    <3>1. built.named = (request[c].version # "") /\ built.origin = request[c].origin
      BY DEF BuiltBy
    <3>2. QED
      BY <1>2, <3>1, BuiltFits
  <2> HIDE DEF built
  <2>4. parts \in [1..n -> Part] /\ \A i \in 1..n : parts[i].of = built
    <3>1. \A k \in 1..n : [of |-> built, place |-> k] \in Part
      BY <2>1 DEF Part
    <3>2. QED
      BY <2>2, <3>1 DEF PartsOf
  <2>5. parts \in Seq(Part) /\ Len(parts) = n /\ n \in Nat /\ n > 0
    BY <2>4
  <2>6. parts # <<>>
    BY <2>5
  <2>7. QED
    BY <2>2, <2>3, <2>4, <2>5, <2>6 DEF built
<1>4. ASSUME NEW parts \in Seq(Part), document' = [document EXCEPT ![c] = parts],
             step' = [step EXCEPT ![c] = "save"], answer' = answer,
             CallerInv(c)'
      PROVE  CacheIInv'
  <2>1. CacheTypeOK'
    BY <1>1, <1>4 DEF CacheTypeOK, Build
  <2>2. AnswerInv(c)'
    BY <1>4, AnswerStays DEF Build
  <2>3. QED
    BY <1>1, <1>2, <1>4, <2>1, <2>2, OneCaller DEF CacheTypeOK, Build
<1>5. ASSUME NEW parts \in Seq(Part), document' = [document EXCEPT ![c] = parts],
             NEW kind \in {"built", "error"}, Answered(c, kind, 0)
      PROVE  CacheIInv'
  <2>1. /\ step' = [step EXCEPT ![c] = "done"]
        /\ answer' = [answer EXCEPT ![c] = [kind |-> kind, content |-> parts, age |-> 0]]
    BY <1>1, <1>5 DEF Answered, CacheTypeOK
  <2>2. CacheTypeOK'
    <3>1. [kind |-> kind, content |-> parts, age |-> 0]
            \in [kind : {"none", "loaded", "built", "error"}, content : Seq(Part), age : Int]
      BY <1>5
    <3>2. QED
      BY <1>1, <1>5, <2>1, <3>1 DEF CacheTypeOK, Build
  <2>3. step'[c] = "done" /\ answer'[c].kind = kind
    BY <1>1, <2>1 DEF CacheTypeOK
  <2>4. CallerInv(c)' /\ AnswerInv(c)'
    BY <1>5, <2>3 DEF CallerInv, AnswerInv, Loaded
  <2>5. QED
    BY <1>1, <1>2, <1>5, <2>1, <2>2, <2>4, OneCaller DEF CacheTypeOK, Build
<1>6. CASE document' = [document EXCEPT ![c] = <<>>] /\ Answered(c, "error", 0)
  <2>1. <<>> \in Seq(Part)
    OBVIOUS
  <2>2. QED
    BY <1>5, <1>6, <2>1
<1>7. ASSUME ~(document' = [document EXCEPT ![c] = <<>>] /\ Answered(c, "error", 0))
      PROVE  CacheIInv'
  <2>1. PICK n \in 1..2 :
           /\ document' = [document EXCEPT ![c] = PartsOf(BuiltBy(c, n))]
           /\ IF request[c].mode = "off" THEN Answered(c, "built", 0)
              ELSE step' = [step EXCEPT ![c] = "save"] /\ UNCHANGED answer
    BY <1>7 DEF Build
  <2> DEFINE built == BuiltBy(c, n)
             parts == PartsOf(built)
  <2>2. document' = [document EXCEPT ![c] = parts]
    BY <2>1
  <2>3. /\ parts \in Seq(Part) /\ parts # <<>> /\ Len(parts) = n
        /\ \A i \in 1..Len(parts) : parts[i].of = built
        /\ built.parts = n /\ built.schema = 2
        /\ KeyFits(built, Key(request[c]))
    BY <1>3
  <2> HIDE DEF built, parts
  <2>4. CASE request[c].mode = "off"
    BY <1>5, <2>1, <2>2, <2>3, <2>4
  <2>5. CASE request[c].mode # "off"
    <3>1. step' = [step EXCEPT ![c] = "save"] /\ answer' = answer
      BY <2>1, <2>5
    <3>2. step'[c] = "save" /\ document'[c] = parts /\ request' = request
      BY <1>1, <2>2, <3>1 DEF CacheTypeOK, Build
    <3>3. CallerInv(c)'
      <4>1. 1 \in 1..Len(parts) /\ parts[1].of = built
        BY <2>3
      <4>2. QED
        BY <2>3, <3>2, <4>1 DEF CallerInv, KeyFits
    <3>4. QED
      BY <1>4, <2>2, <2>3, <3>1, <3>3
  <2>6. QED
    BY <2>4, <2>5
<1>8. QED
  BY <1>6, <1>7

(* The time of saving changes neither what a document is of nor its length. *)
LEMMA StampKeeps ==
  ASSUME CacheTypeOK, NEW d \in Seq(Part)
  PROVE  /\ Stamped(d) \in Seq(Part) /\ Len(Stamped(d)) = Len(d)
         /\ \A i \in 1..Len(d) : Stamped(d)[i].of = [d[i].of EXCEPT !.created = clock]
<1>1. clock \in Int
  BY DEF CacheTypeOK
<1>2. ASSUME NEW i \in 1..Len(d)
      PROVE  /\ [d[i] EXCEPT !.of.created = clock] \in Part
             /\ [d[i] EXCEPT !.of.created = clock].of = [d[i].of EXCEPT !.created = clock]
  <2>1. d[i] \in Part
    OBVIOUS
  <2>2. [d[i].of EXCEPT !.created = clock] \in Document
    BY <1>1, <2>1 DEF Part, Document
  <2>3. QED
    BY <2>1, <2>2 DEF Part
<1>3. Stamped(d) \in [1..Len(d) -> Part]
  BY <1>2 DEF Stamped
<1>4. Stamped(d) \in Seq(Part) /\ Len(Stamped(d)) = Len(d)
  BY <1>3
<1>5. QED
  BY <1>2, <1>4 DEF Stamped

(* An error ends the call without an answer.                                *)
LEMMA ErrorKeeps ==
  ASSUME CacheIInv, NEW c \in Callers, Answered(c, "error", 0),
         UNCHANGED <<request, document, stored, now, clock, cut>>
  PROVE  CacheIInv'
<1>1. CacheTypeOK
  BY DEF CacheIInv
<1>2. CacheTypeOK' /\ step'[c] = "done" /\ answer'[c].kind = "error"
  <2>1. [kind |-> "error", content |-> document[c], age |-> 0]
          \in [kind : {"none", "loaded", "built", "error"}, content : Seq(Part), age : Int]
    BY <1>1 DEF CacheTypeOK
  <2>2. QED
    BY <1>1, <2>1 DEF CacheTypeOK, Answered
<1>3. CallerInv(c)' /\ AnswerInv(c)' /\ FilesInv'
  BY <1>2, FilesStay DEF CallerInv, AnswerInv, Loaded
<1>4. QED
  BY <1>1, <1>2, <1>3, OneCaller DEF CacheTypeOK, Answered

(* What fits the file of a key may take the place of what is in it.         *)
LEMMA FileChanges ==
  ASSUME CacheIInv, NEW k \in Keys, NEW content \in Seq(Part),
         stored' = [stored EXCEPT ![k] = content], cut => cut',
         \A i \in 1..Len(content) : KeyFits(content[i].of, k),
         ~cut' => Whole(content)
  PROVE  FilesInv'
<1>1. CacheTypeOK /\ FilesInv
  BY DEF CacheIInv
<1>2. ASSUME NEW j \in Keys
      PROVE  /\ \A i \in 1..Len(stored'[j]) : KeyFits(stored'[j][i].of, j)
             /\ ~cut' => Whole(stored'[j])
  <2>1. CASE j = k
    <3>1. stored'[j] = content
      BY <1>1, <2>1 DEF CacheTypeOK
    <3>2. QED
      BY <2>1, <3>1
  <2>2. CASE j # k
    <3>1. stored'[j] = stored[j]
      BY <1>1, <2>2 DEF CacheTypeOK
    <3>2. QED
      BY <1>1, <3>1 DEF FilesInv
  <2>3. QED
    BY <2>1, <2>2
<1>3. QED
  BY <1>2 DEF FilesInv, Whole, KeyFits

LEMMA OpenKeeps ==
  ASSUME CacheIInv, NEW c \in Callers, Open(c)
  PROVE  CacheIInv'
<1>1. CacheTypeOK /\ CallerInv(c)
  BY DEF CacheIInv
<1>2. Key(request[c]) \in Keys
  BY <1>1, KeyIsAKey DEF CacheTypeOK
<1>3. CASE UNCHANGED <<document, stored>> /\ Answered(c, "error", 0)
  BY <1>3, ErrorKeeps DEF Open
<1>4. ASSUME ~(UNCHANGED <<document, stored>> /\ Answered(c, "error", 0))
      PROVE  CacheIInv'
  <2>1. /\ document' = [document EXCEPT ![c] = Stamped(document[c])]
        /\ stored' = [stored EXCEPT ![Key(request[c])] = <<>>]
        /\ step' = [step EXCEPT ![c] = "write"]
        /\ UNCHANGED <<answer, request, now, clock, cut>>
    BY <1>4 DEF Open
  <2>2. PICK d \in Seq(Part) : d = document[c]
    BY <1>1 DEF CacheTypeOK
  <2>3. /\ d # <<>> /\ Len(d) = d[1].of.parts /\ d[1].of.schema = 2
        /\ KeyFits(d[1].of, Key(request[c]))
        /\ \A i \in 1..Len(d) : d[i].of = d[1].of
    BY <1>1, <2>2 DEF CallerInv, Open
  <2>4. PICK e \in Seq(Part) :
          /\ e = Stamped(d) /\ Len(e) = Len(d)
          /\ \A i \in 1..Len(d) : e[i].of = [d[i].of EXCEPT !.created = clock]
    BY <1>1, StampKeeps
  <2>5. 1 \in 1..Len(d) /\ d[1].of \in Document
    <3>1. 1 \in 1..Len(d)
      BY <2>3
    <3>2. d[1] \in Part
      BY <3>1
    <3>3. QED
      BY <3>1, <3>2 DEF Part
  <2>6. e[1].of = [d[1].of EXCEPT !.created = clock]
    BY <2>4, <2>5
  <2>7. /\ e[1].of.parts = d[1].of.parts /\ e[1].of.schema = d[1].of.schema
        /\ e[1].of.named = d[1].of.named /\ e[1].of.origin = d[1].of.origin
    BY <2>5, <2>6 DEF Document
  <2>8. KeyFits(e[1].of, Key(request[c]))
    BY <2>3, <2>7 DEF KeyFits
  <2>9. CacheTypeOK'
    <3>1. <<>> \in Seq(Part)
      OBVIOUS
    <3>2. document' = [document EXCEPT ![c] = e]
      BY <2>1, <2>2, <2>4
    <3>3. QED
      BY <1>1, <1>2, <2>1, <3>1, <3>2 DEF CacheTypeOK
  <2>10. step'[c] = "write" /\ document'[c] = e /\ request' = request
    BY <1>1, <2>1, <2>2, <2>4 DEF CacheTypeOK
  <2>11. CallerInv(c)'
    <3>1. e # <<>> /\ Len(e) = e[1].of.parts /\ e[1].of.schema = 2
      BY <2>3, <2>4, <2>7
    <3>2. \A i \in 1..Len(e) : e[i].of = e[1].of
      BY <2>3, <2>4, <2>6
    <3>3. QED
      BY <2>8, <2>10, <3>1, <3>2 DEF CallerInv, KeyFits
  <2>12. AnswerInv(c)'
    BY <2>1, AnswerStays
  <2>13. FilesInv'
    <3>1. <<>> \in Seq(Part) /\ Whole(<<>>)
          /\ \A i \in 1..Len(<<>>) : KeyFits(<<>>[i].of, Key(request[c]))
      BY DEF Whole
    <3>2. QED
      BY <1>2, <2>1, <3>1, FileChanges
  <2>14. QED
    BY <1>1, <2>1, <2>9, <2>11, <2>12, <2>13, OneCaller DEF CacheTypeOK
<1>5. QED
  BY <1>3, <1>4

(* Parts of one document that go over a content that fits, fit.             *)
LEMMA OverFits ==
  ASSUME NEW d \in Seq(Part), NEW old \in Seq(Part), NEW k,
         \A i \in 1..Len(d) : KeyFits(d[i].of, k),
         \A i \in 1..Len(old) : KeyFits(old[i].of, k)
  PROVE  /\ Over(d, old) \in Seq(Part)
         /\ \A i \in 1..Len(Over(d, old)) : KeyFits(Over(d, old)[i].of, k)
         /\ \A i \in 1..Len(d) : Over(d, old)[i] = d[i]
         /\ Len(Over(d, old)) >= Len(d)
<1> DEFINE rest == SubSeq(old, Len(d) + 1, Len(old))
<1>1. /\ Len(d) \in Nat /\ Len(old) \in Nat
      /\ rest \in Seq(Part)
      /\ \A i \in 1..Len(rest) : Len(d) + i \in 1..Len(old) /\ rest[i] = old[Len(d) + i]
  OBVIOUS
<1> HIDE DEF rest
<1>2. /\ d \o rest \in Seq(Part) /\ Len(d \o rest) = Len(d) + Len(rest)
      /\ \A i \in 1..Len(d) : (d \o rest)[i] = d[i]
      /\ \A i \in 1..Len(rest) : (d \o rest)[Len(d) + i] = rest[i]
  BY <1>1
<1>3. ASSUME NEW i \in 1..Len(d \o rest) PROVE KeyFits((d \o rest)[i].of, k)
  <2>1. CASE i \in 1..Len(d)
    BY <1>2, <2>1
  <2>2. CASE i \notin 1..Len(d)
    <3>1. PICK j \in 1..Len(rest) : i = Len(d) + j
      <4>1. i - Len(d) \in 1..Len(rest) /\ i = Len(d) + (i - Len(d))
        BY <1>1, <1>2, <2>2
      <4>2. QED
        BY <4>1
    <3>2. (d \o rest)[i] = old[Len(d) + j] /\ Len(d) + j \in 1..Len(old)
      BY <1>1, <1>2, <3>1
    <3>3. QED
      BY <3>2
  <2>3. QED
    BY <2>1, <2>2
<1>4. Over(d, old) = d \o rest
  BY DEF Over, rest
<1>5. QED
  BY <1>1, <1>2, <1>3, <1>4

LEMMA WriteKeeps ==
  ASSUME CacheIInv, NEW c \in Callers, Write(c)
  PROVE  CacheIInv'
<1>1. CacheTypeOK /\ FilesInv /\ CallerInv(c)
  BY DEF CacheIInv
<1>2. Key(request[c]) \in Keys
  BY <1>1, KeyIsAKey DEF CacheTypeOK
<1>3. PICK d \in Seq(Part) : d = document[c]
  BY <1>1 DEF CacheTypeOK
<1>4. /\ d # <<>> /\ Len(d) = d[1].of.parts
      /\ KeyFits(d[1].of, Key(request[c]))
      /\ \A i \in 1..Len(d) : d[i].of = d[1].of
  BY <1>1, <1>3 DEF CallerInv, Write
<1>5. PICK old \in Seq(Part) : old = stored[Key(request[c])]
  BY <1>1, <1>2 DEF CacheTypeOK
<1>6. \A i \in 1..Len(old) : KeyFits(old[i].of, Key(request[c]))
  BY <1>1, <1>2, <1>5 DEF FilesInv
<1>7. PICK content \in Seq(Part) :
        /\ content = Over(d, old)
        /\ \A i \in 1..Len(content) : KeyFits(content[i].of, Key(request[c]))
        /\ \A i \in 1..Len(d) : content[i] = d[i]
        /\ Len(content) >= Len(d)
  <2>1. \A i \in 1..Len(d) : KeyFits(d[i].of, Key(request[c]))
    BY <1>4
  <2>2. QED
    BY <1>6, <2>1, OverFits
<1>8. /\ stored' = [stored EXCEPT ![Key(request[c])] = content]
      /\ step' = [step EXCEPT ![c] = "done"]
      /\ answer' = [answer EXCEPT ![c] = [kind |-> "built", content |-> d, age |-> 0]]
      /\ UNCHANGED <<request, document, now, clock, cut>>
  BY <1>2, <1>3, <1>5, <1>7 DEF Write, Answered
<1>9. Whole(content)
  <2>1. 1 \in 1..Len(d)
    BY <1>4
  <2>2. \A i \in 1..Len(d) : content[i].of = content[1].of
    BY <1>4, <1>7, <2>1
  <2>3. content[1].of.parts = Len(d)
    BY <1>4, <1>7, <2>1
  <2>4. QED
    BY <2>2, <2>3 DEF Whole
<1>10. FilesInv'
  BY <1>2, <1>7, <1>8, <1>9, FileChanges
<1>11. CacheTypeOK' /\ step'[c] = "done" /\ answer'[c].kind = "built"
  <2>1. [kind |-> "built", content |-> d, age |-> 0]
          \in [kind : {"none", "loaded", "built", "error"}, content : Seq(Part), age : Int]
    OBVIOUS
  <2>2. QED
    BY <1>1, <1>2, <1>8, <2>1 DEF CacheTypeOK
<1>12. CallerInv(c)' /\ AnswerInv(c)'
  BY <1>11 DEF CallerInv, AnswerInv, Loaded
<1>13. QED
  BY <1>1, <1>8, <1>10, <1>11, <1>12, OneCaller DEF CacheTypeOK

(* A process that ends leaves the file as it is, or a first part over it.   *)
LEMMA CrashKeeps ==
  ASSUME CacheIInv, NEW c \in Callers, Crash(c)
  PROVE  CacheIInv'
<1>1. CacheTypeOK /\ FilesInv /\ CallerInv(c)
  BY DEF CacheIInv
<1>2. Key(request[c]) \in Keys
  BY <1>1, KeyIsAKey DEF CacheTypeOK
<1>3. /\ step' = [step EXCEPT ![c] = "idle"]
      /\ document' = [document EXCEPT ![c] = <<>>]
      /\ UNCHANGED <<request, answer, now, clock>>
  BY DEF Crash
<1>4. /\ stored' \in [Keys -> Seq(Part)] /\ cut' \in BOOLEAN /\ (cut => cut')
      /\ FilesInv'
  <2>1. CASE UNCHANGED <<stored, cut>>
    BY <1>1, <2>1, FilesStay DEF CacheTypeOK
  <2>2. ASSUME ~UNCHANGED <<stored, cut>>
        PROVE  /\ stored' \in [Keys -> Seq(Part)] /\ cut' \in BOOLEAN /\ (cut => cut')
               /\ FilesInv'
    <3>1. PICK d \in Seq(Part) : d = document[c]
      BY <1>1 DEF CacheTypeOK
    <3>2. PICK old \in Seq(Part) : old = stored[Key(request[c])]
      BY <1>1, <1>2 DEF CacheTypeOK
    <3>3. /\ step[c] = "write" /\ Len(d) > 1 /\ cut' = TRUE
          /\ stored' = [stored EXCEPT ![Key(request[c])] = Over(SubSeq(d, 1, 1), old)]
      BY <1>2, <2>2, <3>1, <3>2 DEF Crash
    <3>4. KeyFits(d[1].of, Key(request[c]))
      BY <1>1, <3>1, <3>3 DEF CallerInv
    <3>5. PICK first \in Seq(Part) : first = SubSeq(d, 1, 1) /\ Len(first) = 1 /\ first[1] = d[1]
      <4>1. 1 \in 1..Len(d) /\ Len(d) \in Nat
        BY <3>3
      <4>2. SubSeq(d, 1, 1) \in Seq(Part)
        BY <4>1
      <4>3. Len(SubSeq(d, 1, 1)) = 1 /\ SubSeq(d, 1, 1)[1] = d[1]
        BY <4>1
      <4>4. QED
        BY <4>2, <4>3
    <3>6. \A i \in 1..Len(first) : KeyFits(first[i].of, Key(request[c]))
      <4>1. \A i \in 1..Len(first) : first[i] = d[1]
        BY <3>5
      <4>2. QED
        BY <3>4, <4>1
    <3>7. \A i \in 1..Len(old) : KeyFits(old[i].of, Key(request[c]))
      BY <1>1, <1>2, <3>2 DEF FilesInv
    <3>8. PICK content \in Seq(Part) :
            /\ content = Over(first, old)
            /\ \A i \in 1..Len(content) : KeyFits(content[i].of, Key(request[c]))
      BY <3>6, <3>7, OverFits
    <3>9. stored' = [stored EXCEPT ![Key(request[c])] = content] /\ cut'
      BY <3>3, <3>5, <3>8
    <3>10. FilesInv'
      BY <1>2, <3>8, <3>9, FileChanges
    <3>11. stored' \in [Keys -> Seq(Part)] /\ cut' \in BOOLEAN
      BY <1>1, <1>2, <3>3, <3>9 DEF CacheTypeOK
    <3>12. QED
      BY <3>9, <3>10, <3>11
  <2>3. QED
    BY <2>1, <2>2
<1>5. CacheTypeOK' /\ step'[c] = "idle"
  <2>1. <<>> \in Seq(Part)
    OBVIOUS
  <2>2. QED
    BY <1>1, <1>3, <1>4, <2>1 DEF CacheTypeOK
<1>6. CallerInv(c)' /\ AnswerInv(c)'
  BY <1>3, <1>4, <1>5, AnswerStays DEF CallerInv
<1>7. QED
  BY <1>1, <1>3, <1>4, <1>5, <1>6, OneCaller DEF CacheTypeOK

LEMMA TimeKeeps ==
  ASSUME CacheIInv, Tick \/ SetBack
  PROVE  CacheIInv'
<1>1. CacheTypeOK
  BY DEF CacheIInv
<1>2. CacheTypeOK' /\ UNCHANGED <<step, request, document, answer, stored, cut>>
  BY <1>1 DEF CacheTypeOK, Tick, SetBack
<1>3. clock' = now' => clock = now
  BY <1>1 DEF CacheTypeOK, Tick, SetBack
<1>4. \A e \in Callers : CallerInv(e)' /\ AnswerInv(e)'
  BY <1>2, <1>3, OtherCallers
<1>5. QED
  BY <1>2, <1>4, FilesStay DEF CacheIInv

(* For any callers, requests and keys, any crashes and a clock that is set  *)
(* back at any time.                                                        *)
THEOREM CacheInductive == CacheSpec => []CacheIInv
<1>1. CacheIInv /\ [CacheNext]_cacheVars => CacheIInv'
  <2>1. ASSUME CacheIInv, UNCHANGED cacheVars PROVE CacheIInv'
    <3>1. UNCHANGED <<step, request, document, answer, stored, now, clock, cut>>
      BY <2>1 DEF cacheVars
    <3>2. CacheTypeOK' /\ FilesInv'
      BY <2>1, <3>1, FilesStay DEF CacheIInv, CacheTypeOK
    <3>3. \A e \in Callers : CallerInv(e)' /\ AnswerInv(e)'
      BY <2>1, <3>1, OtherCallers
    <3>4. QED
      BY <3>2, <3>3 DEF CacheIInv
  <2>2. QED
    BY <2>1, StartKeeps, LoadKeeps, CheckKeeps, BuildKeeps, OpenKeeps, WriteKeeps,
       CrashKeeps, TimeKeeps DEF CacheNext
<1>2. QED
  BY <1>1, CacheInitially, PTL DEF CacheSpec

(* No answer is a part of a document, or of two, unless a write was cut.    *)
THEOREM WholeAnswers == CacheSpec => []AnswersAreWhole
<1>1. ASSUME CacheIInv PROVE AnswersAreWhole
  <2>1. ASSUME NEW c \in Callers, Loaded(c)
        PROVE  /\ Len(answer[c].content) = LoadedFrom(c).parts
               /\ cut \/ \A k \in 1..Len(answer[c].content) :
                             answer[c].content[k].of = LoadedFrom(c)
    <3>1. AnswerInv(c)
      BY <1>1 DEF CacheIInv
    <3>2. /\ answer[c].content # <<>> /\ Len(answer[c].content) = LoadedFrom(c).parts
          /\ ~cut => Whole(answer[c].content)
      BY <2>1, <3>1 DEF AnswerInv
    <3>3. \A k \in 1..Len(answer[c].content) : k <= LoadedFrom(c).parts
      BY <1>1, <3>2 DEF CacheIInv, CacheTypeOK
    <3>4. QED
      BY <3>2, <3>3 DEF Whole, LoadedFrom
  <2>2. QED
    BY <2>1 DEF AnswersAreWhole
<1>2. QED
  BY <1>1, CacheInductive, PTL

(* No answer is of another source, but for the gaps of the key.             *)
THEOREM AnswersOfTheSource == CacheSpec => []AnswersAreOfTheSource
<1>1. ASSUME CacheIInv PROVE AnswersAreOfTheSource
  <2>1. ASSUME NEW c \in Callers, Loaded(c), request[c].version = "",
               ~LoadedFrom(c).named, LoadedFrom(c).origin # request[c].origin
        PROVE  {LoadedFrom(c).origin, request[c].origin} = {"checkout", "checkout 2"}
    <3>1. /\ answer[c].content # <<>> /\ LoadedFrom(c).schema = 2
          /\ KeyFits(LoadedFrom(c), Key(request[c]))
      BY <1>1, <2>1 DEF CacheIInv, AnswerInv
    <3>2. LoadedFrom(c).origin \in Origins /\ request[c].origin \in Origins
      <4>1. answer[c].content \in Seq(Part) /\ request[c] \in Requests
        BY <1>1 DEF CacheIInv, CacheTypeOK
      <4>2. answer[c].content[1] \in Part
        BY <3>1, <4>1
      <4>3. QED
        BY <4>1, <4>2, CacheAssumption DEF Part, Document, LoadedFrom
    <3>3. Key([version |-> "", origin |-> LoadedFrom(c).origin]) = Key(request[c])
      BY <2>1, <3>1 DEF KeyFits
    <3>4. LoadedFrom(c).origin \in {"checkout", "checkout 2"}
          /\ request[c].origin \in {"checkout", "checkout 2"}
      BY <2>1, <3>2, <3>3 DEF Key, Origins
    <3>5. QED
      BY <2>1, <3>4
  <2>2. QED
    BY <2>1 DEF AnswersAreOfTheSource
<1>2. QED
  BY <1>1, CacheInductive, PTL

(* No answer is older than its limit, but for a clock that was set back and *)
(* the time between the building and the saving.                            *)
THEOREM FreshAnswers == CacheSpec => []AnswersAreFresh
<1>1. ASSUME CacheIInv PROVE AnswersAreFresh
  BY <1>1 DEF CacheIInv, AnswerInv, AnswersAreFresh
<1>2. QED
  BY <1>1, CacheInductive, PTL
===============================================================================
