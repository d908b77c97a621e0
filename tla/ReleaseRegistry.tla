--------------------------- MODULE ReleaseRegistry -----------------------------
(***************************************************************************)
(* crates/monty-compat-python/src/lib.rs: how a call of transpiler(code,   *)
(* release) finds its Transpiler.  The release selects a manifest, bundled *)
(* in the wheel or downloaded from the manifest channel; the registry      *)
(* keeps one Transpiler per release.  Two mutexes guard the registry and   *)
(* the downloaded manifest, each for one lookup or one insertion: the      *)
(* download and the construction of a Transpiler happen outside both, and  *)
(* other threads look up, download and insert in between.                  *)
(*                                                                         *)
(* The channel's server is outside the program: it may publish another     *)
(* channel document or manifest between two requests.                      *)
(***************************************************************************)
EXTENDS Naturals

CONSTANTS
    Threads,
    Releases,     (* numeric Monty releases                               *)
    Bundled,      (* RELEASE_MANIFESTS: the releases the wheel bundles    *)
    Verified,     (* VERIFIED_RELEASE, what "verified" stands for         *)
    Manifests,    (* the contents of manifests                            *)
    Bundle,       (* the bundled manifest of each bundled release         *)
    Target,       (* the release each manifest says it is for             *)
    Acceptable,   (* those that parse and have only known features        *)
    MaxCalls,     (* bound of the model: calls of transpiler              *)
    MaxPublishes, (* bound of the model: publications by the server       *)
    None

ASSUME RegistryAssumption ==
    /\ Bundled \subseteq Releases /\ Verified \in Bundled
    /\ Bundle \in [Bundled -> Manifests] /\ Target \in [Manifests -> Releases]
    /\ \A r \in Bundled : Bundle[r] \in Acceptable /\ Target[Bundle[r]] = r
    /\ MaxCalls \in Nat /\ MaxPublishes \in Nat
    /\ None \notin Releases \cup Manifests

(* What None is not: an Arc, a selection, a channel document.               *)
ASSUME NoneAssumption ==
    /\ None \notin [release: Releases, manifest: Manifests, call: Nat]
    /\ None \notin [release: Releases, manifest: Manifests]
    /\ None \notin [release: Releases, sha256: Manifests, compatible: BOOLEAN]

VARIABLES
    registry,   (* TRANSPILERS: the Transpiler of each release, or None   *)
    remote,     (* REMOTE_LATEST: the downloaded manifest, or None        *)
    pc,         (* where each thread is in release_transpiler             *)
    release,    (* the release argument of its call, "verified" between   *)
    call,       (* the number of its call                                 *)
    channel,    (* the channel document it has downloaded, or None        *)
    selection,  (* the manifest it has selected, or None                  *)
    published,  (* external: the channel document on the server           *)
    files,      (* external: the manifest at the URL of each release      *)
    calls,      (* history: calls begun                                   *)
    publishes,  (* history: publications                                  *)
    announced,  (* history: the channel documents there have been         *)
    answers     (* history: the release argument and the Transpiler of    *)
                (* every call that got one                                *)

serverVars == <<published, files, publishes, announced>>
threadVars == <<pc, release, call, channel, selection>>
vars == <<registry, remote, threadVars, serverVars, calls, answers>>

Selectors == {"verified", "latest"} \cup Releases

(* An Arc<Transpiler>: the release it is registered under, the manifest it *)
(* was built from and the call that built it.                              *)
Arc(s, n) == [release |-> s.release, manifest |-> s.manifest, call |-> n]

(* channel.sha256 and what it announces are the manifest itself: two       *)
(* manifests with one hash are not considered.                             *)
ChannelDocument == [release: Releases, sha256: Manifests, compatible: BOOLEAN]
Selection(r, m) == [release |-> r, manifest |-> m]

Init ==
    /\ registry = [r \in Releases |-> None] /\ remote = None
    /\ pc = [t \in Threads |-> "idle"]
    /\ release = [t \in Threads |-> "verified"]
    /\ call = [t \in Threads |-> 0]
    /\ channel = [t \in Threads |-> None]
    /\ selection = [t \in Threads |-> None]
    /\ files \in {f \in [Releases -> Manifests] : \A r \in Releases : Target[f[r]] = r}
    /\ published \in ChannelDocument
    /\ announced = {published} /\ calls = 0 /\ publishes = 0 /\ answers = {}

Step(t, from, to) == pc[t] = from /\ pc' = [pc EXCEPT ![t] = to]

Return(t, from) ==
    /\ Step(t, from, "idle")
    /\ release' = [release EXCEPT ![t] = "verified"]
    /\ call' = [call EXCEPT ![t] = 0]
    /\ channel' = [channel EXCEPT ![t] = None]
    /\ selection' = [selection EXCEPT ![t] = None]

(* The call raises a TranspilationError. *)
Raise(t, from) ==
    /\ Return(t, from)
    /\ UNCHANGED <<registry, remote, serverVars, calls, answers>>

Begin(t, r) ==
    /\ Step(t, "idle", "select")
    /\ calls < MaxCalls
    /\ calls' = calls + 1
    /\ release' = [release EXCEPT ![t] = r]
    /\ call' = [call EXCEPT ![t] = calls + 1]
    /\ UNCHANGED <<registry, remote, channel, selection, serverVars, answers>>

-------------------------------------------------------------------------------
(* release_manifest: embedded_manifest and download_latest_manifest         *)

Select(t, from, s) ==
    /\ Step(t, from, "lookup")
    /\ selection' = [selection EXCEPT ![t] = s]
    /\ UNCHANGED <<registry, release, call, channel, serverVars, calls, answers>>

Resolved(r) == IF r = "verified" THEN Verified ELSE r

SelectBundled(t) ==
    /\ release[t] # "latest" /\ Resolved(release[t]) \in Bundled
    /\ LET r == Resolved(release[t]) IN Select(t, "select", Selection(r, Bundle[r]))
    /\ UNCHANGED remote

UnsupportedRelease(t) ==
    /\ release[t] # "latest" /\ Resolved(release[t]) \notin Bundled
    /\ Raise(t, "select")

SelectRemembered(t) ==
    /\ release[t] = "latest" /\ remote # None
    /\ Select(t, "select", remote)
    /\ UNCHANGED remote

StartDownload(t) ==
    /\ release[t] = "latest" /\ remote = None
    /\ Step(t, "select", "fetch_channel")
    /\ UNCHANGED <<registry, remote, release, call, channel, selection, serverVars,
                   calls, answers>>

FetchChannel(t) ==
    /\ Step(t, "fetch_channel", "fetch_manifest")
    /\ channel' = [channel EXCEPT ![t] = published]
    /\ UNCHANGED <<registry, remote, release, call, selection, serverVars, calls, answers>>

(* validate_latest_documents *)
ValidUnhashed(doc, manifest) ==
    /\ doc.compatible
    /\ manifest \in Acceptable
    /\ Target[manifest] = doc.release
Valid(doc, manifest) ==
    /\ doc.compatible
    /\ doc.sha256 = manifest
    /\ manifest \in Acceptable
    /\ Target[manifest] = doc.release

(* The manifest at the URL of the channel document, as it is by now. *)
FetchManifest(t) ==
    /\ Step(t, "fetch_manifest", "remember")
    /\ LET manifest == files[channel[t].release] IN
         /\ Valid(channel[t], manifest)
         /\ selection' = [selection EXCEPT ![t] = Selection(channel[t].release, manifest)]
    /\ UNCHANGED <<registry, remote, release, call, channel, serverVars, calls, answers>>

FetchManifestInvalid(t) ==
    /\ pc[t] = "fetch_manifest"
    /\ ~Valid(channel[t], files[channel[t].release])
    /\ Raise(t, "fetch_manifest")

DownloadFails(t) == Raise(t, "fetch_channel") \/ Raise(t, "fetch_manifest")

(* get_or_insert_with: the first download that gets here is the one that   *)
(* all calls of the process use.                                           *)
RememberedLast(t) == selection[t]
Remembered(t) == IF remote = None THEN selection[t] ELSE remote

Remember(t) ==
    /\ pc[t] = "remember"
    /\ remote' = Remembered(t)
    /\ Select(t, "remember", Remembered(t))

-------------------------------------------------------------------------------
(* release_transpiler                                                       *)

Answer(t, from, arc) ==
    /\ Return(t, from)
    /\ answers' = answers \cup {[release |-> release[t], arc |-> arc]}
    /\ UNCHANGED <<remote, serverVars, calls>>

LookupHit(t) ==
    /\ pc[t] = "lookup"
    /\ registry[selection[t].release] # None
    /\ Answer(t, "lookup", registry[selection[t].release])
    /\ UNCHANGED registry

LookupMiss(t) ==
    /\ Step(t, "lookup", "register")
    /\ registry[selection[t].release] = None
    /\ UNCHANGED <<registry, remote, release, call, channel, selection, serverVars,
                   calls, answers>>

(* entry(release).or_insert(candidate)                                     *)
CanonicalLast(t) == Arc(selection[t], call[t])
Canonical(t) ==
    IF registry[selection[t].release] = None
    THEN Arc(selection[t], call[t]) ELSE registry[selection[t].release]

Register(t) ==
    /\ pc[t] = "register"
    /\ registry' = [registry EXCEPT ![selection[t].release] = Canonical(t)]
    /\ Answer(t, "register", Canonical(t))

-------------------------------------------------------------------------------
Publish ==
    /\ publishes < MaxPublishes
    /\ publishes' = publishes + 1
    /\ \/ /\ \E r \in Releases, m \in Manifests : files' = [files EXCEPT ![r] = m]
          /\ UNCHANGED <<published, announced>>
       \/ /\ published' \in ChannelDocument
          /\ announced' = announced \cup {published'}
          /\ UNCHANGED files
    /\ UNCHANGED <<registry, remote, threadVars, calls, answers>>

Resolve(t) ==
    \/ SelectBundled(t) \/ UnsupportedRelease(t) \/ SelectRemembered(t)
    \/ StartDownload(t) \/ FetchChannel(t) \/ FetchManifest(t)
    \/ FetchManifestInvalid(t) \/ DownloadFails(t) \/ Remember(t)
    \/ LookupHit(t) \/ LookupMiss(t) \/ Register(t)

Next ==
    \/ \E t \in Threads : Resolve(t) \/ \E r \in Selectors : Begin(t, r)
    \/ Publish

Spec == Init /\ [][Next]_vars

-------------------------------------------------------------------------------
(* Properties *)

TypeOK ==
    /\ registry \in [Releases -> [release: Releases, manifest: Manifests, call: Nat] \cup {None}]
    /\ remote \in [release: Releases, manifest: Manifests] \cup {None}
    /\ pc \in [Threads -> {"idle", "select", "fetch_channel", "fetch_manifest",
                           "remember", "lookup", "register"}]
    /\ release \in [Threads -> Selectors]
    /\ call \in [Threads -> Nat]
    /\ channel \in [Threads -> ChannelDocument \cup {None}]
    /\ selection \in [Threads -> [release: Releases, manifest: Manifests] \cup {None}]
    /\ published \in ChannelDocument
    /\ files \in [Releases -> Manifests]
    /\ announced \subseteq ChannelDocument
    /\ calls \in Nat

(* The release and manifest of a Transpiler are those of a wheel, or were   *)
(* announced.                                                              *)
Vetted(r, manifest) ==
    \/ r \in Bundled /\ manifest = Bundle[r]
    \/ [release |-> r, sha256 |-> manifest, compatible |-> TRUE] \in announced

(* An inductive invariant: what a thread holds was vetted, a thread that   *)
(* was asked for the latest release holds the one that is remembered, and  *)
(* what was answered is what is registered.                                *)
ThreadInv(t) ==
    /\ pc[t] = "fetch_manifest" => channel[t] \in announced
    /\ pc[t] \in {"remember", "lookup", "register"} =>
          selection[t] # None /\ Vetted(selection[t].release, selection[t].manifest)
    /\ pc[t] \in {"fetch_channel", "fetch_manifest", "remember"} => release[t] = "latest"
    /\ pc[t] \in {"lookup", "register"} /\ release[t] = "latest" =>
          selection[t] = remote
RegistryInv ==
    /\ published \in announced
    /\ remote # None => Vetted(remote.release, remote.manifest)
    /\ \A r \in Releases : registry[r] # None =>
          registry[r].release = r /\ Vetted(r, registry[r].manifest)
    /\ \A a \in answers :
          /\ a.arc.release \in Releases /\ registry[a.arc.release] = a.arc
          /\ a.arc # None
          /\ a.release = "latest" => remote # None /\ a.arc.release = remote.release
IInv == TypeOK /\ RegistryInv /\ \A t \in Threads : ThreadInv(t)

(* However first calls race, every call whose selection is a release gets  *)
(* the same Transpiler: the first one inserted is canonical, and the cache *)
(* in it is shared by all aliases of the release.                          *)
OneTranspilerPerRelease ==
    \A a, b \in answers : a.arc.release = b.arc.release => a.arc = b.arc

(* "latest" means one release for the whole process, the first resolved:   *)
(* a later publication, or a download that lost the race, changes nothing. *)
LatestIsStable ==
    \A a, b \in answers : a.release = "latest" /\ b.release = "latest" =>
        a.arc.release = b.arc.release

(* A Transpiler is built from the bundled manifest of its release or from  *)
(* the one downloaded manifest, whose hash one channel document announced  *)
(* for a compatible engine: though the document and the manifest are       *)
(* fetched one after the other from a server that changes both.            *)
EveryTranspilerIsVetted ==
    \A a \in answers :
        \/ a.arc.release \in Bundled /\ a.arc.manifest = Bundle[a.arc.release]
        \/ [release |-> a.arc.release, sha256 |-> a.arc.manifest, compatible |-> TRUE]
              \in announced

(* docs/releases.md:14-16 and 55-59: "verified" and exact releases use the *)
(* manifest compiled into the wheel, are deterministic, and do not change  *)
(* during a process.                                                       *)
BundledAnswersUseTheBundle ==
    \A a \in answers : a.release # "latest" => a.arc.manifest = Bundle[a.arc.release]
===============================================================================
