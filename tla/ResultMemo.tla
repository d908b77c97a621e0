------------------------------ MODULE ResultMemo ------------------------------
(***************************************************************************)
(* What Transpiler::transpile promises its callers, with the lock, the     *)
(* eviction order, the weights and the counters left out: a memo of        *)
(* artifacts that may forget anything at any time, and that answers each   *)
(* request at one instant between the call and its return.                 *)
(*                                                                         *)
(*   memo     the artifact retained for each source, or NoOutput           *)
(*   request  the source a thread has asked for and not yet been answered, *)
(*            or NoSource                                                  *)
(*   answer   the answer to the thread's last request, or NoOutput         *)
(***************************************************************************)

CONSTANTS
    Threads,     (* the callers                                           *)
    Sources,     (* the Python sources they ask for                       *)
    Unlowerable, (* the sources for which lower_source returns an error   *)
    Calls,       (* identities of the calls that compute artifacts        *)
    NoSource, NoOutput, Failed

VARIABLES memo, request, answer

vars == <<memo, request, answer>>

(* An artifact is identified by its source and the call that computed it:  *)
(* two artifacts of one source are equal in content and differ as Arcs.    *)
Artifact == [source: Sources, call: Calls]

Init ==
    /\ memo = [s \in Sources |-> NoOutput]
    /\ request = [t \in Threads |-> NoSource]
    /\ answer = [t \in Threads |-> NoOutput]

Ask(t, s) ==
    /\ request[t] = NoSource
    /\ request' = [request EXCEPT ![t] = s]
    /\ answer' = [answer EXCEPT ![t] = NoOutput]
    /\ UNCHANGED memo

Answer(t, a) ==
    /\ request[t] # NoSource
    /\ request' = [request EXCEPT ![t] = NoSource]
    /\ answer' = [answer EXCEPT ![t] = a]

(* The memo holds an artifact: that very artifact is the answer. *)
Recall(t) ==
    /\ Answer(t, memo[request[t]])
    /\ memo[request[t]] # NoOutput
    /\ UNCHANGED memo

(* It holds none: a new artifact of the source is the answer, and is       *)
(* retained or not.                                                        *)
Compute(t) ==
    /\ request[t] \in Sources \ Unlowerable
    /\ memo[request[t]] = NoOutput
    /\ \E o \in Artifact :
         /\ o.source = request[t]
         /\ Answer(t, o)
         /\ \/ memo' = [memo EXCEPT ![request[t]] = o]
            \/ UNCHANGED memo

(* A source that cannot be lowered is answered by the error, and leaves    *)
(* nothing in the memo.                                                    *)
Fail(t) ==
    /\ request[t] \in Unlowerable
    /\ Answer(t, Failed)
    /\ UNCHANGED memo

Forget ==
    /\ \E S \in SUBSET Sources :
         memo' = [s \in Sources |-> IF s \in S THEN NoOutput ELSE memo[s]]
    /\ UNCHANGED <<request, answer>>

Next ==
    \/ \E t \in Threads : \/ \E s \in Sources : Ask(t, s)
                          \/ Recall(t) \/ Compute(t) \/ Fail(t)
    \/ Forget

Spec == Init /\ [][Next]_vars
===============================================================================
