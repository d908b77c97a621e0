---------------------------- MODULE WorkerProcess -----------------------------
(***************************************************************************)
(* crates/monty-discover/src/worker.rs: a WorkerProcess and its child.     *)
(* Three actors share two pipes and a channel: the client, which sends a   *)
(* request line and waits for a response line until a timeout; the child,  *)
(* which answers requests in order (run_monty_worker_stdio, or main of     *)
(* _discovery_worker.py) and may hang, crash or write a line too long; and *)
(* the reader thread, which moves lines from the child's stdout to the     *)
(* channel.  Nothing but order pairs an answer with its request.           *)
(*                                                                         *)
(* A timeout may fire whenever the channel is empty: durations are not     *)
(* modelled.  Pipes never fill, and the child writes one line per request  *)
(* line and only well-formed candidates, as both children do.              *)
(***************************************************************************)
EXTENDS Naturals, Sequences

CONSTANTS
    MaxRequests,  (* bound of the model: requests made of one worker      *)
    MaxCandidates (* bound of the model: candidates of one minimization   *)

ASSUME WorkerAssumption == MaxRequests \in Nat \ {0} /\ MaxCandidates \in Nat

VARIABLES
    client,    (* "idle", "receiving", "judging", "joining" or "dropped"  *)
    req,       (* the number of the client's last request                 *)
    result,    (* the outcome each request returned                       *)
    pending,   (* the outcome to return once the reader has been joined   *)
    stopped,   (* WorkerProcess.stopped                                   *)
    stdin,     (* the lines sent and not yet read by the child            *)
    child,     (* "reading", "working", "offering", "deciding" or "dead"  *)
    serving,   (* the request the child is working on                     *)
    checks,    (* candidates the child has tried in this minimization     *)
    stdout,    (* the lines written and not yet read by the reader        *)
    reader,    (* "running" or "done"                                     *)
    channel    (* the items sent by the reader and not yet received       *)

clientVars == <<client, req, result, pending, stopped>>
childVars  == <<child, serving, checks>>
vars == <<clientVars, childVars, stdin, stdout, reader, channel>>

Requests == 1..MaxRequests
(* What a request returns: the answer to request n, or a WorkerError.      *)
Answer(n)  == [kind |-> "answer", req |-> n]
Error(e)   == [kind |-> e, req |-> 0]
NoOutcome  == [kind |-> "none", req |-> 0]
ErrorKinds == {"remote", "json", "io", "closed", "timeout", "judge_failed"}
Outcomes   == [kind: {"answer", "none"} \cup ErrorKinds, req: 0..MaxRequests]

(* The lines of the two pipes. *)
Request(op, n) == [op |-> op, req |-> n, candidate |-> 0]
Verdict(n, c)  == [op |-> "verdict", req |-> n, candidate |-> c]
ToChild   == [op: {"call", "minimize", "verdict"}, req: Requests, candidate: 0..MaxCandidates]
LineKinds == {"ok", "remote", "malformed", "oversized", "truncated", "event"}
Line      == [kind: LineKinds, req: Requests, candidate: 0..MaxCandidates]

Init ==
    /\ client = "idle" /\ req = 0 /\ pending = NoOutcome /\ stopped = FALSE
    /\ result = [n \in Requests |-> NoOutcome]
    /\ child = "reading" /\ serving = 0 /\ checks = 0
    /\ stdin = <<>> /\ stdout = <<>> /\ channel = <<>> /\ reader = "running"

-------------------------------------------------------------------------------
(* The client *)

Finish(n, outcome) ==
    /\ client' = "idle"
    /\ result' = [result EXCEPT ![n] = outcome]

(* A write to a child that is dead, or that dies meanwhile, fails: in      *)
(* to_writer, whose every error is a Json error, or later, with an Io one. *)
BrokenPipe == {"json", "io"}

(* request and request_interactive: a stopped worker refuses, and a write  *)
(* that fails leaves the worker as it is.                                  *)
Send(op) ==
    /\ client = "idle" /\ req < MaxRequests
    /\ req' = req + 1
    /\ \/ stopped /\ Finish(req + 1, Error("closed")) /\ UNCHANGED stdin
       \/ /\ ~stopped /\ child = "dead"
          /\ \E e \in BrokenPipe : Finish(req + 1, Error(e))
          /\ UNCHANGED stdin
       \/ /\ ~stopped /\ child # "dead"
          /\ stdin' = Append(stdin, Request(op, req + 1))
          /\ client' = "receiving" /\ UNCHANGED result
    /\ UNCHANGED <<pending, stopped, childVars, stdout, reader, channel>>

(* What receive and envelope make of an item of the channel. *)
Opened(line) ==
    CASE line.kind = "ok"        -> Answer(line.req)
      [] line.kind = "remote"    -> Error("remote")
      [] line.kind = "malformed" -> Error("json")
      [] line.kind \in {"oversized", "truncated"} -> Error("io")

Receive ==
    /\ client = "receiving" /\ channel # <<>>
    /\ Head(channel).kind # "event"
    /\ Finish(req, Opened(Head(channel)))
    /\ channel' = Tail(channel)
    /\ UNCHANGED <<req, pending, stopped, childVars, stdin, stdout, reader>>

ReceiveCandidate ==
    /\ client = "receiving" /\ channel # <<>>
    /\ Head(channel).kind = "event"
    /\ client' = "judging"
    /\ UNCHANGED <<req, result, pending, stopped, childVars, stdin, stdout, reader, channel>>

ReceiveDisconnected ==
    /\ client = "receiving" /\ channel = <<>> /\ reader = "done"
    /\ Finish(req, Error("closed"))
    /\ UNCHANGED <<req, pending, stopped, childVars, stdin, stdout, reader, channel>>

(* terminate closes stdin, kills and reaps the child, and joins the reader *)
(* before the outcome is returned.  Once stopped it does nothing.          *)
KillForgotten == UNCHANGED <<child, stdin>>
Kill == child' = "dead" /\ stdin' = <<>>

Terminate(outcome) ==
    /\ stopped' = TRUE
    /\ Kill
    /\ client' = "joining"
    /\ pending' = outcome
    /\ UNCHANGED <<req, result, serving, checks, stdout, reader, channel>>

(* The outcome is returned and the worker kept: a faulty variant.          *)
Keep(outcome) ==
    /\ Finish(req, outcome)
    /\ UNCHANGED <<req, pending, stopped, childVars, stdin, stdout, reader>>

TimeoutKeepsWorker ==
    /\ client = "receiving" /\ channel = <<>> /\ reader # "done"
    /\ Keep(Error("timeout")) /\ UNCHANGED channel

ReceiveTimeout ==
    /\ client = "receiving" /\ channel = <<>> /\ reader # "done"
    /\ Terminate(Error("timeout"))

JoinNothing == client = "joining"
Joined == client = "joining" /\ reader = "done"

JoinReader ==
    /\ Joined
    /\ IF pending = NoOutcome
       THEN client' = "dropped" /\ UNCHANGED result
       ELSE Finish(req, pending)
    /\ pending' = NoOutcome
    /\ UNCHANGED <<req, stopped, childVars, stdin, stdout, reader, channel>>

(* on_candidate judges the candidate with another worker.  Its verdict     *)
(* goes back with the candidate's id; its error terminates this worker.    *)
JudgeFailsKeepsWorker ==
    /\ client = "judging" /\ channel' = Tail(channel) /\ Keep(Error("judge_failed"))
JudgeFails == client = "judging" /\ Terminate(Error("judge_failed"))

SendVerdict ==
    /\ client = "judging"
    /\ IF child = "dead"
       THEN (\E e \in BrokenPipe : Finish(req, Error(e))) /\ UNCHANGED stdin
       ELSE /\ stdin' = Append(stdin, Verdict(req, Head(channel).candidate))
            /\ client' = "receiving" /\ UNCHANGED result
    /\ channel' = Tail(channel)
    /\ UNCHANGED <<req, pending, stopped, childVars, stdout, reader>>

Drop ==
    /\ client = "idle"
    /\ IF stopped
       THEN /\ client' = "dropped"
            /\ UNCHANGED <<req, result, pending, stopped, childVars, stdin, stdout,
                           reader, channel>>
       ELSE Terminate(NoOutcome)

-------------------------------------------------------------------------------
(* The child *)

(* A line written once the reader has gone breaks the pipe, and the child. *)
Write(kind, next) ==
    /\ IF reader = "running"
       THEN /\ stdout' = Append(stdout, [kind |-> kind, req |-> serving,
                                         candidate |-> checks'])
            /\ child' = next
       ELSE UNCHANGED stdout /\ child' = "dead"
    /\ UNCHANGED <<clientVars, serving, reader, channel>>

ChildRead ==
    /\ child = "reading" /\ stdin # <<>>
    /\ child' = IF Head(stdin).op = "minimize" THEN "offering" ELSE "working"
    /\ serving' = Head(stdin).req
    /\ checks' = 0
    /\ stdin' = Tail(stdin)
    /\ UNCHANGED <<clientVars, stdout, reader, channel>>

ChildAnswer ==
    /\ child \in {"working", "offering"}
    /\ \E kind \in {"ok", "remote", "malformed", "oversized"} :
         UNCHANGED checks /\ Write(kind, "reading")
    /\ UNCHANGED stdin

(* The checker of _minimize: a candidate that prepare_inert_source refuses *)
(* is rejected on the spot; the others are offered, each for a verdict.    *)
BudgetLeftOffByOne == checks <= MaxCandidates
BudgetLeft == checks < MaxCandidates

RejectCandidate ==
    /\ child = "offering" /\ BudgetLeft
    /\ checks' = checks + 1
    /\ UNCHANGED <<clientVars, child, serving, stdin, stdout, reader, channel>>

OfferCandidate ==
    /\ child = "offering" /\ BudgetLeft
    /\ checks' = checks + 1
    /\ Write("event", "deciding")
    /\ UNCHANGED stdin

(* Whatever line comes next is taken for the verdict: one that is not, or  *)
(* is for another candidate, ends the minimization with an error.          *)
ReadVerdict ==
    /\ child = "deciding" /\ stdin # <<>>
    /\ child' = IF Head(stdin).op = "verdict" /\ Head(stdin).candidate = checks
                THEN "offering" ELSE "working"
    /\ stdin' = Tail(stdin)
    /\ UNCHANGED <<clientVars, serving, checks, stdout, reader, channel>>

(* A crash, perhaps in the middle of a line. *)
ChildExits ==
    /\ child # "dead"
    /\ child' = "dead"
    /\ stdin' = <<>>
    /\ stdout' \in {stdout} \cup
         IF child \in {"working", "offering"} /\ reader = "running"
         THEN {Append(stdout, [kind |-> "truncated", req |-> serving, candidate |-> checks])}
         ELSE {}
    /\ UNCHANGED <<clientVars, serving, checks, reader, channel>>

-------------------------------------------------------------------------------
(* The reader thread *)

(* read_bounded_line: a line too long, or ended by the end of the stream,  *)
(* is an error that ends the thread and closes its end of the pipe.        *)
EndsReaderNever(line) == FALSE
EndsReader(line) == line.kind \in {"oversized", "truncated"}

ReadLine ==
    /\ reader = "running" /\ stdout # <<>>
    /\ channel' = Append(channel, Head(stdout))
    /\ IF EndsReader(Head(stdout))
       THEN reader' = "done" /\ stdout' = <<>>
       ELSE stdout' = Tail(stdout) /\ UNCHANGED reader
    /\ UNCHANGED <<clientVars, childVars, stdin>>

ReadEof ==
    /\ reader = "running" /\ stdout = <<>> /\ child = "dead"
    /\ reader' = "done"
    /\ UNCHANGED <<clientVars, childVars, stdin, stdout, channel>>

-------------------------------------------------------------------------------
ClientStep ==
    \/ Receive \/ ReceiveCandidate \/ ReceiveDisconnected \/ ReceiveTimeout
    \/ JoinReader \/ JudgeFails \/ SendVerdict
ChildStep ==
    \/ ChildRead \/ ChildAnswer \/ RejectCandidate \/ OfferCandidate
    \/ ReadVerdict \/ ChildExits
ReaderStep == ReadLine \/ ReadEof

Next ==
    \/ ClientStep \/ ChildStep \/ ReaderStep \/ Drop
    \/ \E op \in {"call", "minimize"} : Send(op)

Spec == Init /\ [][Next]_vars

(* The client and the reader are scheduled, and a timeout expires; nothing *)
(* is assumed of the child.                                                *)
FairSpec == Spec /\ WF_vars(ClientStep) /\ WF_vars(ReaderStep)

-------------------------------------------------------------------------------
(* Properties *)

TypeOK ==
    /\ client \in {"idle", "receiving", "judging", "joining", "dropped"}
    /\ req \in 0..MaxRequests
    /\ result \in [Requests -> Outcomes]
    /\ pending \in {NoOutcome, Error("timeout"), Error("judge_failed")}
    /\ stopped \in BOOLEAN
    /\ stdin \in Seq(ToChild)
    /\ child \in {"reading", "working", "offering", "deciding", "dead"}
    /\ serving \in 0..MaxRequests
    /\ checks \in 0..MaxCandidates
    /\ stdout \in Seq(Line) /\ channel \in Seq(Line)
    /\ reader \in {"running", "done"}

(* An answer is returned only to the request it answers, though lines      *)
(* carry no identifier and requests go on after errors and timeouts.       *)
AnswersMatchRequests ==
    \A m, n \in Requests : result[m] = Answer(n) => m = n

(* Between the calls of a worker that can still answer nothing is left in  *)
(* flight: no line of a past request is on its way, which the next request *)
(* would take for its own answer, and no child waits for a verdict.        *)
QuietBetweenCalls ==
    client = "idle" /\ reader = "running" =>
        /\ stdin = <<>> /\ stdout = <<>> /\ channel = <<>>
        /\ child \in {"reading", "dead"}

(* A child that waits for a verdict reads the verdict of the candidate it  *)
(* offered, and a child that waits for a request never reads a verdict.    *)
VerdictsMatchCandidates ==
    stdin # <<>> =>
        /\ child = "deciding" =>
             Head(stdin) = Verdict(serving, checks)
        /\ child = "reading" => Head(stdin).op # "verdict"

(* A worker is a session of requests: each returns one outcome, an answer  *)
(* only to the request it answers, and after a timeout, a read or write    *)
(* error, a closed stream or a judge that failed no later one is answered. *)
(* A worker being dropped with no request under way is not calling.        *)
callingBar ==
    client \in {"receiving", "judging"} \/ (client = "joining" /\ pending # NoOutcome)

Session == INSTANCE RpcSession WITH calling <- callingBar
IsAnRpcSession == Session!Spec

(* A timeout returns, and a dropped worker is gone, only when the child is *)
(* dead and the reader thread has been joined: neither outlives them.      *)
Killed == \E n \in Requests : result[n].kind \in {"timeout", "judge_failed"}
NothingOutlivesTheWorker ==
    client = "dropped" \/ Killed => child = "dead" /\ reader = "done"

(* A request and a drop return whatever the child does, also when it hangs *)
(* or crashes, and killing it lets the join of the reader end.             *)
EveryRequestReturns ==
    client \in {"receiving", "judging", "joining"} ~> client \in {"idle", "dropped"}

(* Where the one line of a request may be: an inductive invariant of a     *)
(* worker that has not been stopped.  While the reader runs either the     *)
(* child has the request, or its verdict, or one answer or candidate is on *)
(* its way to the client; once the reader is done at most one item is left.*)
ChildHasIt ==
    /\ stdout = <<>> /\ channel = <<>>
    /\ \/ stdin = <<>> /\ child = "dead"
       \/ stdin = <<>> /\ child \in {"working", "offering"} /\ serving = req
       \/ /\ Len(stdin) = 1 /\ stdin[1].req = req
          /\ \/ child = "reading" /\ stdin[1].op # "verdict"
             \/ /\ child = "deciding" /\ serving = req
                /\ stdin[1] = Verdict(req, checks)

OnItsWay(line) ==
    /\ line.req = req /\ stdin = <<>>
    /\ IF line.kind = "event"
       THEN /\ child \in {"deciding", "dead"}
            /\ serving = req /\ line.candidate = checks
       ELSE child \in {"reading", "dead"}

LineComing == Len(stdout) = 1 /\ channel = <<>> /\ OnItsWay(stdout[1])
LineHere ==
    /\ stdout = <<>> /\ Len(channel) = 1
    /\ OnItsWay(channel[1]) /\ ~EndsReader(channel[1])

WhileRunning ==
    /\ client = "idle" =>
         /\ stdin = <<>> /\ stdout = <<>> /\ channel = <<>>
         /\ child \in {"reading", "dead"}
    /\ client = "receiving" => ChildHasIt \/ LineComing \/ LineHere
    /\ client = "judging" => LineHere /\ channel[1].kind = "event"

OnceDone ==
    /\ stdout = <<>> /\ child # "deciding"
    /\ \A i \in 1..Len(stdin) : stdin[i].op # "verdict"
    /\ client = "idle" => channel = <<>>
    /\ client = "receiving" /\ channel # <<>> =>
         /\ Len(channel) = 1 /\ channel[1].req = req
         /\ channel[1].kind = "event" => child = "dead"
    /\ client = "judging" =>
         /\ Len(channel) = 1 /\ channel[1].kind = "event" /\ channel[1].req = req
         /\ child = "dead"

(* Once the session is over nothing is left that could be an answer.       *)
Silent == (reader = "done" \/ child = "dead") /\ stdout = <<>> /\ channel = <<>>

LiveInv ==
    /\ client \in {"idle", "receiving", "judging"}
    /\ reader = "running" => WhileRunning
    /\ reader = "done" => OnceDone
    /\ Session!Over => Silent
    /\ ~Killed

StoppedInv ==
    /\ child = "dead" /\ client \in {"idle", "joining", "dropped"}
    /\ client # "joining" \/ Killed => reader = "done"

IInv ==
    /\ TypeOK /\ AnswersMatchRequests
    /\ callingBar => req \in Requests
    /\ stopped => StoppedInv
    /\ ~stopped => LiveInv
===============================================================================
