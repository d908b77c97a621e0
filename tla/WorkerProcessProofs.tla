-------------------------- MODULE WorkerProcessProofs -------------------------
(***************************************************************************)
(* Theorems about WorkerProcess, for any number of requests and candidates.*)
(***************************************************************************)
EXTENDS WorkerProcess, SequenceTheorems, TLAPS

(* Taking the first of a sequence's items, and adding one to its end.      *)
LEMMA TakeFirst ==
  ASSUME NEW S, NEW s \in Seq(S), s # <<>>
  PROVE  /\ Head(s) = s[1] /\ s[1] \in S /\ Tail(s) \in Seq(S)
         /\ Len(s) \in Nat \ {0} /\ Len(Tail(s)) = Len(s) - 1
         /\ \A i \in 1..Len(Tail(s)) : Tail(s)[i] = s[i + 1]
         /\ Len(s) = 1 => Tail(s) = <<>>
<1>1. Len(s) \in Nat \ {0}
  BY EmptySeq
<1>2. Head(s) = s[1]
  OBVIOUS
<1>3. Head(s) \in S /\ Tail(s) \in Seq(S) /\ Len(Tail(s)) = Len(s) - 1
      /\ \A i \in 1..Len(Tail(s)) : Tail(s)[i] = s[i + 1]
  BY HeadTailProperties
<1>4. ASSUME Len(s) = 1 PROVE Tail(s) = <<>>
  <2>1. Len(Tail(s)) = 0
    BY <1>3, <1>4
  <2>2. \A q \in Seq(S) : Len(q) = 0 => q = <<>>
    BY EmptySeq
  <2>3. QED
    BY <1>3, <2>1, <2>2
<1>5. QED
  BY <1>1, <1>2, <1>3, <1>4

LEMMA AddLast ==
  ASSUME NEW S, NEW s \in Seq(S), NEW x \in S
  PROVE  /\ Append(s, x) \in Seq(S) /\ Append(s, x) # <<>>
         /\ s = <<>> => Len(Append(s, x)) = 1 /\ Append(s, x)[1] = x
         /\ \A i \in 1..Len(Append(s, x)) :
                Append(s, x)[i] = x \/ (i \in 1..Len(s) /\ Append(s, x)[i] = s[i])
<1>1. /\ Append(s, x) \in Seq(S) /\ Len(Append(s, x)) = Len(s) + 1
      /\ \A i \in 1..Len(s) : Append(s, x)[i] = s[i]
      /\ Append(s, x)[Len(s) + 1] = x /\ Append(s, x) # <<>>
  BY AppendProperties
<1>2. Len(s) \in Nat /\ (s = <<>> => Len(s) = 0)
  BY LenProperties, EmptySeq
<1>3. QED
  BY <1>1, <1>2

(* The outcomes of a request, and what returning one changes.              *)
LEMMA OutcomeTypes ==
  /\ NoOutcome \in Outcomes
  /\ \A n \in Requests : Answer(n) \in Outcomes
  /\ \A e \in ErrorKinds : Error(e) \in Outcomes /\ Error(e) # NoOutcome
  /\ \A e \in ErrorKinds : Error(e).kind = e /\ Error(e).kind # "answer"
<1>1. \A n \in Requests : n \in 0..MaxRequests
  BY WorkerAssumption DEF Requests
<1>2. QED
  BY <1>1, WorkerAssumption DEF NoOutcome, Answer, Error, Outcomes, ErrorKinds

LEMMA Finished ==
  ASSUME TypeOK, AnswersMatchRequests, NEW n \in Requests, NEW o \in Outcomes,
         Finish(n, o), o.kind = "answer" => o.req = n
  PROVE  /\ client' = "idle"
         /\ result' \in [Requests -> Outcomes] /\ AnswersMatchRequests'
         /\ Session!Over' => Session!Over \/ o.kind \in Session!Fatal
         /\ Killed' => Killed \/ o.kind \in {"timeout", "judge_failed"}
<1>1. /\ client' = "idle" /\ result' = [result EXCEPT ![n] = o]
      /\ result \in [Requests -> Outcomes]
  BY DEF Finish, TypeOK
<1>2. AnswersMatchRequests'
  BY <1>1 DEF AnswersMatchRequests, Answer
<1>3. Session!Over' => Session!Over \/ o.kind \in Session!Fatal
  BY <1>1 DEF Session!Over, Session!Requests, Requests
<1>4. Killed' => Killed \/ o.kind \in {"timeout", "judge_failed"}
  BY <1>1 DEF Killed
<1>5. QED
  BY <1>1, <1>2, <1>3, <1>4

LEMMA Initially == Init => IInv
<1> SUFFICES ASSUME Init PROVE IInv
  OBVIOUS
<1>1. result \in [Requests -> Outcomes]
  BY OutcomeTypes DEF Init
<1>2. \A n \in Requests : result[n].kind = "none"
  BY DEF Init, NoOutcome
<1>3. TypeOK
  <2>1. <<>> \in Seq(ToChild) /\ <<>> \in Seq(Line)
    BY EmptySeq
  <2>2. 0 \in 0..MaxRequests /\ 0 \in 0..MaxCandidates
    BY WorkerAssumption
  <2>3. QED
    BY <1>1, <2>1, <2>2 DEF Init, TypeOK
<1>4. AnswersMatchRequests
  BY <1>2 DEF AnswersMatchRequests, Answer
<1>5. ~Session!Over /\ ~Killed
  BY <1>2 DEF Session!Over, Session!Requests, Session!Fatal, Requests, Killed
<1>6. QED
  BY <1>3, <1>4, <1>5 DEF Init, IInv, LiveInv, WhileRunning, callingBar

(* Who acts when: the actions that are possible only while the worker is   *)
(* live, and the request they serve.                                       *)
LEMMA Receiving ==
  ASSUME IInv, client \in {"receiving", "judging"}
  PROVE  /\ ~stopped /\ LiveInv
         /\ channel # <<>> =>
              /\ Len(channel) = 1 /\ channel[1].req = req /\ channel[1] \in Line
              /\ Head(channel) = channel[1] /\ Tail(channel) = <<>>
              /\ stdout = <<>>
              /\ ~Session!Over
<1>1. ~stopped /\ LiveInv
  BY DEF IInv, StoppedInv, LiveInv
<1>2. channel \in Seq(Line) /\ reader \in {"running", "done"}
  BY DEF IInv, TypeOK
<1>3. ASSUME channel # <<>>
      PROVE  Len(channel) = 1 /\ channel[1].req = req /\ stdout = <<>>
  <2>1. CASE reader = "running"
    BY <1>1, <1>3, <2>1
    DEF LiveInv, WhileRunning, ChildHasIt, LineComing, LineHere, OnItsWay
  <2>2. CASE reader = "done"
    BY <1>1, <1>3, <2>2 DEF LiveInv, OnceDone
  <2>3. QED BY <1>2, <2>1, <2>2
<1>4. ASSUME channel # <<>>
      PROVE  Head(channel) = channel[1] /\ channel[1] \in Line /\ Tail(channel) = <<>>
  BY <1>2, <1>3, <1>4, TakeFirst
<1>5. ASSUME channel # <<>> PROVE ~Session!Over
  BY <1>1, <1>5 DEF LiveInv, Silent
<1>6. QED
  BY <1>1, <1>3, <1>4, <1>5

(* A step that returns nothing leaves what the results say as it is.       *)
LEMMA SameResult ==
  ASSUME UNCHANGED result
  PROVE  /\ AnswersMatchRequests' = AnswersMatchRequests
         /\ Session!Over' = Session!Over /\ Killed' = Killed
BY DEF AnswersMatchRequests, Session!Over, Killed

-------------------------------------------------------------------------------
(* One lemma per action of the client                                       *)

LEMMA SendStep ==
  ASSUME IInv, NEW op \in {"call", "minimize"}, Send(op)
  PROVE  IInv'
<1>1. /\ client = "idle" /\ req' = req + 1 /\ req' \in Requests /\ TypeOK
      /\ req' \in 0..MaxRequests
      /\ UNCHANGED <<pending, stopped, child, serving, checks, stdout, reader, channel>>
  BY WorkerAssumption DEF Send, IInv, TypeOK, Requests, childVars
<1>2. ASSUME NEW e \in {"closed", "json", "io"}, Finish(req + 1, Error(e)),
             UNCHANGED stdin,
             ~stopped => child = "dead" /\ e \in BrokenPipe
      PROVE  IInv'
  <2>1. /\ client' = "idle" /\ result' \in [Requests -> Outcomes]
        /\ AnswersMatchRequests'
        /\ Session!Over' => Session!Over \/ Error(e).kind \in Session!Fatal
        /\ Killed' => Killed \/ Error(e).kind \in {"timeout", "judge_failed"}
    BY <1>1, <1>2, OutcomeTypes, Finished DEF IInv, ErrorKinds
  <2>2. TypeOK'
    BY <1>1, <1>2, <2>1 DEF TypeOK
  <2>3. Killed' => Killed
    BY <2>1 DEF Error
  <2>4. CASE stopped
    BY <1>1, <1>2, <2>1, <2>2, <2>3, <2>4 DEF IInv, StoppedInv, callingBar
  <2>5. CASE ~stopped
    <3>1. LiveInv /\ stdout = <<>> /\ channel = <<>> /\ child = "dead"
      BY <1>1, <1>2, <2>5 DEF IInv, TypeOK, LiveInv, WhileRunning, OnceDone
    <3>2. LiveInv'
      BY <1>1, <1>2, <2>1, <2>3, <3>1 DEF LiveInv, WhileRunning, OnceDone, Silent
    <3>3. QED
      BY <1>1, <2>1, <2>2, <2>5, <3>2 DEF IInv, callingBar
  <2>6. QED
    BY <1>1, <2>4, <2>5 DEF TypeOK
<1>3. ASSUME ~stopped, child # "dead",
             stdin' = Append(stdin, Request(op, req + 1)),
             client' = "receiving", UNCHANGED result
      PROVE  IInv'
  <2>1. LiveInv
    BY <1>3 DEF IInv
  <2>2. Request(op, req + 1) \in ToChild /\ stdin \in Seq(ToChild)
    BY <1>1, WorkerAssumption DEF Request, ToChild, TypeOK
  <2>3. /\ stdin' \in Seq(ToChild)
        /\ stdin = <<>> => Len(stdin') = 1 /\ stdin'[1] = Request(op, req + 1)
        /\ \A i \in 1..Len(stdin') :
              stdin'[i] = Request(op, req + 1) \/ (i \in 1..Len(stdin) /\ stdin'[i] = stdin[i])
    BY <1>3, <2>2, AddLast
  <2>4. TypeOK'
    BY <1>1, <1>3, <2>3 DEF TypeOK
  <2>5. Request(op, req + 1).op # "verdict" /\ Request(op, req + 1).req = req'
    BY <1>1 DEF Request
  <2>6. reader = "running" => WhileRunning'
    BY <1>1, <1>3, <2>1, <2>3, <2>5 DEF LiveInv, WhileRunning, ChildHasIt
  <2>7. reader = "done" => OnceDone'
    BY <1>1, <1>3, <2>1, <2>3, <2>5 DEF LiveInv, OnceDone
  <2>8. LiveInv'
    BY <1>1, <1>3, <2>1, <2>6, <2>7, SameResult DEF LiveInv, Silent
  <2>9. QED
    BY <1>1, <1>3, <2>4, <2>8, SameResult DEF IInv
<1>4. \/ stopped /\ Finish(req + 1, Error("closed")) /\ UNCHANGED stdin
      \/ child = "dead" /\ UNCHANGED stdin /\ \E e \in BrokenPipe : Finish(req + 1, Error(e))
      \/ /\ ~stopped /\ child # "dead"
         /\ stdin' = Append(stdin, Request(op, req + 1))
         /\ client' = "receiving" /\ UNCHANGED result
  BY DEF Send
<1>5. CASE child = "dead" /\ UNCHANGED stdin /\ \E e \in BrokenPipe : Finish(req + 1, Error(e))
  <2>1. PICK e \in BrokenPipe : Finish(req + 1, Error(e))
    BY <1>5
  <2>2. e \in {"closed", "json", "io"}
    BY DEF BrokenPipe
  <2>3. QED
    BY <1>2, <1>5, <2>1, <2>2
<1>6. CASE stopped /\ Finish(req + 1, Error("closed")) /\ UNCHANGED stdin
  <2>1. PICK e \in {"closed", "json", "io"} : Finish(req + 1, Error(e))
    BY <1>6
  <2>2. QED
    BY <1>2, <1>6, <2>1
<1>7. QED
  BY <1>3, <1>4, <1>5, <1>6

LEMMA ReceiveStep ==
  ASSUME IInv, Receive
  PROVE  IInv'
<1>1. /\ client = "receiving" /\ channel # <<>> /\ Head(channel).kind # "event"
      /\ Finish(req, Opened(Head(channel))) /\ channel' = Tail(channel)
      /\ UNCHANGED <<req, pending, stopped, child, serving, checks, stdin, stdout, reader>>
  BY DEF Receive, childVars
<1>2. /\ ~stopped /\ LiveInv /\ channel[1].req = req /\ channel[1] \in Line
      /\ Head(channel) = channel[1] /\ Tail(channel) = <<>> /\ stdout = <<>>
      /\ ~Session!Over /\ Len(channel) = 1
  BY <1>1, Receiving
<1>3. /\ req \in Requests /\ channel[1].kind \in LineKinds \ {"event"}
  BY <1>1, <1>2 DEF Line
<1>4. /\ Opened(channel[1]) \in Outcomes
      /\ Opened(channel[1]).kind = "answer" => Opened(channel[1]).req = req
      /\ Opened(channel[1]).kind \notin {"timeout", "judge_failed"}
      /\ Opened(channel[1]).kind \in Session!Fatal => EndsReader(channel[1])
  BY <1>2, <1>3, OutcomeTypes
  DEF Opened, LineKinds, Answer, Error, ErrorKinds, Session!Fatal, EndsReader
<1>5. /\ client' = "idle" /\ result' \in [Requests -> Outcomes]
      /\ AnswersMatchRequests'
      /\ Session!Over' => EndsReader(channel[1]) /\ ~Killed'
  BY <1>1, <1>2, <1>3, <1>4, Finished DEF IInv, LiveInv
<1>6. ~Killed'
  BY <1>1, <1>2, <1>3, <1>4, Finished DEF IInv, LiveInv
<1>7. channel' = <<>> /\ TypeOK'
  BY <1>1, <1>2, <1>5, EmptySeq DEF IInv, TypeOK
<1>8. reader = "running" => WhileRunning' /\ ~EndsReader(channel[1])
  BY <1>1, <1>2, <1>3, <1>5, <1>7, EmptySeq
  DEF LiveInv, WhileRunning, ChildHasIt, LineComing, LineHere, OnItsWay
<1>9. reader = "done" => OnceDone'
  BY <1>1, <1>2, <1>5, <1>7 DEF LiveInv, OnceDone
<1>10. LiveInv'
  BY <1>1, <1>2, <1>5, <1>6, <1>7, <1>8, <1>9 DEF LiveInv, Silent, TypeOK
<1>11. QED
  BY <1>1, <1>2, <1>5, <1>7, <1>10 DEF IInv, callingBar

LEMMA ReceiveCandidateStep ==
  ASSUME IInv, ReceiveCandidate
  PROVE  IInv'
<1>1. /\ client = "receiving" /\ channel # <<>> /\ Head(channel).kind = "event"
      /\ client' = "judging"
      /\ UNCHANGED <<req, result, pending, stopped, child, serving, checks, stdin,
                     stdout, reader, channel>>
  BY DEF ReceiveCandidate, childVars
<1>2. /\ ~stopped /\ LiveInv /\ channel[1].req = req /\ Head(channel) = channel[1]
      /\ Len(channel) = 1 /\ stdout = <<>>
  BY <1>1, Receiving
<1>3. TypeOK' /\ req \in Requests
  BY <1>1 DEF IInv, TypeOK, callingBar
<1>4. reader = "running" => WhileRunning'
  <2>1. reader = "running" => LineHere
    BY <1>1, <1>2 DEF LiveInv, WhileRunning, ChildHasIt, LineComing
  <2>2. LineHere => LineHere'
    BY <1>1 DEF LineHere, OnItsWay, EndsReader
  <2>3. QED
    BY <1>1, <1>2, <2>1, <2>2 DEF WhileRunning
<1>5. reader = "done" => OnceDone'
  BY <1>1, <1>2 DEF LiveInv, OnceDone
<1>6. LiveInv'
  BY <1>1, <1>2, <1>4, <1>5, SameResult DEF LiveInv, Silent
<1>7. QED
  BY <1>1, <1>2, <1>3, <1>6, SameResult DEF IInv

LEMMA ReceiveDisconnectedStep ==
  ASSUME IInv, ReceiveDisconnected
  PROVE  IInv'
<1>1. /\ client = "receiving" /\ channel = <<>> /\ reader = "done"
      /\ Finish(req, Error("closed"))
      /\ UNCHANGED <<req, pending, stopped, child, serving, checks, stdin, stdout, reader,
                     channel>>
  BY DEF ReceiveDisconnected, childVars
<1>2. ~stopped /\ LiveInv /\ req \in Requests
  BY <1>1, Receiving DEF IInv, callingBar
<1>3. /\ client' = "idle" /\ result' \in [Requests -> Outcomes]
      /\ AnswersMatchRequests' /\ ~Killed'
  BY <1>1, <1>2, OutcomeTypes, Finished DEF IInv, LiveInv, ErrorKinds
<1>4. TypeOK'
  BY <1>1, <1>3 DEF IInv, TypeOK
<1>5. LiveInv'
  BY <1>1, <1>2, <1>3 DEF LiveInv, OnceDone, Silent
<1>6. QED
  BY <1>1, <1>2, <1>3, <1>4, <1>5 DEF IInv, callingBar

LEMMA TerminateStep ==
  ASSUME IInv, ~stopped, NEW outcome \in {NoOutcome, Error("timeout"), Error("judge_failed")},
         Terminate(outcome), outcome # NoOutcome => req \in Requests
  PROVE  IInv'
<1>1. /\ stopped' = TRUE /\ child' = "dead" /\ stdin' = <<>> /\ client' = "joining"
      /\ pending' = outcome
      /\ UNCHANGED <<req, result, serving, checks, stdout, reader, channel>>
  BY DEF Terminate, Kill
<1>2. ~Killed
  BY DEF IInv, LiveInv
<1>3. TypeOK'
  BY <1>1, EmptySeq DEF IInv, TypeOK
<1>4. StoppedInv'
  BY <1>1, <1>2, SameResult DEF StoppedInv
<1>5. QED
  BY <1>1, <1>3, <1>4, SameResult DEF IInv, callingBar

LEMMA JoinReaderStep ==
  ASSUME IInv, JoinReader
  PROVE  IInv'
<1>1. /\ client = "joining" /\ reader = "done"
      /\ pending' = NoOutcome
      /\ \/ pending = NoOutcome /\ client' = "dropped" /\ UNCHANGED result
         \/ pending # NoOutcome /\ Finish(req, pending)
      /\ UNCHANGED <<req, stopped, child, serving, checks, stdin, stdout, reader, channel>>
  BY DEF JoinReader, Joined, childVars
<1>2. stopped /\ StoppedInv
  BY <1>1 DEF IInv, TypeOK, LiveInv
<1>3. CASE pending = NoOutcome /\ client' = "dropped" /\ UNCHANGED result
  <2>1. TypeOK'
    BY <1>1, <1>3 DEF IInv, TypeOK
  <2>2. StoppedInv'
    BY <1>1, <1>2, <1>3 DEF StoppedInv
  <2>3. QED
    BY <1>1, <1>2, <1>3, <2>1, <2>2, SameResult DEF IInv, callingBar
<1>4. CASE pending # NoOutcome /\ Finish(req, pending)
  <2>1. req \in Requests /\ pending \in {Error("timeout"), Error("judge_failed")}
    BY <1>1, <1>4 DEF IInv, TypeOK, callingBar
  <2>2. pending \in Outcomes /\ pending.kind # "answer"
    BY <2>1, OutcomeTypes DEF ErrorKinds
  <2>3. client' = "idle" /\ result' \in [Requests -> Outcomes] /\ AnswersMatchRequests'
    BY <1>4, <2>1, <2>2, Finished DEF IInv
  <2>4. TypeOK'
    BY <1>1, <2>3 DEF IInv, TypeOK
  <2>5. StoppedInv'
    BY <1>1, <1>2, <2>3 DEF StoppedInv
  <2>6. QED
    BY <1>1, <1>2, <2>3, <2>4, <2>5 DEF IInv, callingBar
<1>5. QED
  BY <1>1, <1>3, <1>4

LEMMA ReceiveTimeoutStep ==
  ASSUME IInv, ReceiveTimeout
  PROVE  IInv'
<1>1. client = "receiving" /\ Terminate(Error("timeout"))
  BY DEF ReceiveTimeout
<1>2. ~stopped /\ req \in Requests
  BY <1>1, Receiving DEF IInv, callingBar
<1>3. QED
  BY <1>1, <1>2, TerminateStep

LEMMA JudgeFailsStep ==
  ASSUME IInv, JudgeFails
  PROVE  IInv'
<1>1. client = "judging" /\ Terminate(Error("judge_failed"))
  BY DEF JudgeFails
<1>2. ~stopped /\ req \in Requests
  BY <1>1, Receiving DEF IInv, callingBar
<1>3. QED
  BY <1>1, <1>2, TerminateStep

LEMMA DropStep ==
  ASSUME IInv, Drop
  PROVE  IInv'
<1>1. CASE stopped
  <2>1. /\ client = "idle" /\ client' = "dropped"
        /\ UNCHANGED <<req, result, pending, stopped, child, serving, checks, stdin,
                       stdout, reader, channel>>
    BY <1>1 DEF Drop, childVars
  <2>2. TypeOK' /\ StoppedInv'
    BY <1>1, <2>1 DEF IInv, TypeOK, StoppedInv, Killed
  <2>3. QED
    BY <1>1, <2>1, <2>2, SameResult DEF IInv, callingBar
<1>2. CASE ~stopped
  <2>1. Terminate(NoOutcome)
    BY <1>2 DEF Drop
  <2>2. QED
    BY <1>2, <2>1, TerminateStep
<1>3. QED
  BY <1>1, <1>2

LEMMA SendVerdictStep ==
  ASSUME IInv, SendVerdict
  PROVE  IInv'
<1>1. /\ client = "judging" /\ channel' = Tail(channel)
      /\ UNCHANGED <<req, pending, stopped, child, serving, checks, stdout, reader>>
  BY DEF SendVerdict, childVars
<1>2. ~stopped /\ LiveInv /\ req \in Requests
  BY <1>1, Receiving DEF IInv, callingBar
<1>3. channel # <<>> /\ channel[1].kind = "event" /\ (child # "dead" => LineHere)
  <2>1. Len(channel) = 1 /\ channel[1].kind = "event" /\ (child # "dead" => LineHere)
    BY <1>1, <1>2 DEF IInv, TypeOK, LiveInv, WhileRunning, LineHere, OnceDone
  <2>2. QED
    BY <2>1, EmptySeq
<1>4. /\ channel[1].req = req /\ channel[1] \in Line /\ Head(channel) = channel[1]
      /\ Len(channel) = 1 /\ channel' = <<>> /\ stdout = <<>> /\ ~Session!Over
  BY <1>1, <1>3, Receiving
<1>5. CASE child = "dead"
  <2>1. PICK e \in BrokenPipe : Finish(req, Error(e))
    BY <1>5 DEF SendVerdict
  <2>2. UNCHANGED stdin
    BY <1>5 DEF SendVerdict
  <2>3. e \in ErrorKinds /\ e \notin {"timeout", "judge_failed"}
    BY DEF BrokenPipe, ErrorKinds
  <2>4. /\ client' = "idle" /\ result' \in [Requests -> Outcomes]
        /\ AnswersMatchRequests' /\ ~Killed'
    BY <1>2, <2>1, <2>3, OutcomeTypes, Finished DEF IInv, LiveInv
  <2>5. TypeOK'
    BY <1>1, <1>4, <2>2, <2>4, EmptySeq DEF IInv, TypeOK
  <2>6. reader = "running" => stdin = <<>>
    BY <1>1, <1>2 DEF LiveInv, WhileRunning, LineHere, OnItsWay
  <2>7. LiveInv'
    BY <1>1, <1>2, <1>4, <1>5, <2>2, <2>4, <2>6
    DEF LiveInv, WhileRunning, OnceDone, Silent
  <2>8. QED
    BY <1>1, <1>2, <2>4, <2>5, <2>7 DEF IInv, callingBar
<1>6. CASE child # "dead"
  <2>1. /\ stdin' = Append(stdin, Verdict(req, channel[1].candidate))
        /\ client' = "receiving" /\ UNCHANGED result
    BY <1>4, <1>6 DEF SendVerdict
  <2>2. /\ stdin = <<>> /\ child = "deciding" /\ serving = req
        /\ channel[1].candidate = checks
    BY <1>3, <1>6 DEF LineHere, OnItsWay
  <2>3. Verdict(req, checks) \in ToChild /\ stdin \in Seq(ToChild)
    BY <1>2 DEF IInv, TypeOK, Verdict, ToChild
  <2>4. stdin' \in Seq(ToChild) /\ Len(stdin') = 1 /\ stdin'[1] = Verdict(req, checks)
    BY <2>1, <2>2, <2>3, AddLast
  <2>5. TypeOK'
    BY <1>1, <1>4, <2>1, <2>4, EmptySeq DEF IInv, TypeOK
  <2>6. ChildHasIt'
    BY <1>1, <1>4, <2>2, <2>4 DEF ChildHasIt, Verdict
  <2>7. reader # "done"
    BY <1>1, <1>2, <2>2 DEF LiveInv, OnceDone
  <2>8. LiveInv'
    BY <1>1, <1>2, <1>4, <2>1, <2>6, <2>7, SameResult DEF LiveInv, WhileRunning
  <2>9. QED
    BY <1>1, <1>2, <2>1, <2>5, <2>8, SameResult DEF IInv
<1>7. QED
  BY <1>5, <1>6

-------------------------------------------------------------------------------
(* One lemma per action of the child and of the reader thread               *)

(* A child that is not dead belongs to a worker that has not been stopped, *)
(* and one with a line to read or to write to a client that waits.         *)
LEMMA Alive ==
  ASSUME IInv, child # "dead"
  PROVE  /\ ~stopped /\ LiveInv
         /\ reader = "running" => ~Session!Over
         /\ reader = "running" /\ child # "reading" =>
              client = "judging" \/ client = "receiving"
         /\ reader = "running" /\ stdin # <<>> =>
              client = "receiving" /\ ChildHasIt /\ Len(stdin) = 1
         /\ reader = "running" /\ child \in {"working", "offering"} =>
              /\ client = "receiving" /\ serving = req
              /\ stdin = <<>> /\ stdout = <<>> /\ channel = <<>>
<1>1. ~stopped /\ LiveInv
  BY DEF IInv, StoppedInv
<1>2. reader = "running" => ~Session!Over
  BY <1>1 DEF LiveInv, Silent
<1>3. reader = "running" /\ child # "reading" => client = "judging" \/ client = "receiving"
  BY <1>1 DEF LiveInv, WhileRunning
<1>4. reader = "running" /\ stdin # <<>> =>
        client = "receiving" /\ ChildHasIt /\ Len(stdin) = 1
  BY <1>1 DEF LiveInv, WhileRunning, ChildHasIt, LineComing, LineHere, OnItsWay
<1>5. reader = "running" /\ child \in {"working", "offering"} =>
        /\ client = "receiving" /\ serving = req
        /\ stdin = <<>> /\ stdout = <<>> /\ channel = <<>>
  BY <1>1 DEF LiveInv, WhileRunning, ChildHasIt, LineComing, LineHere, OnItsWay
<1>6. QED
  BY <1>1, <1>2, <1>3, <1>4, <1>5

LEMMA ChildReadStep ==
  ASSUME IInv, ChildRead
  PROVE  IInv'
<1>1. /\ child = "reading" /\ stdin # <<>> /\ child' \in {"offering", "working"}
      /\ serving' = Head(stdin).req /\ checks' = 0 /\ stdin' = Tail(stdin)
      /\ UNCHANGED <<client, req, result, pending, stopped, stdout, reader, channel>>
  BY DEF ChildRead, clientVars
<1>2. ~stopped /\ LiveInv /\ (reader = "running" => ~Session!Over)
  BY <1>1, Alive
<1>3. /\ Head(stdin) = stdin[1] /\ stdin[1] \in ToChild /\ Tail(stdin) \in Seq(ToChild)
      /\ Len(stdin) \in Nat \ {0} /\ Len(Tail(stdin)) = Len(stdin) - 1
      /\ \A i \in 1..Len(Tail(stdin)) : Tail(stdin)[i] = stdin[i + 1]
      /\ Len(stdin) = 1 => Tail(stdin) = <<>>
  BY <1>1, TakeFirst DEF IInv, TypeOK
<1>4. TypeOK'
  <2>1. serving' \in 0..MaxRequests /\ checks' \in 0..MaxCandidates
    BY <1>1, <1>3, WorkerAssumption DEF ToChild, Requests
  <2>2. QED
    BY <1>1, <1>3, <2>1 DEF IInv, TypeOK
<1>5. reader = "running" => WhileRunning'
  <2>1. SUFFICES ASSUME reader = "running" PROVE WhileRunning'
    OBVIOUS
  <2>2. client = "receiving" /\ ChildHasIt /\ Len(stdin) = 1
    BY <1>1, <2>1, Alive
  <2>3. stdin[1].req = req /\ stdout = <<>> /\ channel = <<>>
    BY <1>1, <2>2 DEF ChildHasIt
  <2>4. ChildHasIt'
    BY <1>1, <1>3, <2>2, <2>3 DEF ChildHasIt
  <2>5. QED
    BY <1>1, <2>2, <2>4 DEF WhileRunning
<1>6. reader = "done" => OnceDone'
  BY <1>1, <1>2, <1>3 DEF LiveInv, OnceDone
<1>7. LiveInv'
  BY <1>1, <1>2, <1>5, <1>6, SameResult DEF IInv, TypeOK, LiveInv, Silent
<1>8. QED
  BY <1>1, <1>2, <1>4, <1>7, SameResult DEF IInv, callingBar

(* What the child writes is the one line of the request under way.         *)
LEMMA WriteStep ==
  ASSUME IInv, child \in {"working", "offering"}, NEW kind \in LineKinds, NEW next,
         Write(kind, next), UNCHANGED stdin, checks' \in 0..MaxCandidates,
         next = IF kind = "event" THEN "deciding" ELSE "reading"
  PROVE  IInv'
<1>1. /\ UNCHANGED <<client, req, result, pending, stopped, stdin, serving, reader, channel>>
      /\ ~stopped /\ LiveInv
      /\ reader \in {"running", "done"}
  BY Alive DEF Write, clientVars, IInv, TypeOK
<1>2. CASE reader = "running"
  <2>1. /\ stdout' = Append(stdout, [kind |-> kind, req |-> serving, candidate |-> checks'])
        /\ child' = next
    BY <1>2 DEF Write
  <2>2. /\ client = "receiving" /\ serving = req /\ req \in Requests /\ ~Session!Over
        /\ stdin = <<>> /\ stdout = <<>> /\ channel = <<>>
    BY <1>2, Alive DEF IInv, callingBar
  <2>3. [kind |-> kind, req |-> serving, candidate |-> checks'] \in Line
    BY <2>2 DEF Line
  <2>4. /\ stdout' \in Seq(Line) /\ Len(stdout') = 1
        /\ stdout'[1] = [kind |-> kind, req |-> serving, candidate |-> checks']
    BY <2>1, <2>2, <2>3, AddLast, EmptySeq
  <2>5. TypeOK'
    BY <1>1, <2>1, <2>4 DEF IInv, TypeOK
  <2>6. OnItsWay(stdout[1])'
    BY <1>1, <2>1, <2>2, <2>4 DEF OnItsWay
  <2>7. WhileRunning'
    BY <1>1, <2>2, <2>4, <2>6 DEF WhileRunning, LineComing
  <2>8. LiveInv'
    BY <1>1, <1>2, <2>2, <2>7, SameResult DEF LiveInv
  <2>9. QED
    BY <1>1, <2>2, <2>5, <2>8, SameResult DEF IInv
<1>3. CASE reader = "done"
  <2>1. UNCHANGED stdout /\ child' = "dead"
    BY <1>3 DEF Write
  <2>2. TypeOK'
    BY <1>1, <2>1 DEF IInv, TypeOK
  <2>3. LiveInv'
    BY <1>1, <1>3, <2>1, SameResult DEF LiveInv, OnceDone, Silent
  <2>4. QED
    BY <1>1, <2>2, <2>3, SameResult DEF IInv, callingBar
<1>4. QED
  BY <1>1, <1>2, <1>3

LEMMA ChildAnswerStep ==
  ASSUME IInv, ChildAnswer
  PROVE  IInv'
<1>1. PICK kind \in {"ok", "remote", "malformed", "oversized"} :
        UNCHANGED checks /\ Write(kind, "reading")
  BY DEF ChildAnswer
<1>2. child \in {"working", "offering"} /\ UNCHANGED stdin
  BY DEF ChildAnswer
<1>3. kind \in LineKinds /\ kind # "event" /\ checks' \in 0..MaxCandidates
  BY <1>1 DEF LineKinds, IInv, TypeOK
<1>4. QED
  BY <1>1, <1>2, <1>3, WriteStep

LEMMA OfferCandidateStep ==
  ASSUME IInv, OfferCandidate
  PROVE  IInv'
<1>1. child = "offering" /\ UNCHANGED stdin /\ Write("event", "deciding")
  BY DEF OfferCandidate
<1>2. checks' \in 0..MaxCandidates
  BY WorkerAssumption DEF OfferCandidate, BudgetLeft, IInv, TypeOK
<1>3. "event" \in LineKinds
  BY DEF LineKinds
<1>4. QED
  BY <1>1, <1>2, <1>3, WriteStep

LEMMA RejectCandidateStep ==
  ASSUME IInv, RejectCandidate
  PROVE  IInv'
<1>1. /\ child = "offering" /\ checks' = checks + 1 /\ checks < MaxCandidates
      /\ UNCHANGED <<client, req, result, pending, stopped, stdin, child, serving,
                     stdout, reader, channel>>
  BY DEF RejectCandidate, BudgetLeft, clientVars
<1>2. ~stopped /\ LiveInv
  BY <1>1, Alive
<1>3. TypeOK'
  <2>1. checks' \in 0..MaxCandidates
    BY <1>1, WorkerAssumption DEF IInv, TypeOK
  <2>2. QED
    BY <1>1, <2>1 DEF IInv, TypeOK
<1>4. reader = "running" => WhileRunning'
  <2>1. reader = "running" =>
          client = "receiving" /\ serving = req
          /\ stdin = <<>> /\ stdout = <<>> /\ channel = <<>>
    BY <1>1, Alive
  <2>2. QED
    BY <1>1, <2>1 DEF WhileRunning, ChildHasIt
<1>5. reader = "done" => OnceDone'
  BY <1>1, <1>2 DEF LiveInv, OnceDone
<1>6. LiveInv'
  BY <1>1, <1>2, <1>4, <1>5, SameResult DEF LiveInv, Silent
<1>7. QED
  BY <1>1, <1>2, <1>3, <1>6, SameResult DEF IInv, callingBar

LEMMA ReadVerdictStep ==
  ASSUME IInv, ReadVerdict
  PROVE  IInv'
<1>1. /\ child = "deciding" /\ stdin # <<>> /\ child' \in {"offering", "working"}
      /\ stdin' = Tail(stdin)
      /\ UNCHANGED <<client, req, result, pending, stopped, serving, checks, stdout,
                     reader, channel>>
  BY DEF ReadVerdict, clientVars
<1>2. ~stopped /\ LiveInv /\ reader = "running"
  BY <1>1, Alive DEF LiveInv, OnceDone, IInv, TypeOK
<1>3. client = "receiving" /\ ChildHasIt /\ Len(stdin) = 1 /\ ~Session!Over
  BY <1>1, <1>2, Alive
<1>4. stdin' = <<>>
  BY <1>1, <1>3, TakeFirst DEF IInv, TypeOK
<1>5. TypeOK'
  BY <1>1, <1>4, EmptySeq DEF IInv, TypeOK
<1>6. ChildHasIt'
  BY <1>1, <1>3, <1>4 DEF ChildHasIt
<1>7. LiveInv'
  BY <1>1, <1>2, <1>3, <1>6, SameResult DEF LiveInv, WhileRunning
<1>8. QED
  BY <1>1, <1>2, <1>5, <1>7, SameResult DEF IInv, callingBar

LEMMA ChildExitsStep ==
  ASSUME IInv, ChildExits
  PROVE  IInv'
<1>1. /\ child # "dead" /\ child' = "dead" /\ stdin' = <<>>
      /\ UNCHANGED <<client, req, result, pending, stopped, serving, checks, reader, channel>>
      /\ \/ UNCHANGED stdout
         \/ /\ child \in {"working", "offering"} /\ reader = "running"
            /\ stdout' = Append(stdout, [kind |-> "truncated", req |-> serving,
                                         candidate |-> checks])
  BY DEF ChildExits, clientVars
<1>2. ~stopped /\ LiveInv
  BY <1>1, Alive
<1>3. CASE UNCHANGED stdout
  <2>1. TypeOK'
    BY <1>1, <1>3, EmptySeq DEF IInv, TypeOK
  <2>2. reader = "running" => WhileRunning'
    <3>1. ChildHasIt => ChildHasIt'
      BY <1>1, <1>3 DEF ChildHasIt
    <3>2. LineComing => LineComing'
      BY <1>1, <1>3 DEF LineComing, OnItsWay
    <3>3. LineHere => LineHere'
      BY <1>1, <1>3 DEF LineHere, OnItsWay, EndsReader
    <3>4. QED
      BY <1>1, <1>2, <1>3, <3>1, <3>2, <3>3 DEF LiveInv, WhileRunning
  <2>3. reader = "done" => OnceDone'
    BY <1>1, <1>2, <1>3, EmptySeq DEF LiveInv, OnceDone
  <2>4. LiveInv'
    BY <1>1, <1>2, <1>3, <2>2, <2>3, SameResult DEF LiveInv, Silent
  <2>5. QED
    BY <1>1, <1>2, <2>1, <2>4, SameResult DEF IInv, callingBar
<1>4. CASE /\ child \in {"working", "offering"} /\ reader = "running"
           /\ stdout' = Append(stdout, [kind |-> "truncated", req |-> serving,
                                        candidate |-> checks])
  <2>1. /\ client = "receiving" /\ serving = req /\ req \in Requests /\ ~Session!Over
        /\ stdout = <<>> /\ channel = <<>>
    BY <1>1, <1>4, Alive DEF IInv, callingBar
  <2>2. [kind |-> "truncated", req |-> serving, candidate |-> checks] \in Line
    BY <2>1 DEF Line, LineKinds, IInv, TypeOK
  <2>3. /\ stdout' \in Seq(Line) /\ Len(stdout') = 1
        /\ stdout'[1] = [kind |-> "truncated", req |-> serving, candidate |-> checks]
    BY <1>4, <2>1, <2>2, AddLast, EmptySeq
  <2>4. TypeOK'
    BY <1>1, <2>3, EmptySeq DEF IInv, TypeOK
  <2>5. WhileRunning'
    BY <1>1, <2>1, <2>3 DEF WhileRunning, LineComing, OnItsWay
  <2>6. LiveInv'
    BY <1>1, <1>2, <1>4, <2>1, <2>5, SameResult DEF LiveInv
  <2>7. QED
    BY <1>1, <1>2, <2>4, <2>6, SameResult DEF IInv, callingBar
<1>5. QED
  BY <1>1, <1>3, <1>4

LEMMA ReadLineStep ==
  ASSUME IInv, ReadLine
  PROVE  IInv'
<1>1. /\ reader = "running" /\ stdout # <<>> /\ channel' = Append(channel, Head(stdout))
      /\ \/ EndsReader(Head(stdout)) /\ reader' = "done" /\ stdout' = <<>>
         \/ ~EndsReader(Head(stdout)) /\ stdout' = Tail(stdout) /\ UNCHANGED reader
      /\ UNCHANGED <<client, req, result, pending, stopped, child, serving, checks, stdin>>
  BY DEF ReadLine, clientVars, childVars
<1>2. /\ Head(stdout) = stdout[1] /\ stdout[1] \in Line /\ Tail(stdout) \in Seq(Line)
      /\ Len(stdout) = 1 => Tail(stdout) = <<>>
  BY <1>1, TakeFirst DEF IInv, TypeOK
<1>3. /\ channel' \in Seq(Line)
      /\ channel = <<>> => Len(channel') = 1 /\ channel'[1] = stdout[1]
  BY <1>1, <1>2, AddLast DEF IInv, TypeOK
<1>4. TypeOK'
  BY <1>1, <1>2, <1>3, EmptySeq DEF IInv, TypeOK
<1>5. CASE stopped
  <2>1. StoppedInv'
    BY <1>1, <1>5, SameResult DEF IInv, StoppedInv
  <2>2. QED
    BY <1>1, <1>4, <1>5, <2>1, SameResult DEF IInv, callingBar
<1>6. CASE ~stopped
  <2>1. LiveInv /\ client = "receiving" /\ LineComing /\ ~Session!Over
    BY <1>1, <1>6 DEF IInv, LiveInv, WhileRunning, ChildHasIt, LineHere, Silent
  <2>2. /\ Len(channel') = 1 /\ channel'[1] = stdout[1] /\ OnItsWay(stdout[1])
        /\ stdout' = <<>>
    BY <1>1, <1>2, <1>3, <2>1 DEF LineComing
  <2>3. CASE EndsReader(stdout[1]) /\ reader' = "done"
    <3>1. stdout[1].kind # "event" /\ stdin = <<>> /\ child # "deciding"
      BY <2>2, <2>3 DEF EndsReader, OnItsWay
    <3>2. OnceDone'
      BY <1>1, <2>1, <2>2, <3>1, EmptySeq DEF OnceDone, OnItsWay
    <3>3. QED
      BY <1>1, <1>4, <1>6, <2>1, <2>3, <3>2, SameResult DEF IInv, LiveInv, callingBar
  <2>4. CASE ~EndsReader(stdout[1]) /\ UNCHANGED reader
    <3>1. OnItsWay(channel[1])'
      BY <1>1, <2>2 DEF OnItsWay
    <3>2. LineHere'
      BY <2>2, <2>4, <3>1 DEF LineHere, EndsReader
    <3>3. WhileRunning'
      BY <1>1, <2>1, <3>2 DEF WhileRunning
    <3>4. QED
      BY <1>1, <1>4, <1>6, <2>1, <2>4, <3>3, SameResult DEF IInv, LiveInv, callingBar
  <2>5. QED
    BY <1>1, <1>2, <2>3, <2>4
<1>7. QED
  BY <1>5, <1>6 DEF IInv, TypeOK

LEMMA ReadEofStep ==
  ASSUME IInv, ReadEof
  PROVE  IInv'
<1>1. /\ reader = "running" /\ stdout = <<>> /\ child = "dead" /\ reader' = "done"
      /\ UNCHANGED <<client, req, result, pending, stopped, child, serving, checks, stdin,
                     stdout, channel>>
  BY DEF ReadEof, clientVars, childVars
<1>2. TypeOK'
  BY <1>1 DEF IInv, TypeOK
<1>3. stopped => StoppedInv'
  BY <1>1 DEF IInv, StoppedInv
<1>4. ASSUME ~stopped PROVE LiveInv'
  <2>1. LiveInv /\ WhileRunning
    BY <1>1, <1>4 DEF IInv, LiveInv
  <2>2. stdin = <<>>
    BY <1>1, <2>1
    DEF LiveInv, WhileRunning, ChildHasIt, LineComing, LineHere, OnItsWay
  <2>3. OnceDone'
    BY <1>1, <2>1, <2>2, EmptySeq
    DEF OnceDone, WhileRunning, ChildHasIt, LineComing, LineHere, OnItsWay
  <2>4. QED
    BY <1>1, <2>1, <2>3, SameResult DEF LiveInv, Silent
<1>5. QED
  BY <1>1, <1>2, <1>3, <1>4, SameResult DEF IInv, callingBar

-------------------------------------------------------------------------------
(* The invariant, and what follows from it                                  *)

LEMMA Inductiveness == IInv /\ [Next]_vars => IInv'
<1> SUFFICES ASSUME IInv, [Next]_vars PROVE IInv'
  OBVIOUS
<1>1. CASE ClientStep
  BY <1>1, ReceiveStep, ReceiveCandidateStep, ReceiveDisconnectedStep, ReceiveTimeoutStep,
     JoinReaderStep, JudgeFailsStep, SendVerdictStep DEF ClientStep
<1>2. CASE ChildStep
  BY <1>2, ChildReadStep, ChildAnswerStep, RejectCandidateStep, OfferCandidateStep,
     ReadVerdictStep, ChildExitsStep DEF ChildStep
<1>3. CASE ReaderStep
  BY <1>3, ReadLineStep, ReadEofStep DEF ReaderStep
<1>4. CASE Drop
  BY <1>4, DropStep
<1>5. ASSUME NEW op \in {"call", "minimize"}, Send(op) PROVE IInv'
  BY <1>5, SendStep
<1>6. CASE UNCHANGED vars
  BY <1>6 DEF vars, clientVars, childVars, IInv, TypeOK, AnswersMatchRequests, callingBar,
     StoppedInv, LiveInv, WhileRunning, OnceDone, ChildHasIt, LineComing, LineHere,
     OnItsWay, EndsReader, Silent, Killed, Session!Over
<1>7. QED
  BY <1>1, <1>2, <1>3, <1>4, <1>5, <1>6 DEF Next

(* Where the one line of a request may be, at every step of a worker.      *)
THEOREM WorkerInductive == Spec => []IInv
<1>1. Init => IInv
  BY Initially
<1>2. IInv /\ [Next]_vars => IInv'
  BY Inductiveness
<1>3. QED
  BY <1>1, <1>2, PTL DEF Spec

(* WorkerProcess::request: an answer is returned only to the request it    *)
(* answers, whatever times out, fails or crashes before it.                *)
THEOREM AnswersMatch == Spec => []AnswersMatchRequests
<1>1. IInv => AnswersMatchRequests
  BY DEF IInv
<1>2. QED
  BY <1>1, WorkerInductive, PTL

(* Between the calls of a worker that can still answer nothing is left in  *)
(* flight for the next request to take for its own answer.                 *)
THEOREM Quiet == Spec => []QuietBetweenCalls
<1>1. IInv => QuietBetweenCalls
  BY DEF IInv, TypeOK, StoppedInv, LiveInv, WhileRunning, QuietBetweenCalls
<1>2. QED
  BY <1>1, WorkerInductive, PTL

(* request_interactive and _minimize: the verdict a child reads is the one *)
(* of the candidate it offered, and no request is taken for a verdict.     *)
THEOREM VerdictsMatch == Spec => []VerdictsMatchCandidates
<1>1. ASSUME IInv, stdin # <<>>, child # "dead"
      PROVE  /\ child = "deciding" => Head(stdin) = Verdict(serving, checks)
             /\ child = "reading" => Head(stdin).op # "verdict"
  <2>1. LiveInv /\ reader \in {"running", "done"}
    BY <1>1, Alive DEF IInv, TypeOK
  <2>2. Head(stdin) = stdin[1] /\ Len(stdin) \in Nat \ {0}
    BY <1>1, TakeFirst DEF IInv, TypeOK
  <2>3. CASE reader = "running"
    BY <1>1, <2>2, <2>3, Alive DEF ChildHasIt
  <2>4. CASE reader = "done"
    BY <2>1, <2>2, <2>4 DEF LiveInv, OnceDone
  <2>5. QED
    BY <2>1, <2>3, <2>4
<1>2. IInv => VerdictsMatchCandidates
  BY <1>1 DEF VerdictsMatchCandidates
<1>3. QED
  BY <1>2, WorkerInductive, PTL

(* terminate and Drop: once a timeout has been returned, or the worker has *)
(* been dropped, the child is dead and the reader thread joined.           *)
THEOREM NothingOutlives == Spec => []NothingOutlivesTheWorker
<1>1. IInv => NothingOutlivesTheWorker
  BY DEF IInv, StoppedInv, LiveInv, NothingOutlivesTheWorker
<1>2. QED
  BY <1>1, WorkerInductive, PTL

-------------------------------------------------------------------------------
(* A worker is a session of requests (RpcSession)                           *)

LEMMA SessionBegins == Init => Session!Init
BY DEF Init, Session!Init, callingBar, Session!NoOutcome, NoOutcome, Requests,
       Session!Requests

LEMMA SessionReturns ==
  ASSUME NEW e \in Session!Transient \cup Session!Fatal,
         callingBar, Finish(req, Error(e)), UNCHANGED req
  PROVE  Session!Next
<1>1. client' = "idle" /\ result' = [result EXCEPT ![req] = Error(e)]
  BY DEF Finish
<1>2. callingBar' = FALSE
  BY <1>1 DEF callingBar
<1>3. Session!Return(req, Session!Error(e))
  BY <1>1, <1>2 DEF Session!Return, Session!Error, Error
<1>4. QED
  BY <1>3 DEF Session!Fail, Session!Next

LEMMA SessionSends ==
  ASSUME IInv, NEW op \in {"call", "minimize"}, Send(op)
  PROVE  Session!Next
<1>1. client = "idle" /\ req < MaxRequests /\ req' = req + 1 /\ callingBar = FALSE
  BY DEF Send, callingBar
<1>2. ASSUME NEW e \in {"json", "io", "closed"}, Finish(req + 1, Error(e))
      PROVE  Session!Next
  <2>1. client' = "idle" /\ result' = [result EXCEPT ![req + 1] = Error(e)]
    BY <1>2 DEF Finish
  <2>2. callingBar' = FALSE
    BY <2>1 DEF callingBar
  <2>3. Session!Return(req + 1, Session!Error(e))
    BY <2>1, <2>2 DEF Session!Return, Session!Error, Error
  <2>4. QED
    BY <1>1, <2>3 DEF Session!Refuse, Session!Next
<1>3. CASE client' = "receiving" /\ UNCHANGED result
  <2>1. callingBar' = TRUE
    BY <1>3 DEF callingBar
  <2>2. QED
    BY <1>1, <1>3, <2>1 DEF Session!Call, Session!Next
<1>4. \/ \E e \in {"json", "io", "closed"} : Finish(req + 1, Error(e))
      \/ client' = "receiving" /\ UNCHANGED result
  BY DEF Send, BrokenPipe
<1>5. QED
  BY <1>2, <1>3, <1>4

LEMMA SessionReceives ==
  ASSUME IInv, Receive
  PROVE  Session!Next
<1>1. /\ client = "receiving" /\ channel # <<>> /\ Head(channel).kind # "event"
      /\ Finish(req, Opened(Head(channel))) /\ UNCHANGED req
  BY DEF Receive
<1>2. /\ Head(channel) = channel[1] /\ channel[1] \in Line /\ channel[1].req = req
      /\ ~Session!Over /\ callingBar
  BY <1>1, Receiving DEF callingBar
<1>3. \/ Opened(channel[1]) = Answer(req)
      \/ \E e \in {"remote", "json", "io"} : Opened(channel[1]) = Error(e)
  BY <1>1, <1>2 DEF Opened, Line, LineKinds
<1>4. CASE Opened(channel[1]) = Answer(req)
  <2>1. client' = "idle" /\ result' = [result EXCEPT ![req] = Answer(req)]
    BY <1>1, <1>2, <1>4 DEF Finish
  <2>2. callingBar' = FALSE
    BY <2>1 DEF callingBar
  <2>3. Session!Return(req, Session!Answer(req))
    BY <2>1, <2>2 DEF Session!Return, Session!Answer, Answer
  <2>4. QED
    BY <1>1, <1>2, <2>3 DEF Session!Reply, Session!Next
<1>5. ASSUME NEW e \in {"remote", "json", "io"}, Opened(channel[1]) = Error(e)
      PROVE  Session!Next
  BY <1>1, <1>2, <1>5, SessionReturns DEF Session!Transient, Session!Fatal
<1>6. QED
  BY <1>3, <1>4, <1>5

LEMMA SessionStep == IInv /\ [Next]_vars => [Session!Next]_(Session!vars)
<1> SUFFICES ASSUME IInv, [Next]_vars PROVE Session!Next \/ UNCHANGED Session!vars
  OBVIOUS
<1>1. ASSUME UNCHANGED <<client, req, result, pending>> PROVE UNCHANGED Session!vars
  BY <1>1 DEF Session!vars, callingBar
<1>2. CASE Receive
  BY <1>2, SessionReceives
<1>3. CASE ReceiveCandidate
  <2>1. UNCHANGED <<req, result>> /\ callingBar' = callingBar
    BY <1>3 DEF ReceiveCandidate, callingBar
  <2>2. QED
    BY <2>1 DEF Session!vars
<1>4. CASE ReceiveDisconnected
  <2>1. callingBar /\ Finish(req, Error("closed")) /\ UNCHANGED req
    BY <1>4 DEF ReceiveDisconnected, callingBar
  <2>2. QED
    BY <2>1, SessionReturns DEF Session!Fatal
<1>5. ASSUME NEW outcome, outcome # NoOutcome, Terminate(outcome),
             client \in {"receiving", "judging"}
      PROVE  UNCHANGED Session!vars
  <2>1. UNCHANGED <<req, result>> /\ callingBar' = callingBar
    BY <1>5 DEF Terminate, callingBar
  <2>2. QED
    BY <2>1 DEF Session!vars
<1>6. CASE ReceiveTimeout \/ JudgeFails
  <2>1. Error("timeout") # NoOutcome /\ Error("judge_failed") # NoOutcome
    BY DEF Error, NoOutcome
  <2>2. QED
    BY <1>5, <1>6, <2>1 DEF ReceiveTimeout, JudgeFails
<1>7. CASE JoinReader
  <2>1. CASE pending = NoOutcome
    <3>1. UNCHANGED <<req, result>> /\ callingBar = FALSE /\ callingBar' = FALSE
      BY <1>7, <2>1 DEF JoinReader, Joined, callingBar
    <3>2. QED
      BY <3>1 DEF Session!vars
  <2>2. CASE pending # NoOutcome
    <3>1. callingBar /\ Finish(req, pending) /\ UNCHANGED req
      BY <1>7, <2>2 DEF JoinReader, Joined, callingBar
    <3>2. pending \in {Error("timeout"), Error("judge_failed")}
      BY <2>2 DEF IInv, TypeOK
    <3>3. QED
      BY <3>1, <3>2, SessionReturns DEF Session!Fatal
  <2>3. QED
    BY <2>1, <2>2
<1>8. CASE SendVerdict
  <2>1. client = "judging" /\ UNCHANGED req /\ callingBar
    BY <1>8 DEF SendVerdict, callingBar
  <2>2. CASE child = "dead"
    <3>1. PICK e \in BrokenPipe : Finish(req, Error(e))
      BY <1>8, <2>2 DEF SendVerdict
    <3>2. QED
      BY <2>1, <3>1, SessionReturns DEF BrokenPipe, Session!Transient, Session!Fatal
  <2>3. CASE child # "dead"
    <3>1. UNCHANGED result /\ callingBar'
      BY <1>8, <2>3 DEF SendVerdict, callingBar
    <3>2. QED
      BY <2>1, <3>1 DEF Session!vars
  <2>4. QED
    BY <2>2, <2>3
<1>9. CASE Drop
  <2>1. UNCHANGED <<req, result>> /\ callingBar = FALSE /\ callingBar' = FALSE
    BY <1>9 DEF Drop, Terminate, callingBar
  <2>2. QED
    BY <2>1 DEF Session!vars
<1>10. CASE ChildStep
  <2>1. UNCHANGED <<client, req, result, pending>>
    BY <1>10 DEF ChildStep, ChildRead, ChildAnswer, RejectCandidate, OfferCandidate,
                 ReadVerdict, ChildExits, Write, clientVars
  <2>2. QED
    BY <1>1, <2>1
<1>11. CASE ReaderStep
  <2>1. UNCHANGED <<client, req, result, pending>>
    BY <1>11 DEF ReaderStep, ReadLine, ReadEof, clientVars
  <2>2. QED
    BY <1>1, <2>1
<1>12. ASSUME NEW op \in {"call", "minimize"}, Send(op) PROVE Session!Next
  BY <1>12, SessionSends
<1>13. CASE UNCHANGED vars
  BY <1>1, <1>13 DEF vars, clientVars
<1>14. QED
  BY <1>2, <1>3, <1>4, <1>6, <1>7, <1>8, <1>9, <1>10, <1>11, <1>12, <1>13
  DEF Next, ClientStep

(* A worker with its child, its reader thread and its pipes implements the *)
(* session of requests of RpcSession: every step of it is one of the       *)
(* session's or leaves the session as it is.                               *)
THEOREM SessionRefinement == Spec => IsAnRpcSession
<1>1. Init => Session!Init
  BY SessionBegins
<1>2. IInv /\ [Next]_vars => [Session!Next]_(Session!vars)
  BY SessionStep
<1>3. QED
  BY <1>1, <1>2, WorkerInductive, PTL DEF Spec, IsAnRpcSession, Session!Spec
===============================================================================
