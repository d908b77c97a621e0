------------------------------ MODULE RpcSession ------------------------------
(***************************************************************************)
(* What a WorkerProcess promises its owner, with the child, the pipes and  *)
(* the reader thread left out: requests are made one at a time, each       *)
(* returns one outcome, an answer is the answer to that very request, and  *)
(* after a fatal error nothing is answered any more.                       *)
(*                                                                         *)
(*   req      the number of the last request                               *)
(*   calling  whether it has still to return                               *)
(*   result   the outcome of each request                                  *)
(***************************************************************************)
EXTENDS Naturals

CONSTANT MaxRequests  (* bound of the model: requests of one session       *)

VARIABLES req, calling, result

vars == <<req, calling, result>>

Requests  == 1..MaxRequests
Answer(n) == [kind |-> "answer", req |-> n]
Error(e)  == [kind |-> e, req |-> 0]
NoOutcome == [kind |-> "none", req |-> 0]

(* A remote error is the child's answer, and a json error says nothing of  *)
(* the child: the session goes on.  The others end it.                     *)
Transient == {"remote", "json"}
Fatal     == {"timeout", "io", "closed", "judge_failed"}

Over == \E n \in Requests : result[n].kind \in Fatal

Init == req = 0 /\ calling = FALSE /\ result = [n \in Requests |-> NoOutcome]

Call ==
    /\ ~calling /\ req < MaxRequests
    /\ req' = req + 1 /\ calling' = TRUE
    /\ UNCHANGED result

Return(n, outcome) ==
    /\ calling' = FALSE
    /\ result' = [result EXCEPT ![n] = outcome]

Reply ==
    /\ calling /\ ~Over
    /\ Return(req, Answer(req))
    /\ UNCHANGED req

Fail ==
    /\ calling
    /\ \E e \in Transient \cup Fatal : Return(req, Error(e))
    /\ UNCHANGED req

(* A request that cannot even be sent returns at once. *)
Refuse ==
    /\ ~calling /\ req < MaxRequests
    /\ req' = req + 1
    /\ \E e \in {"json", "io", "closed"} : Return(req + 1, Error(e))

Next == Call \/ Reply \/ Fail \/ Refuse

Spec == Init /\ [][Next]_vars
===============================================================================
