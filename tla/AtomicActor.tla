---------------------------- MODULE AtomicActor ----------------------------
(***************************************************************************)
(* What a durable actor promises its callers, without hosts, epochs,        *)
(* snapshots or retries: its versions form one history, each made from the  *)
(* one before by one request, and an answer reports one of them.            *)
(***************************************************************************)
EXTENDS Naturals, Sequences

CONSTANTS Requests, Calls, NoAnswer

VARIABLES history,  \* the committed versions: request and state of each
          answer    \* the answer a caller got in the last step, if any

State(h) == IF h = << >> THEN << >> ELSE h[Len(h)].state

\* The next version applies a request to the last one; the first version may be
\* the actor's initial state.  A method call that made the last version is not
\* applied to it again.
Apply(request, state) ==
    /\ \/ state = Append(State(history), request)
       \/ history = << >> /\ state = << >>
    /\ request \in Calls /\ history # << >> => history[Len(history)].request # request
    /\ history' = Append(history, [request |-> request, state |-> state])
    /\ answer' = NoAnswer

\* A caller is answered from a committed version.  It need not be the last: a
\* host that has lost the actor may still answer for the versions it knows.
Answer(request, version) ==
    /\ version \in 1..Len(history)
    /\ answer' = [request |-> request, version |-> version, state |-> history[version].state]
    /\ UNCHANGED history

Internal == answer' = NoAnswer /\ UNCHANGED history

Init == history = << >> /\ answer = NoAnswer

Next ==
    \/ \E request \in Requests :
          \/ \E state \in {<< >>, Append(State(history), request)} : Apply(request, state)
          \/ \E version \in 1..Len(history) : Answer(request, version)
    \/ Internal

Spec == Init /\ [][Next]_<<history, answer>>

=============================================================================
