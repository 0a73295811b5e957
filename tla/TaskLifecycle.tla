--------------------------- MODULE TaskLifecycle ---------------------------
(***************************************************************************)
(* What an A2A task promises its client, whatever runs it: the task itself  *)
(* is the first event, progress may follow, one final state ends it, and    *)
(* the event stream closes after that state and not before.  A task is      *)
(* rejected before it did anything or not at all.                           *)
(***************************************************************************)
CONSTANT Task

VARIABLES
    state,  \* the last state published for a task
    closed  \* tasks whose event stream has ended

lifecycleVars == <<state, closed>>

Live == {"submitted", "working"}
Final == {"completed", "failed", "canceled", "rejected"}
State == {"none"} \cup Live \cup Final

Init ==
    /\ state = [t \in Task |-> "none"]
    /\ closed = {}

Publish(t, s) == state' = [state EXCEPT ![t] = s]

Submit(t) ==
    /\ state[t] = "none"
    /\ Publish(t, "submitted")
    /\ UNCHANGED closed

Progress(t) ==
    /\ state[t] \in Live
    /\ Publish(t, "working")
    /\ UNCHANGED closed

\* The final state, with the stream closed by the same step or a later one.
End(t) ==
    /\ state[t] \in Live \cup {"none"}
    /\ \E s \in Final :
         /\ s = "rejected" => state[t] # "working"
         /\ Publish(t, s)
    /\ closed' \in {closed, closed \cup {t}}

Close(t) ==
    /\ state[t] \in Final
    /\ closed' = closed \cup {t}
    /\ UNCHANGED state

Next == \E t \in Task : Submit(t) \/ Progress(t) \/ End(t) \/ Close(t)

Spec == Init /\ [][Next]_lifecycleVars
=============================================================================
