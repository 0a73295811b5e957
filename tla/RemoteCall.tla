----------------------------- MODULE RemoteCall -----------------------------
(* One call of a remote agent over A2A, as the tool of a turn: the card,   *)
(* the message, then a poll every POLL_INTERVAL_MS until the remote task   *)
(* is settled, the deadline passes or the turn is cancelled. The remote    *)
(* server and the network are the environment.                             *)
EXTENDS Naturals, Sequences, FiniteSets

CONSTANT MaxPolls   \* bound: polls until the remote task must have moved on

VARIABLES
  remoteCall, \* [phase, cached, seen, polls, aborted, late, outcome]
  remoteTask  \* the task at the other side, "none" before it exists

remoteVars == <<remoteCall, remoteTask>>

TERMINAL == {"completed", "failed", "canceled", "rejected"}
NEEDS_INPUT == {"input-required", "auth-required"}
RemoteRunning == {"submitted", "working", "unknown"}
RemoteStates == TERMINAL \cup NEEDS_INPUT \cup RemoteRunning

RemoteInit ==
  /\ remoteCall = [phase |-> "idle", cached |-> FALSE, seen |-> "none", polls |-> 0,
                   aborted |-> FALSE, late |-> FALSE, cutShort |-> FALSE,
                   askedToCancel |-> FALSE, outcome |-> "none"]
  /\ remoteTask = "none"

SetCall(new) == remoteCall' = new
CallOver(c, outcome) == [c EXCEPT !.phase = "done", !.outcome = outcome]

(* remoteToolOutput: what the model reads. *)
remoteToolOutput(state) ==
  CASE state = "completed" -> "answer"
    [] state \in NEEDS_INPUT -> "needs input"
    [] OTHER -> "ended badly"

(* A tool call; the client and its card are kept from an earlier one.      *)
CallAgent(emptyRequest) ==
  /\ remoteCall.phase \in {"idle", "done"} /\ ~remoteCall.aborted
  /\ SetCall([remoteCall EXCEPT !.phase = IF emptyRequest THEN "done"
                                      ELSE IF remoteCall.cached THEN "sending" ELSE "resolving",
                            !.seen = "none", !.polls = 0, !.late = FALSE, !.cutShort = FALSE,
                            !.askedToCancel = FALSE,
                            !.outcome = IF emptyRequest THEN "no request" ELSE "none"])
  /\ remoteTask' = "none"

(* The turn is cancelled or its deadline passes.                           *)
AbortTurn == ~remoteCall.aborted /\ remoteCall.phase \notin {"idle", "done"}
             /\ SetCall([remoteCall EXCEPT !.aborted = TRUE]) /\ UNCHANGED remoteTask

(* The card, then every endpoint it names; neither sees the turn's signal. *)
Resolve(safe) ==
  /\ remoteCall.phase = "resolving"
  /\ SetCall(IF safe THEN [remoteCall EXCEPT !.phase = "sending", !.cached = TRUE]
         ELSE CallOver(remoteCall, "unreachable"))
  /\ UNCHANGED remoteTask

(* A request under the signal fails at once when it is aborted; it also    *)
(* fails by itself, and the remote may have taken the message all the same.*)
SendFails(taken) ==
  /\ remoteCall.phase = "sending"
  /\ SetCall([CallOver(remoteCall, "unreachable") EXCEPT !.cutShort = TRUE])
  /\ remoteTask' = IF taken THEN "submitted" ELSE "none"

(* The answer: a message, which is "completed", or a task.                 *)
SendAnswered(state) ==
  /\ remoteCall.phase = "sending" /\ ~remoteCall.aborted
  /\ SetCall([remoteCall EXCEPT !.phase = "deciding", !.seen = state])
  /\ remoteTask' = state

Settled(state) == state \in TERMINAL \cup NEEDS_INPUT

(* The loop's condition, then the deadline, then the sleep.                *)
LoopTest ==
  /\ remoteCall.phase = "deciding"
  /\ SetCall(CASE Settled(remoteCall.seen) -> CallOver(remoteCall, remoteToolOutput(remoteCall.seen))
           [] ~Settled(remoteCall.seen) /\ remoteCall.late -> CallOver(remoteCall, "deadline")
           [] OTHER -> [remoteCall EXCEPT !.phase = "sleeping"])
  /\ UNCHANGED remoteTask

DeadlinePasses ==
  /\ remoteCall.phase \in {"deciding", "sleeping", "fetching"} /\ ~remoteCall.late
  /\ SetCall([remoteCall EXCEPT !.late = TRUE]) /\ UNCHANGED remoteTask

(* Plausible bug: an aborted call ends and nobody tells the other side.    *)
WakeUpSilent ==
  /\ remoteCall.phase = "sleeping"
  /\ SetCall(IF remoteCall.aborted THEN CallOver(remoteCall, "canceled")
              ELSE [remoteCall EXCEPT !.phase = "fetching"])
  /\ UNCHANGED remoteTask

(* The sleep is not cut short; after it the signal is looked at.           *)
WakeUp ==
  /\ remoteCall.phase = "sleeping"
  /\ SetCall([remoteCall EXCEPT !.phase = IF remoteCall.aborted THEN "cancelling" ELSE "fetching",
                            !.askedToCancel = remoteCall.aborted])
  /\ UNCHANGED remoteTask

(* Whatever the remote makes of the request, the call ends as canceled.    *)
CancelAnswered(done) ==
  /\ remoteCall.phase = "cancelling"
  /\ SetCall(CallOver(remoteCall, "canceled"))
  /\ remoteTask' = IF done THEN "canceled" ELSE remoteTask

Fetched ==
  /\ remoteCall.phase = "fetching" /\ ~remoteCall.aborted /\ remoteCall.polls < MaxPolls
  /\ SetCall([remoteCall EXCEPT !.phase = "deciding", !.seen = remoteTask, !.polls = @ + 1])
  /\ UNCHANGED remoteTask

FetchFails ==
  /\ remoteCall.phase = "fetching"
  /\ SetCall([CallOver(remoteCall, "unreachable") EXCEPT !.cutShort = TRUE])
  /\ UNCHANGED remoteTask

RemoteMoves(state) ==
  /\ remoteTask \in RemoteRunning /\ state # remoteTask
  /\ remoteTask' = state /\ UNCHANGED remoteCall

CallMoves ==
  \/ \E safe \in BOOLEAN : Resolve(safe)
  \/ \E taken \in BOOLEAN : SendFails(taken)
  \/ LoopTest \/ WakeUp \/ Fetched \/ FetchFails
  \/ \E done \in BOOLEAN : CancelAnswered(done)

RemoteNext ==
  \/ \E empty \in BOOLEAN : CallAgent(empty)
  \/ AbortTurn \/ DeadlinePasses \/ CallMoves
  \/ \E state \in RemoteStates : SendAnswered(state) \/ RemoteMoves(state)

(* Every request has a timeout, every sleep ends.                          *)
RemoteFairness == WF_remoteVars(CallMoves)
RemoteSpec == RemoteInit /\ [][RemoteNext]_remoteVars /\ RemoteFairness

(* What the model is told of a remote task is what the task came to, and   *)
(* a task that still runs when its call is over was given up for one of    *)
(* three reasons: the deadline, a request that failed, or a cancellation   *)
(* the remote was asked for and did not make.                              *)
NoTaskForgotten ==
  remoteCall.phase = "done" =>
    /\ remoteCall.outcome \in {"answer", "needs input", "ended badly"} =>
         Settled(remoteTask) /\ remoteCall.outcome = remoteToolOutput(remoteTask)
    /\ remoteTask \in RemoteRunning =>
         \/ remoteCall.outcome = "deadline" /\ remoteCall.late
         \/ remoteCall.cutShort
         \/ remoteCall.outcome = "canceled" /\ remoteCall.askedToCancel

(* A cancelled turn's call of a remote agent ends.                         *)
CancelledCallEnds == remoteCall.aborted ~> remoteCall.phase = "done"
=============================================================================
