----------------------------- MODULE WorkerPool -----------------------------
(***************************************************************************)
(* The process pool of a parallel bulk ingest (ParallelController and      *)
(* _worker_main in httk/store/backend/sql/bulk_parallel.py).               *)
(*                                                                         *)
(* The caller's thread puts numbered tasks on the bounded queue of the     *)
(* worker they are routed to, then a stop sentinel on every queue, and     *)
(* collects one result per worker from a shared result queue.  A worker    *)
(* may die at any moment; its exit code shows that at once.  Whoever waits *)
(* for a worker polls: it drains the result queue and looks at exit codes. *)
(* What the manifests hold is modelled by the set of encoded tokens.       *)
(***************************************************************************)
EXTENDS Integers, Sequences

CONSTANTS
  WorkerCount, \* workers of the pool
  QueueSize,   \* _QUEUE_MAXSIZE
  MaxTokens    \* bound: records the caller saves

ASSUME PoolAssumption ==
  /\ WorkerCount \in Nat \ {0}
  /\ QueueSize \in Nat \ {0}
  /\ MaxTokens \in Nat

Workers == 0 .. WorkerCount - 1
Tokens == 0 .. MaxTokens - 1
Stop == -1

VARIABLES
  queue,    \* queue[w]: tokens and the stop sentinel on the task queue of w
  encoded,  \* encoded[w]: tokens w has encoded
  wpc,      \* wpc[w]: where worker w is
  pipe,     \* results <<worker, status>> in the result queue
  seen,     \* results the controller has taken from it
  mpc,      \* where the caller's thread is
  issued,   \* tokens given out
  accepted, \* tokens that were put on a queue
  unsent,   \* workers whose sentinel is not on their queue yet
  round,    \* those of them that this pass has still to try
  raised    \* history: failures reported to the caller

worker == <<queue, encoded, wpc, pipe>>
caller == <<seen, mpc, issued, accepted, unsent, round, raised>>
vars == <<worker, caller>>

Gone == {w \in Workers : wpc[w] \in {"exited", "killed"}}
Results == Workers \X {"ok", "error"}
Reported == {r[1] : r \in seen}

TypeOK ==
  /\ queue \in [Workers -> Seq(Tokens \cup {Stop})]
  /\ \A w \in Workers : Len(queue[w]) <= QueueSize
  /\ encoded \in [Workers -> SUBSET Tokens]
  /\ wpc \in [Workers -> {"running", "finishing", "failing", "reported", "exited", "killed"}]
  /\ pipe \subseteq Results
  /\ seen \subseteq Results
  /\ mpc \in {"idle", "drain", "check", "put", "signal", "repoll", "recheck",
              "collect", "exits", "judge", "count", "merge", "closing", "closed"}
  /\ issued \in 0..MaxTokens
  /\ accepted \subseteq Tokens
  /\ unsent \subseteq Workers
  /\ round \subseteq unsent
  /\ raised \subseteq {"crash", "error", "stall", "lost"}

Init ==
  /\ queue = [w \in Workers |-> <<>>]
  /\ encoded = [w \in Workers |-> {}]
  /\ wpc = [w \in Workers |-> "running"]
  /\ pipe = {}
  /\ seen = {}
  /\ mpc = "idle"
  /\ issued = 0
  /\ accepted = {}
  /\ unsent = {}
  /\ round = {}
  /\ raised = {}

-----------------------------------------------------------------------------
(* _worker_main *)

WorkerGoto(w, label) == wpc' = [wpc EXCEPT ![w] = label]

\* A task is encoded or raises; the sentinel ends the loop, and finishing the
\* shards may raise as well.
Take(w) ==
  /\ wpc[w] = "running"
  /\ queue[w] # <<>>
  /\ queue' = [queue EXCEPT ![w] = Tail(@)]
  /\ \/ /\ Head(queue[w]) # Stop
        /\ encoded' = [encoded EXCEPT ![w] = @ \cup {Head(queue[w])}]
        /\ UNCHANGED wpc
     \/ /\ Head(queue[w]) = Stop
        /\ WorkerGoto(w, "finishing")
        /\ UNCHANGED encoded
     \/ /\ WorkerGoto(w, "failing")
        /\ UNCHANGED encoded
  /\ UNCHANGED <<pipe, caller>>

\* _report returns when the result is in the pipe.
Report(w) ==
  /\ wpc[w] \in {"finishing", "failing"}
  /\ pipe' = pipe \cup {<<w, IF wpc[w] = "failing" THEN "error" ELSE "ok">>}
  /\ WorkerGoto(w, "reported")
  /\ UNCHANGED <<queue, encoded, caller>>

Exit(w) ==
  /\ wpc[w] = "reported"
  /\ WorkerGoto(w, "exited")
  /\ UNCHANGED <<queue, encoded, pipe, caller>>

\* A crash or a kill.
Die(w) ==
  /\ w \notin Gone
  /\ mpc # "closed"
  /\ WorkerGoto(w, "killed")
  /\ UNCHANGED <<queue, encoded, pipe, caller>>

-----------------------------------------------------------------------------
(* dispatch *)

Route(t) == t % WorkerCount
HasRoom(w) == Len(queue[w]) < QueueSize

\* A token is given out before the object is pickled, which may raise.
Save ==
  /\ mpc = "idle"
  /\ issued < MaxTokens
  /\ issued' = issued + 1
  /\ mpc' \in {"drain", "idle"}
  /\ UNCHANGED <<worker, seen, accepted, unsent, round, raised>>

\* _drain_results, and the look at the statuses it has cached.  The caller of
\* save() may catch what dispatch raises, the one of finish() does not.
Poll(from, to, failed) ==
  /\ mpc = from
  /\ seen' = seen \cup pipe
  /\ pipe' = {}
  /\ IF \E r \in seen' : r[2] = "error"
     THEN mpc' = failed /\ raised' = raised \cup {"error"}
     ELSE mpc' = to /\ UNCHANGED raised
  /\ UNCHANGED <<queue, encoded, wpc, issued, accepted, unsent, round>>

\* The look at the exit codes that follows.
CheckExits(from, to, failed) ==
  /\ mpc = from
  /\ IF Gone \subseteq Reported
     THEN mpc' = to /\ UNCHANGED raised
     ELSE mpc' = failed /\ raised' = raised \cup {"crash"}
  /\ UNCHANGED <<worker, seen, issued, accepted, unsent>>

PollWorkers == Poll("drain", "check", "idle")
CheckWorkers == CheckExits("check", "put", "idle") /\ UNCHANGED round

\* put with a timeout: a full queue leads to another poll.
Put ==
  /\ mpc = "put"
  /\ LET t == issued - 1
     IN IF HasRoom(Route(t))
        THEN /\ queue' = [queue EXCEPT ![Route(t)] = Append(@, t)]
             /\ accepted' = accepted \cup {t}
             /\ mpc' = "idle"
        ELSE mpc' = "drain" /\ UNCHANGED <<queue, accepted>>
  /\ UNCHANGED <<encoded, wpc, pipe, seen, issued, unsent, round, raised>>

-----------------------------------------------------------------------------
(* finish, close *)

Finish ==
  /\ mpc = "idle"
  /\ mpc' = "signal"
  /\ unsent' = Workers
  /\ round' = Workers
  /\ UNCHANGED <<worker, seen, issued, accepted, raised>>

\* _send_sentinels: every pass tries the pending queues in order.
SendSentinel ==
  /\ mpc = "signal"
  /\ \E w \in round :
       /\ \A v \in round : w <= v
       /\ round' = round \ {w}
       /\ IF HasRoom(w)
          THEN /\ queue' = [queue EXCEPT ![w] = Append(@, Stop)]
               /\ unsent' = unsent \ {w}
          ELSE UNCHANGED <<queue, unsent>>
  /\ UNCHANGED <<encoded, wpc, pipe, seen, mpc, issued, accepted, raised>>

\* Faulty variant: a worker that does not take its sentinel is not looked at.
EndPassBlindly ==
  /\ mpc = "signal"
  /\ round = {}
  /\ mpc' = IF unsent = {} THEN "collect" ELSE "signal"
  /\ round' = unsent
  /\ UNCHANGED <<worker, seen, issued, accepted, unsent, raised>>

EndPass ==
  /\ mpc = "signal"
  /\ round = {}
  /\ mpc' = IF unsent = {} THEN "collect" ELSE "repoll"
  /\ UNCHANGED <<worker, seen, issued, accepted, unsent, round, raised>>

PollSignalled == Poll("repoll", "recheck", "closing")
CheckSignalled == CheckExits("recheck", "signal", "closing") /\ round' = unsent

\* The deadline of _send_sentinels, or the stall timeout of finish.
Stall ==
  /\ mpc \in {"recheck", "exits"}
  /\ mpc' = "closing"
  /\ raised' = raised \cup {"stall"}
  /\ UNCHANGED <<worker, seen, issued, accepted, unsent, round>>

GetResult(r) ==
  /\ mpc = "collect"
  /\ r \in pipe
  /\ pipe' = pipe \ {r}
  /\ seen' = seen \cup {r}
  /\ UNCHANGED <<queue, encoded, wpc, mpc, issued, accepted, unsent, round, raised>>

\* All results are there, or the result queue stayed empty for a second.
GetTimeout ==
  /\ mpc = "collect"
  /\ \/ Reported = Workers /\ mpc' = "judge"
     \/ Reported # Workers /\ pipe = {} /\ mpc' = "exits"
  /\ UNCHANGED <<worker, seen, issued, accepted, unsent, round, raised>>

\* Only when every worker has exited the results still queued are the last.
CheckFinished ==
  /\ mpc = "exits"
  /\ IF Gone = Workers
     THEN mpc' = "judge" /\ seen' = seen \cup pipe /\ pipe' = {}
     ELSE mpc' = "collect" /\ UNCHANGED <<seen, pipe>>
  /\ UNCHANGED <<queue, encoded, wpc, issued, accepted, unsent, round, raised>>

\* Faulty variant: a missing result is not an error.
JudgeLeniently ==
  /\ mpc = "judge"
  /\ IF \E r \in seen : r[2] = "error"
     THEN mpc' = "closing" /\ raised' = raised \cup {"error"}
     ELSE mpc' = "count" /\ UNCHANGED raised
  /\ UNCHANGED <<worker, seen, issued, accepted, unsent, round>>

\* finish raises for a worker without result, then for a reported error.
Judge ==
  /\ mpc = "judge"
  /\ IF Reported # Workers
     THEN mpc' = "closing" /\ raised' = raised \cup {"crash"}
     ELSE IF \E r \in seen : r[2] = "error"
          THEN mpc' = "closing" /\ raised' = raised \cup {"error"}
          ELSE mpc' = "count" /\ UNCHANGED raised
  /\ UNCHANGED <<worker, seen, issued, accepted, unsent, round>>

\* _assert_no_lost_tasks compares the manifests with the tokens given out.
CountTasks ==
  /\ mpc = "count"
  /\ IF UNION {encoded[w] : w \in Workers} = 0 .. issued - 1
     THEN mpc' = "merge" /\ UNCHANGED raised
     ELSE mpc' = "closing" /\ raised' = raised \cup {"lost"}
  /\ UNCHANGED <<worker, seen, issued, accepted, unsent, round>>

\* The merge is over, or an exception left the context of the ingest.
Leave ==
  /\ mpc \in {"idle", "merge"}
  /\ mpc' = "closing"
  /\ UNCHANGED <<worker, seen, issued, accepted, unsent, round, raised>>

\* close terminates the workers that still live.
Close ==
  /\ mpc = "closing"
  /\ wpc' = [w \in Workers |-> IF w \in Gone THEN wpc[w] ELSE "killed"]
  /\ mpc' = "closed"
  /\ UNCHANGED <<queue, encoded, pipe, seen, issued, accepted, unsent, round, raised>>

WorkerStep(w) == Take(w) \/ Report(w) \/ Exit(w)

\* What the caller's thread does by itself.
CallerStep ==
  \/ PollWorkers \/ CheckWorkers \/ Put
  \/ SendSentinel \/ EndPass \/ PollSignalled \/ CheckSignalled
  \/ (\E r \in pipe : GetResult(r)) \/ GetTimeout \/ CheckFinished
  \/ Judge \/ CountTasks \/ Close

Next ==
  \/ \E w \in Workers : WorkerStep(w) \/ Die(w)
  \/ CallerStep
  \/ Save \/ Finish \/ Leave \/ Stall

Spec == Init /\ [][Next]_vars

\* The caller's thread runs on, and so does every worker that lives.
LiveSpec == Spec /\ WF_vars(CallerStep) /\ \A w \in Workers : WF_vars(WorkerStep(w))

-----------------------------------------------------------------------------
(* Properties *)

\* A merge sees every record: when finish() returns manifests, every token put
\* on a queue was encoded, by the worker it was routed to, whichever workers
\* died or raised and however their reports raced their exits.
ManifestsComplete ==
  mpc \in {"count", "merge"} => \A t \in accepted : t \in encoded[Route(t)]

\* save() returns or raises and finish() ends, even when a worker dies with a
\* full queue.
CallsEnd == mpc \in {"drain", "signal"} ~> mpc \in {"idle", "merge", "closed"}
=============================================================================
