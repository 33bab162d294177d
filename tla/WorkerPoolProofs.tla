-------------------------- MODULE WorkerPoolProofs --------------------------
(***************************************************************************)
(* Proofs about WorkerPool, for any number of workers, queue size and      *)
(* number of records.                                                      *)
(*                                                                         *)
(* The argument: a stop sentinel is the last element of its queue, so a    *)
(* worker that takes it has taken every task before; a worker reports ok   *)
(* only after that; and finish() returns only when all reported ok.        *)
(***************************************************************************)
EXTENDS WorkerPool, SequenceTheorems, TLAPS

Elements(q) == {q[i] : i \in 1..Len(q)}

LEMMA AppendElements ==
  ASSUME NEW S, NEW q \in Seq(S), NEW x \in S
  PROVE  /\ Append(q, x) \in Seq(S)
         /\ Len(Append(q, x)) = Len(q) + 1
         /\ \A i \in 1..Len(q) : Append(q, x)[i] = q[i]
         /\ Append(q, x)[Len(q) + 1] = x
         /\ Elements(Append(q, x)) = Elements(q) \cup {x}
<1>1. /\ Append(q, x) \in Seq(S)
      /\ Len(Append(q, x)) = Len(q) + 1
      /\ \A i \in 1..Len(q) : Append(q, x)[i] = q[i]
      /\ Append(q, x)[Len(q) + 1] = x
  BY AppendProperties
<1>2. Elements(Append(q, x)) = Elements(q) \cup {x}
  BY <1>1, LenProperties DEF Elements
<1>3. QED
  BY <1>1, <1>2

LEMMA TailElements ==
  ASSUME NEW S, NEW q \in Seq(S), q # <<>>
  PROVE  /\ Head(q) \in S
         /\ Head(q) = q[1]
         /\ Tail(q) \in Seq(S)
         /\ Len(Tail(q)) = Len(q) - 1
         /\ Len(q) \in Nat \ {0}
         /\ \A i \in 1..Len(Tail(q)) : Tail(q)[i] = q[i + 1]
         /\ Elements(q) = {Head(q)} \cup Elements(Tail(q))
<1>1. /\ Head(q) \in S
      /\ Head(q) = q[1]
      /\ Tail(q) \in Seq(S)
      /\ Len(Tail(q)) = Len(q) - 1
      /\ Len(q) \in Nat \ {0}
      /\ \A i \in 1..Len(Tail(q)) : Tail(q)[i] = q[i + 1]
  BY HeadTailProperties, LenProperties, EmptySeq
<1>2. Elements(q) = {Head(q)} \cup Elements(Tail(q))
  <2>1. ASSUME NEW i \in 1..Len(q)
        PROVE  q[i] \in {Head(q)} \cup Elements(Tail(q))
    <3>1. CASE i = 1
      BY <1>1, <3>1
    <3>2. CASE i # 1
      <4>1. i - 1 \in 1..Len(Tail(q)) /\ q[i] = Tail(q)[i - 1]
        BY <1>1, <3>2
      <4>2. QED
        BY <4>1 DEF Elements
    <3>3. QED
      BY <3>1, <3>2
  <2>2. ASSUME NEW i \in 1..Len(Tail(q))
        PROVE  Tail(q)[i] \in Elements(q)
    <3>1. i + 1 \in 1..Len(q) /\ Tail(q)[i] = q[i + 1]
      BY <1>1
    <3>2. QED
      BY <3>1 DEF Elements
  <2>3. Head(q) \in Elements(q)
    <3>1. 1 \in 1..Len(q)
      BY <1>1
    <3>2. QED
      BY <1>1, <3>1 DEF Elements
  <2>4. QED
    BY <2>1, <2>2, <2>3 DEF Elements
<1>3. QED
  BY <1>1, <1>2

\* Every token has a worker.
LEMMA RouteType == \A t \in Tokens : Route(t) \in Workers
  BY PoolAssumption DEF Tokens, Workers, Route
-----------------------------------------------------------------------------
(* The inductive invariant *)

Dispatching == {"idle", "drain", "check", "put"}

\* Worker w has taken its sentinel.
Done(w) == wpc[w] = "finishing" \/ <<w, "ok">> \in pipe \cup seen

Types ==
  /\ queue \in [Workers -> Seq(Tokens \cup {Stop})]
  /\ encoded \in [Workers -> SUBSET Tokens]
  /\ wpc \in [Workers -> {"running", "finishing", "failing", "reported", "exited", "killed"}]
  /\ pipe \subseteq Results
  /\ seen \subseteq Results
  /\ mpc \in {"idle", "drain", "check", "put", "signal", "repoll", "recheck",
              "collect", "exits", "judge", "count", "merge", "closing", "closed"}
  /\ issued \in 0..MaxTokens
  /\ mpc \in {"drain", "check", "put"} => issued > 0
  /\ accepted \subseteq Tokens
  /\ unsent \subseteq Workers
  /\ round \subseteq unsent

StopIsLast ==
  \A w \in Workers : \A i \in 1..Len(queue[w]) :
    queue[w][i] = Stop => i = Len(queue[w]) /\ mpc \notin Dispatching /\ w \notin unsent

DoneAfterStop == \A w \in Workers : Done(w) => mpc \notin Dispatching /\ w \notin unsent

RunningAccounts ==
  \A t \in accepted :
    wpc[Route(t)] = "running" => t \in encoded[Route(t)] \cup Elements(queue[Route(t)])

DoneEncoded == \A t \in accepted : Done(Route(t)) => t \in encoded[Route(t)]

CountedDone == mpc \in {"count", "merge"} => \A w \in Workers : <<w, "ok">> \in seen

IInv ==
  /\ Types
  /\ StopIsLast
  /\ DoneAfterStop
  /\ RunningAccounts
  /\ DoneEncoded
  /\ CountedDone

LEMMA StopIsNoToken == Stop \notin Tokens
  BY PoolAssumption DEF Stop, Tokens

-----------------------------------------------------------------------------
(* One lemma per group of actions *)

LEMMA TakeInv ==
  ASSUME IInv, NEW w \in Workers, Take(w)
  PROVE  IInv'
<1> USE DEF WorkerGoto, caller
<1>0. /\ encoded \in [Workers -> SUBSET Tokens]
      /\ wpc \in [Workers -> {"running", "finishing", "failing", "reported", "exited", "killed"}]
      /\ accepted \subseteq Tokens
  BY DEF IInv, Types
<1>1. /\ queue[w] \in Seq(Tokens \cup {Stop})
      /\ queue[w] # <<>>
      /\ queue' = [queue EXCEPT ![w] = Tail(queue[w])]
  BY DEF Take, IInv, Types
<1>2. /\ Head(queue[w]) \in Tokens \cup {Stop}
      /\ Head(queue[w]) = queue[w][1]
      /\ Tail(queue[w]) \in Seq(Tokens \cup {Stop})
      /\ Len(Tail(queue[w])) = Len(queue[w]) - 1
      /\ Len(queue[w]) \in Nat \ {0}
      /\ \A i \in 1..Len(Tail(queue[w])) : Tail(queue[w])[i] = queue[w][i + 1]
      /\ Elements(queue[w]) = {Head(queue[w])} \cup Elements(Tail(queue[w]))
  BY <1>1, TailElements
<1>3. Types'
  <2>1. queue' \in [Workers -> Seq(Tokens \cup {Stop})]
    BY <1>1, <1>2 DEF IInv, Types
  <2>2. encoded' \in [Workers -> SUBSET Tokens]
    <3>1. Head(queue[w]) # Stop => encoded[w] \cup {Head(queue[w])} \in SUBSET Tokens
      BY <1>2 DEF IInv, Types
    <3>2. QED
      BY <3>1 DEF Take, IInv, Types
  <2>3. wpc' \in [Workers -> {"running", "finishing", "failing", "reported", "exited", "killed"}]
    BY DEF Take, IInv, Types
  <2>4. QED
    BY <2>1, <2>2, <2>3 DEF Take, IInv, Types
<1>4. StopIsLast'
  <2> SUFFICES ASSUME NEW v \in Workers, NEW i \in 1..Len(queue'[v]), queue'[v][i] = Stop
               PROVE  i = Len(queue'[v]) /\ mpc' \notin Dispatching /\ v \notin unsent'
    BY DEF StopIsLast
  <2>1. CASE v = w
    <3>1. queue'[v] = Tail(queue[w])
      BY <1>1, <2>1 DEF IInv, Types
    <3>2. i \in 1..Len(Tail(queue[w])) /\ Tail(queue[w])[i] = Stop
      BY <3>1
    <3>3. i + 1 \in 1..Len(queue[w]) /\ queue[w][i + 1] = Stop
      BY <1>2, <3>2
    <3>4. i + 1 = Len(queue[w]) /\ mpc \notin Dispatching /\ w \notin unsent
      BY <3>3 DEF IInv, StopIsLast
    <3>5. i = Len(queue'[v])
      <4>1. i \in Nat /\ i = Len(Tail(queue[w]))
        BY <1>2, <3>2, <3>4
      <4>2. QED
        BY <4>1, <3>1
    <3>6. QED
      BY <2>1, <3>4, <3>5 DEF Take
  <2>2. CASE v # w
    <3>1. queue'[v] = queue[v]
      BY <1>1, <2>2 DEF IInv, Types
    <3>2. QED
      BY <3>1 DEF Take, IInv, StopIsLast
  <2>3. QED
    BY <2>1, <2>2
\* A worker that takes the sentinel has an empty queue.
<1>5. ASSUME wpc'[w] = "finishing"
      PROVE  /\ Head(queue[w]) = Stop
             /\ mpc \notin Dispatching /\ w \notin unsent
             /\ Elements(Tail(queue[w])) = {}
  <2>1. wpc[w] = "running" /\ Head(queue[w]) = Stop
    BY <1>0, <1>5 DEF Take
  <2>2. 1 = Len(queue[w]) /\ mpc \notin Dispatching /\ w \notin unsent
    <3>1. 1 \in 1..Len(queue[w]) /\ queue[w][1] = Stop
      BY <1>2, <2>1
    <3>2. QED
      BY <3>1 DEF IInv, StopIsLast
  <2>3. Len(Tail(queue[w])) = 0
    BY <1>2, <2>2
  <2>4. Elements(Tail(queue[w])) = {}
    BY <2>3 DEF Elements
  <2>5. QED
    BY <2>1, <2>2, <2>4
<1>6. DoneAfterStop'
  BY <1>0, <1>5 DEF Take, IInv, DoneAfterStop, Done
<1>7. \A v \in Workers : v # w => /\ wpc'[v] = wpc[v]
                                  /\ queue'[v] = queue[v]
                                  /\ encoded'[v] = encoded[v]
  <2> SUFFICES ASSUME NEW v \in Workers, v # w
               PROVE  wpc'[v] = wpc[v] /\ queue'[v] = queue[v] /\ encoded'[v] = encoded[v]
    OBVIOUS
  <2>1. queue'[v] = queue[v]
    BY <1>1 DEF IInv, Types
  <2>2. wpc'[v] = wpc[v] /\ encoded'[v] = encoded[v]
    BY <1>0 DEF Take
  <2>3. QED
    BY <2>1, <2>2
<1>8. RunningAccounts'
  <2> SUFFICES ASSUME NEW t \in accepted, wpc'[Route(t)] = "running"
               PROVE  t \in encoded'[Route(t)] \cup Elements(queue'[Route(t)])
    BY DEF Take, IInv, RunningAccounts
  <2>1. Route(t) \in Workers
    BY <1>0, RouteType
  <2>2. CASE Route(t) # w
    BY <1>7, <2>1, <2>2 DEF IInv, RunningAccounts
  <2>3. CASE Route(t) = w
    <3>1. t \in encoded[w] \cup {Head(queue[w])} \cup Elements(Tail(queue[w]))
      BY <1>2, <2>3 DEF Take, IInv, RunningAccounts
    <3>2. encoded'[w] = encoded[w] \cup {Head(queue[w])}
      BY <1>0, <2>3 DEF Take
    <3>3. queue'[w] = Tail(queue[w])
      BY <1>1 DEF IInv, Types
    <3>4. QED
      BY <2>3, <3>1, <3>2, <3>3
  <2>4. QED
    BY <2>2, <2>3
<1>9. DoneEncoded'
  <2> SUFFICES ASSUME NEW t \in accepted, Done(Route(t))'
               PROVE  t \in encoded'[Route(t)]
    BY DEF Take, IInv, DoneEncoded
  <2>1. Route(t) \in Workers
    BY <1>0, RouteType
  <2>2. encoded[Route(t)] \subseteq encoded'[Route(t)]
    BY <1>0, <2>1 DEF Take
  <2>3. CASE Done(Route(t))
    BY <2>2, <2>3 DEF IInv, DoneEncoded
  <2>4. CASE ~Done(Route(t))
    <3>1. Route(t) = w /\ wpc'[w] = "finishing" /\ wpc[w] = "running"
      BY <1>0, <2>1, <2>4 DEF Take, Done
    <3>2. t \in encoded[w] \cup Elements(queue[w])
      BY <3>1 DEF IInv, RunningAccounts
    <3>3. t # Stop
      BY <1>0, StopIsNoToken
    <3>4. QED
      BY <1>2, <1>5, <2>2, <3>1, <3>2, <3>3
  <2>5. QED
    BY <2>3, <2>4
<1>10. CountedDone'
  BY DEF Take, IInv, CountedDone
<1>11. QED
  BY <1>3, <1>4, <1>6, <1>8, <1>9, <1>10 DEF IInv

\* Steps that leave the queues and what was accepted and encoded alone.
LEMMA QuietInv ==
  ASSUME IInv, Types', CountedDone',
         UNCHANGED <<queue, encoded, accepted>>,
         mpc \notin Dispatching => mpc' \notin Dispatching,
         unsent' \subseteq unsent,
         \A w \in Workers : Done(w)' => Done(w),
         \A w \in Workers : wpc'[w] = "running" => wpc[w] = "running"
  PROVE  IInv'
<1>1. accepted \subseteq Tokens
  BY DEF IInv, Types
<1>2. StopIsLast'
  BY DEF IInv, StopIsLast
<1>3. DoneAfterStop'
  BY DEF IInv, DoneAfterStop
<1>4. RunningAccounts'
  BY <1>1, RouteType DEF IInv, RunningAccounts
<1>5. DoneEncoded'
  BY <1>1, RouteType DEF IInv, DoneEncoded
<1>6. QED
  BY <1>2, <1>3, <1>4, <1>5 DEF IInv

LEMMA WorkerInv ==
  ASSUME IInv, NEW w \in Workers, Report(w) \/ Exit(w) \/ Die(w)
  PROVE  IInv'
<1> USE DEF WorkerGoto, caller
<1>1. /\ wpc \in [Workers -> {"running", "finishing", "failing", "reported", "exited", "killed"}]
      /\ pipe \subseteq Results
  BY DEF IInv, Types
<1>2. CASE Report(w)
  <2>1. PICK status \in {"ok", "error"} :
          /\ pipe' = pipe \cup {<<w, status>>}
          /\ status = "ok" => wpc[w] = "finishing"
    BY <1>2 DEF Report
  <2>2. Types'
    BY <1>1, <1>2, <2>1 DEF Report, IInv, Types, Results
  <2>3. \A v \in Workers : Done(v)' => Done(v)
    BY <1>1, <1>2, <2>1 DEF Report, Done
  <2>4. \A v \in Workers : wpc'[v] = "running" => wpc[v] = "running"
    BY <1>1, <1>2 DEF Report
  <2>5. CountedDone'
    BY <1>2 DEF Report, IInv, CountedDone
  <2>6. QED
    BY <1>2, <2>2, <2>3, <2>4, <2>5, QuietInv DEF Report
<1>3. CASE Exit(w) \/ Die(w)
  <2>1. /\ wpc' = [wpc EXCEPT ![w] = "exited"] \/ wpc' = [wpc EXCEPT ![w] = "killed"]
        /\ UNCHANGED <<queue, encoded, pipe, seen, mpc, issued, accepted, unsent, round, raised>>
    BY <1>3 DEF Exit, Die
  <2>2. Types'
    BY <1>1, <2>1 DEF IInv, Types
  <2>3. \A v \in Workers : Done(v)' => Done(v)
    BY <1>1, <2>1 DEF Done
  <2>4. \A v \in Workers : wpc'[v] = "running" => wpc[v] = "running"
    BY <1>1, <2>1
  <2>5. CountedDone'
    BY <2>1 DEF IInv, CountedDone
  <2>6. QED
    BY <2>1, <2>2, <2>3, <2>4, <2>5, QuietInv
<1>4. QED
  BY <1>2, <1>3

\* A task or a sentinel is appended to one queue.
LEMMA PutInv ==
  ASSUME IInv, Put
  PROVE  IInv'
<1> DEFINE t == issued - 1
           w == Route(t)
<1>1. t \in Tokens /\ mpc = "put"
  BY PoolAssumption DEF Put, IInv, Types, Tokens
<1>2. w \in Workers
  BY <1>1, RouteType
<1>3. queue[w] \in Seq(Tokens \cup {Stop})
  BY <1>2 DEF IInv, Types
<1>4. CASE HasRoom(w)
  <2>1. /\ queue' = [queue EXCEPT ![w] = Append(queue[w], t)]
        /\ accepted' = accepted \cup {t}
        /\ mpc' = "idle"
        /\ UNCHANGED <<encoded, wpc, pipe, seen, issued, unsent, round, raised>>
    BY <1>4 DEF Put
  <2> HIDE DEF t, w
  <2>2. queue'[w] = Append(queue[w], t) /\ \A v \in Workers : v # w => queue'[v] = queue[v]
    BY <1>2, <2>1 DEF IInv, Types
  <2>3. /\ Append(queue[w], t) \in Seq(Tokens \cup {Stop})
        /\ Elements(Append(queue[w], t)) = Elements(queue[w]) \cup {t}
    BY <1>1, <1>3, AppendElements
  <2>4. Types'
    <3>1. queue' \in [Workers -> Seq(Tokens \cup {Stop})]
      BY <2>1, <2>3 DEF IInv, Types
    <3>2. QED
      BY <1>1, <2>1, <3>1 DEF IInv, Types
  \* No queue has a sentinel yet.
  <2>5. \A v \in Workers : Stop \notin Elements(queue[v])
    BY <1>1 DEF IInv, StopIsLast, Dispatching, Elements
  <2>6. \A v \in Workers : Stop \notin Elements(queue'[v])
    BY <1>1, <2>2, <2>3, <2>5, StopIsNoToken
  <2>7. StopIsLast'
    BY <2>6 DEF StopIsLast, Elements
  <2>8. \A v \in Workers : ~Done(v)' /\ ~Done(v)
    BY <1>1, <2>1 DEF IInv, DoneAfterStop, Dispatching, Done
  <2>9. accepted \subseteq Tokens
    BY DEF IInv, Types
  <2>10. RunningAccounts'
    <3> SUFFICES ASSUME NEW u \in accepted', wpc'[Route(u)] = "running"
                 PROVE  u \in encoded'[Route(u)] \cup Elements(queue'[Route(u)])
      BY DEF RunningAccounts
    <3>1. CASE u = t
      BY <1>2, <2>2, <2>3, <3>1 DEF w
    <3>2. CASE u # t
      <4>1. u \in accepted /\ Route(u) \in Workers
        BY <2>1, <2>9, <3>2, RouteType
      <4>2. u \in encoded[Route(u)] \cup Elements(queue[Route(u)])
        BY <2>1, <4>1 DEF IInv, RunningAccounts
      <4>3. Elements(queue[Route(u)]) \subseteq Elements(queue'[Route(u)])
        BY <2>2, <2>3, <4>1
      <4>4. QED
        BY <2>1, <4>2, <4>3
    <3>3. QED
      BY <3>1, <3>2
  <2>11. DoneAfterStop' /\ DoneEncoded' /\ CountedDone'
    <3>1. DoneAfterStop'
      BY <2>8 DEF DoneAfterStop
    <3>2. DoneEncoded'
      <4>1. accepted' \subseteq Tokens
        BY <1>1, <2>1, <2>9
      <4>2. QED
        BY <2>8, <4>1, RouteType DEF DoneEncoded
    <3>3. CountedDone'
      BY <2>1 DEF CountedDone
    <3>4. QED
      BY <3>1, <3>2, <3>3
  <2>12. QED
    BY <2>4, <2>7, <2>10, <2>11 DEF IInv
<1>5. CASE ~HasRoom(w)
  <2>1. mpc' = "drain" /\ UNCHANGED <<queue, accepted, encoded, wpc, pipe, seen, issued, unsent, round, raised>>
    BY <1>5 DEF Put
  <2>2. Types'
    BY <1>1, <2>1 DEF IInv, Types
  <2>3. QED
    BY <1>1, <2>1, <2>2, QuietInv DEF CountedDone, Dispatching, Done
<1>6. QED
  BY <1>4, <1>5

\* finish() begins: no sentinel is on any queue.
LEMMA FinishInv ==
  ASSUME IInv, Finish
  PROVE  IInv'
<1>1. /\ mpc = "idle" /\ mpc' = "signal" /\ unsent' = Workers /\ round' = Workers
      /\ UNCHANGED <<queue, encoded, wpc, pipe, seen, issued, accepted>>
  BY DEF Finish, worker
<1>2. Types'
  BY <1>1 DEF IInv, Types
<1>3. \A w \in Workers : ~Done(w)' /\ ~Done(w)
  BY <1>1 DEF IInv, DoneAfterStop, Dispatching, Done
<1>4. StopIsLast'
  BY <1>1 DEF IInv, StopIsLast, Dispatching
<1>5. DoneAfterStop'
  BY <1>3 DEF DoneAfterStop
<1>6. RunningAccounts'
  BY <1>1 DEF IInv, RunningAccounts
<1>7. DoneEncoded'
  BY <1>1 DEF IInv, DoneEncoded, Done
<1>8. CountedDone'
  BY <1>1 DEF CountedDone
<1>9. QED
  BY <1>2, <1>4, <1>5, <1>6, <1>7, <1>8 DEF IInv

\* A queue that gets its sentinel had none, and gets nothing after it.
LEMMA SendSentinelInv ==
  ASSUME IInv, SendSentinel
  PROVE  IInv'
<1>1. PICK w \in round :
        /\ mpc = "signal"
        /\ round' = round \ {w}
        /\ IF HasRoom(w)
           THEN /\ queue' = [queue EXCEPT ![w] = Append(queue[w], Stop)]
                /\ unsent' = unsent \ {w}
           ELSE UNCHANGED <<queue, unsent>>
        /\ UNCHANGED <<encoded, wpc, pipe, seen, mpc, issued, accepted, raised>>
  BY DEF SendSentinel
<1>2. w \in unsent
  BY DEF IInv, Types
<1>3. CASE HasRoom(w) /\ w \in Workers
  <2>1. queue[w] \in Seq(Tokens \cup {Stop})
    BY <1>3 DEF IInv, Types
  <2>2. queue'[w] = Append(queue[w], Stop) /\ \A v \in Workers : v # w => queue'[v] = queue[v]
    BY <1>1, <1>3 DEF IInv, Types
  <2>3. /\ Append(queue[w], Stop) \in Seq(Tokens \cup {Stop})
        /\ Len(Append(queue[w], Stop)) = Len(queue[w]) + 1
        /\ \A i \in 1..Len(queue[w]) : Append(queue[w], Stop)[i] = queue[w][i]
        /\ Elements(Append(queue[w], Stop)) = Elements(queue[w]) \cup {Stop}
    BY <2>1, AppendElements
  <2>4. Types'
    <3>1. queue' \in [Workers -> Seq(Tokens \cup {Stop})]
      BY <1>1, <1>3, <2>3 DEF IInv, Types
    <3>2. round' \subseteq unsent'
      BY <1>1, <1>3 DEF IInv, Types
    <3>3. QED
      BY <1>1, <3>1, <3>2 DEF IInv, Types
  <2>5. \A i \in 1..Len(queue[w]) : queue[w][i] # Stop
    BY <1>2, <1>3 DEF IInv, StopIsLast
  <2>6. StopIsLast'
    <3> SUFFICES ASSUME NEW v \in Workers, NEW i \in 1..Len(queue'[v]), queue'[v][i] = Stop
                 PROVE  i = Len(queue'[v]) /\ mpc' \notin Dispatching /\ v \notin unsent'
      BY DEF StopIsLast
    <3>1. mpc' \notin Dispatching
      BY <1>1 DEF Dispatching
    <3>2. CASE v = w
      <4>1. Len(queue[w]) \in Nat
        BY <2>1, LenProperties
      <4>2. i \in 1..Len(queue[w]) \/ i = Len(queue[w]) + 1
        BY <2>2, <2>3, <3>2, <4>1
      <4>3. i = Len(queue'[v])
        BY <2>2, <2>3, <2>5, <3>2, <4>2
      <4>4. QED
        BY <1>1, <1>3, <3>1, <3>2, <4>3
    <3>3. CASE v # w
      <4>1. queue'[v] = queue[v]
        BY <2>2, <3>3
      <4>2. i = Len(queue[v]) /\ v \notin unsent
        BY <4>1 DEF IInv, StopIsLast
      <4>3. QED
        BY <1>1, <1>3, <3>1, <4>1, <4>2
    <3>4. QED
      BY <3>2, <3>3
  <2>7. DoneAfterStop'
    BY <1>1, <1>3 DEF IInv, DoneAfterStop, Done
  <2>8. RunningAccounts'
    <3> SUFFICES ASSUME NEW t \in accepted, wpc[Route(t)] = "running"
                 PROVE  t \in encoded[Route(t)] \cup Elements(queue'[Route(t)])
      BY <1>1 DEF RunningAccounts
    <3>1. Route(t) \in Workers
      BY RouteType DEF IInv, Types
    <3>2. Elements(queue[Route(t)]) \subseteq Elements(queue'[Route(t)])
      BY <2>2, <2>3, <3>1
    <3>3. QED
      BY <3>2 DEF IInv, RunningAccounts
  <2>9. DoneEncoded' /\ CountedDone'
    BY <1>1 DEF IInv, DoneEncoded, CountedDone, Done
  <2>10. QED
    BY <2>4, <2>6, <2>7, <2>8, <2>9 DEF IInv
<1>4. CASE ~HasRoom(w)
  <2>1. Types'
    BY <1>1, <1>4 DEF IInv, Types
  <2>2. QED
    BY <1>1, <1>4, <2>1, QuietInv DEF CountedDone, Done
<1>5. QED
  BY <1>2, <1>3, <1>4 DEF IInv, Types

\* The caller's thread looks at results and exit codes, or takes a result.
LEMMA LookInv ==
  ASSUME IInv,
         \/ PollWorkers \/ CheckWorkers \/ PollSignalled \/ CheckSignalled
         \/ EndPass \/ Stall \/ (\E r \in pipe : GetResult(r)) \/ GetTimeout \/ CheckFinished
  PROVE  IInv'
<1>1. pipe \subseteq Results /\ seen \subseteq Results
  BY DEF IInv, Types
<1>2. CASE PollWorkers \/ PollSignalled
  <2>1. /\ \/ mpc = "drain" /\ mpc' \in {"check", "idle"}
           \/ mpc = "repoll" /\ mpc' \in {"recheck", "closing"}
        /\ seen' = seen \cup pipe
        /\ pipe' = {}
        /\ UNCHANGED <<queue, encoded, wpc, issued, accepted, unsent, round>>
    BY <1>2 DEF PollWorkers, PollSignalled, Poll
  <2>2. Types'
    BY <1>1, <2>1 DEF IInv, Types
  <2>3. QED
    BY <2>1, <2>2, QuietInv DEF Dispatching, Done, CountedDone
<1>3. CASE CheckWorkers \/ CheckSignalled
  <2>1. /\ \/ mpc = "check" /\ mpc' \in {"put", "idle"} /\ round' = round
           \/ mpc = "recheck" /\ mpc' \in {"signal", "closing"} /\ round' = unsent
        /\ UNCHANGED <<queue, encoded, wpc, pipe, seen, issued, accepted, unsent>>
    BY <1>3 DEF CheckWorkers, CheckSignalled, CheckExits, worker
  <2>2. Types'
    BY <2>1 DEF IInv, Types
  <2>3. QED
    BY <2>1, <2>2, QuietInv DEF Dispatching, Done, CountedDone
<1>4. CASE EndPass \/ Stall
  <2>1. /\ mpc \in {"signal", "recheck", "exits"} /\ mpc' \in {"collect", "repoll", "closing"}
        /\ UNCHANGED <<queue, encoded, wpc, pipe, seen, issued, accepted, unsent, round>>
    BY <1>4 DEF EndPass, Stall, worker
  <2>2. Types'
    BY <2>1 DEF IInv, Types
  <2>3. QED
    BY <2>1, <2>2, QuietInv DEF Dispatching, Done, CountedDone
<1>5. ASSUME NEW r \in pipe, GetResult(r)
      PROVE  IInv'
  <2>1. /\ mpc = "collect" /\ pipe' = pipe \ {r} /\ seen' = seen \cup {r}
        /\ UNCHANGED <<queue, encoded, wpc, mpc, issued, accepted, unsent, round>>
    BY <1>5 DEF GetResult
  <2>2. Types'
    BY <1>1, <2>1 DEF IInv, Types
  <2>3. QED
    BY <2>1, <2>2, QuietInv DEF Dispatching, Done, CountedDone
<1>6. CASE GetTimeout \/ CheckFinished
  <2>1. /\ mpc \in {"collect", "exits"} /\ mpc' \in {"judge", "exits", "collect"}
        /\ pipe' \cup seen' = pipe \cup seen
        /\ UNCHANGED <<queue, encoded, wpc, issued, accepted, unsent, round>>
    BY <1>6 DEF GetTimeout, CheckFinished, worker
  <2>2. Types'
    BY <1>1, <2>1 DEF IInv, Types
  <2>3. QED
    BY <2>1, <2>2, QuietInv DEF Dispatching, Done, CountedDone
<1>7. QED
  BY <1>2, <1>3, <1>4, <1>5, <1>6

\* finish() returns when every worker has reported ok.
LEMMA JudgeInv ==
  ASSUME IInv, Judge
  PROVE  IInv'
<1>1. /\ mpc = "judge" /\ mpc' \in {"closing", "count"}
      /\ UNCHANGED <<queue, encoded, wpc, pipe, seen, issued, accepted, unsent, round>>
  BY DEF Judge, worker
<1>2. Types'
  BY <1>1 DEF IInv, Types
<1>3. CountedDone'
  <2> SUFFICES ASSUME mpc' = "count", NEW w \in Workers
               PROVE  <<w, "ok">> \in seen
    BY <1>1 DEF CountedDone
  <2>1. Reported = Workers /\ \A r \in seen : r[2] # "error"
    BY DEF Judge
  <2>2. PICK r \in seen : r[1] = w
    BY <2>1 DEF Reported
  <2>3. r = <<w, "ok">>
    BY <2>1, <2>2 DEF IInv, Types, Results
  <2>4. QED
    BY <2>3
<1>4. QED
  BY <1>1, <1>2, <1>3, QuietInv DEF Dispatching, Done

LEMMA EndInv ==
  ASSUME IInv, Save \/ CountTasks \/ Leave \/ Close \/ UNCHANGED vars
  PROVE  IInv'
<1>1. CASE Save
  <2>1. /\ mpc = "idle" /\ mpc' \in {"drain", "idle"} /\ issued < MaxTokens /\ issued' = issued + 1
        /\ UNCHANGED <<queue, encoded, wpc, pipe, seen, accepted, unsent, round>>
    BY <1>1 DEF Save, worker
  <2>2. Types'
    BY <2>1, PoolAssumption DEF IInv, Types
  <2>3. QED
    BY <2>1, <2>2, QuietInv DEF Dispatching, Done, CountedDone
<1>2. CASE CountTasks \/ Leave
  <2>1. /\ \/ mpc = "count" /\ mpc' \in {"merge", "closing"}
           \/ mpc \in {"idle", "merge"} /\ mpc' = "closing"
        /\ UNCHANGED <<queue, encoded, wpc, pipe, seen, issued, accepted, unsent, round>>
    BY <1>2 DEF CountTasks, Leave, worker
  <2>2. Types'
    BY <2>1 DEF IInv, Types
  <2>3. CountedDone'
    BY <2>1 DEF IInv, CountedDone
  <2>4. QED
    BY <2>1, <2>2, <2>3, QuietInv DEF Dispatching, Done
<1>3. CASE Close
  <2>1. /\ mpc = "closing" /\ mpc' = "closed"
        /\ wpc' = [w \in Workers |-> IF w \in Gone THEN wpc[w] ELSE "killed"]
        /\ UNCHANGED <<queue, encoded, pipe, seen, issued, accepted, unsent, round>>
    BY <1>3 DEF Close
  <2>2. wpc \in [Workers -> {"running", "finishing", "failing", "reported", "exited", "killed"}]
    BY DEF IInv, Types
  <2>3. Types'
    BY <2>1, <2>2 DEF IInv, Types
  <2>4. \A w \in Workers : wpc'[w] # "running" /\ wpc'[w] # "finishing"
    BY <2>1, <2>2 DEF Gone
  <2>5. QED
    BY <2>1, <2>3, <2>4, QuietInv DEF Dispatching, Done, CountedDone
<1>4. CASE UNCHANGED vars
  <2>1. UNCHANGED <<queue, encoded, wpc, pipe, seen, mpc, issued, accepted, unsent, round>>
    BY <1>4 DEF vars, worker, caller
  <2>2. Types' /\ CountedDone'
    BY <2>1 DEF IInv, Types, CountedDone
  <2>3. QED
    BY <2>1, <2>2, QuietInv DEF Done
<1>5. QED
  BY <1>1, <1>2, <1>3, <1>4

-----------------------------------------------------------------------------

LEMMA InductiveInvariant == Spec => []IInv
<1>1. Init => IInv
  <2> SUFFICES ASSUME Init PROVE IInv
    OBVIOUS
  <2>1. queue \in [Workers -> Seq(Tokens \cup {Stop})]
    BY EmptySeq DEF Init
  <2>2. Types
    BY <2>1, PoolAssumption DEF Init, Types
  <2>3. \A w \in Workers : Len(queue[w]) = 0
    BY EmptySeq DEF Init
  <2>4. StopIsLast
    BY <2>3 DEF StopIsLast
  <2>5. DoneAfterStop /\ RunningAccounts /\ DoneEncoded /\ CountedDone
    BY DEF Init, DoneAfterStop, RunningAccounts, DoneEncoded, CountedDone, Done
  <2>6. QED
    BY <2>2, <2>4, <2>5 DEF IInv
<1>2. IInv /\ [Next]_vars => IInv'
  BY TakeInv, WorkerInv, PutInv, FinishInv, SendSentinelInv, LookInv, JudgeInv, EndInv
  DEF Next, WorkerStep, CallerStep
<1>3. QED
  BY <1>1, <1>2, PTL DEF Spec

\* Whenever finish() has returned its manifests, they hold every record that
\* was put on a queue: for any number of workers, any queue size and any
\* deaths, failures and delays of the workers.
THEOREM ManifestsCompleteHolds == Spec => []ManifestsComplete
<1>1. IInv => ManifestsComplete
  <2> SUFFICES ASSUME IInv, mpc \in {"count", "merge"}, NEW t \in accepted
               PROVE  t \in encoded[Route(t)]
    BY DEF ManifestsComplete
  <2>1. Route(t) \in Workers
    BY RouteType DEF IInv, Types
  <2>2. Done(Route(t))
    BY <2>1 DEF IInv, CountedDone, Done
  <2>3. QED
    BY <2>2 DEF IInv, DoneEncoded
<1>2. QED
  BY <1>1, InductiveInvariant, PTL

-----------------------------------------------------------------------------
(* The queues stay bounded *)

Bounded ==
  /\ \A w \in Workers : Len(queue[w]) <= QueueSize
  /\ raised \subseteq {"crash", "error", "stall", "lost"}

LEMMA BoundedStep ==
  ASSUME IInv, Bounded, [Next]_vars
  PROVE  Bounded'
<1> USE PoolAssumption DEF Bounded, worker, caller
<1>1. \A w \in Workers : queue[w] \in Seq(Tokens \cup {Stop}) /\ Len(queue[w]) \in Nat
  BY LenProperties DEF IInv, Types
<1>2. queue \in [Workers -> Seq(Tokens \cup {Stop})]
  BY DEF IInv, Types
<1>3. ASSUME NEW w \in Workers, NEW x \in Tokens \cup {Stop}, HasRoom(w),
             queue' = [queue EXCEPT ![w] = Append(queue[w], x)],
             raised' = raised
      PROVE  Bounded'
  <2>1. Len(Append(queue[w], x)) = Len(queue[w]) + 1
    BY <1>1, AppendElements
  <2>2. QED
    BY <1>1, <1>2, <1>3, <2>1 DEF HasRoom
<1>4. ASSUME NEW w \in Workers, Take(w)
      PROVE  Bounded'
  <2>1. queue' = [queue EXCEPT ![w] = Tail(queue[w])] /\ queue[w] # <<>>
    BY <1>4 DEF Take
  <2>2. Len(Tail(queue[w])) = Len(queue[w]) - 1
    BY <1>1, <2>1, TailElements
  <2>3. raised' = raised
    BY <1>4 DEF Take
  <2>4. QED
    BY <1>1, <1>2, <2>1, <2>2, <2>3
<1>5. ASSUME NEW w \in Workers, Report(w) \/ Exit(w) \/ Die(w)
      PROVE  Bounded'
  BY <1>5 DEF Report, Exit, Die
<1>6. CASE Put
  <2>1. issued - 1 \in Tokens
    BY <1>6 DEF Put, IInv, Types, Tokens
  <2>2. Route(issued - 1) \in Workers
    BY <2>1, RouteType
  <2>3. CASE HasRoom(Route(issued - 1))
    BY <1>3, <1>6, <2>1, <2>2, <2>3 DEF Put
  <2>4. CASE ~HasRoom(Route(issued - 1))
    BY <1>6, <2>4 DEF Put
  <2>5. QED
    BY <2>3, <2>4
<1>7. CASE SendSentinel
  <2>1. PICK w \in round :
          IF HasRoom(w) THEN queue' = [queue EXCEPT ![w] = Append(queue[w], Stop)]
                        ELSE queue' = queue
    BY <1>7 DEF SendSentinel
  <2>2. w \in Workers /\ raised' = raised
    BY <1>7 DEF SendSentinel, IInv, Types
  <2>3. CASE HasRoom(w)
    BY <1>3, <2>1, <2>2, <2>3
  <2>4. CASE ~HasRoom(w)
    BY <2>1, <2>2, <2>4
  <2>5. QED
    BY <2>3, <2>4
<1>8. CASE PollWorkers \/ CheckWorkers \/ PollSignalled \/ CheckSignalled \/ Stall
  BY <1>8 DEF PollWorkers, CheckWorkers, PollSignalled, CheckSignalled, Poll, CheckExits, Stall
<1>9. CASE Save \/ Finish \/ EndPass \/ GetTimeout \/ CheckFinished \/ Leave
  BY <1>9 DEF Save, Finish, EndPass, GetTimeout, CheckFinished, Leave
<1>10. ASSUME NEW r \in pipe, GetResult(r)
       PROVE  Bounded'
  BY <1>10 DEF GetResult
<1>11. CASE Judge \/ CountTasks \/ Close
  BY <1>11 DEF Judge, CountTasks, Close
<1>12. CASE UNCHANGED vars
  BY <1>12 DEF vars
<1>13. QED
  BY <1>4, <1>5, <1>6, <1>7, <1>8, <1>9, <1>10, <1>11, <1>12 DEF Next, WorkerStep, CallerStep

\* The state stays typed; in particular no task queue outgrows its bound, so
\* the memory of an ingest is bounded whatever the workers do.
THEOREM TypeCorrect == Spec => []TypeOK
<1>1. Init => Bounded
  <2> SUFFICES ASSUME Init PROVE Bounded
    OBVIOUS
  <2>1. \A w \in Workers : Len(queue[w]) = 0
    BY EmptySeq DEF Init
  <2>2. QED
    BY <2>1, PoolAssumption DEF Init, Bounded
<1>2. IInv /\ Bounded => TypeOK
  BY DEF IInv, Types, Bounded, TypeOK
<1>3. QED
  BY <1>1, <1>2, BoundedStep, InductiveInvariant, PTL DEF Spec
=============================================================================
