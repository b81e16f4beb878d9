-------------------------- MODULE DaemonLoopProofs ---------------------------
(***************************************************************************)
(* Proofs about DaemonLoop, for every number of block workers, of daemon   *)
(* iterations alive at once and of jobs, and for every height of the       *)
(* node's chain.                                                           *)
(***************************************************************************)
EXTENDS DaemonLoop, TLAPS

-----------------------------------------------------------------------------
(* The inductive invariant.                                                *)

\* Where a goroutine of each kind can be.
Kinds ==
  /\ \A w \in Workers : pc[w] \in {"gone", "receive", "work", "reply"}
  /\ \A i \in Iterations : pc[i] \in {"gone", "count", "loop", "send", "wait", "tail"}

\* The stop group counts exactly the goroutines that exist.
Counted == \A g \in Goroutines : g \in counted <=> pc[g] # "gone"

\* What the state of the process says of the stop channel and of the group.
Phases ==
  /\ main \in {"boot", "run"} => ~stopped
  /\ main = "exited" => counted = {}

\* No height is ahead of the node.
Bounded == \A g \in Workers \cup Iterations : height[g] <= nodeHeight

\* The flag is held by one iteration at most, and it stays set while a worker
\* has a block, also after the iteration that waited for it has gone.
Flag ==
  /\ \A i, j \in InHandshake : i = j
  /\ InHandshake # {} => running
  /\ Busy # {} => running

\* The block of a worker is the one its iteration waits for.
Paired ==
  /\ \A w \in Busy, i \in InHandshake : pc[i] = "wait"
  /\ \A i \in Iterations : pc[i] \in {"send", "wait"} => inflight = height[i]
  /\ \A w \in Workers, i \in Iterations :
       pc[w] = "work" /\ pc[i] = "wait" => height[i] = height[w]
  /\ ~stopped /\ Busy # {} => \E i \in Iterations : pc[i] = "wait"

\* An iteration whose hand-over timed out returned without resetting the flag:
\* the flag stays set, and neither an iteration nor a worker has a block.
Wedged == wedged => running /\ InHandshake = {} /\ Busy = {}

IInv ==
  /\ TypeOK /\ Kinds /\ Counted /\ Phases /\ Bounded
  /\ Flag /\ OneInFlight /\ Paired /\ Wedged

-----------------------------------------------------------------------------
(* Every step preserves it.                                                *)

\* The names of the goroutines of different kinds are different.
LEMMA Names ==
  /\ Workers \subseteq Goroutines /\ Iterations \subseteq Goroutines
  /\ Tickers \subseteq Goroutines /\ Runs \subseteq Goroutines
  /\ Singles \subseteq Goroutines
  /\ \A s \in Singles : s \notin Workers /\ s \notin Iterations /\ s \notin Tickers /\ s \notin Runs
  /\ \A w \in Workers : w \notin Iterations /\ w \notin Tickers /\ w \notin Runs
  /\ \A i \in Iterations : i \notin Tickers /\ i \notin Runs
  BY NamesAssumption DEF Goroutines

USE DEF Singles, Heights, None, Places, heightVars, flagVars, config, Alive, At,
        Goto, Spawn, ExitAndSpawn, Exit, Kill, Offer, Cleared, Finish

\* It holds before DoYourThing starts anything.
LEMMA InitIInv == Init => IInv
<1> SUFFICES ASSUME Init PROVE IInv
  OBVIOUS
<1>1. TypeOK
  <2>1. timeout \in BOOLEAN /\ exitOnTimeout \in BOOLEAN
    BY Zenon DEF Init
  <2>2. pc \in [Goroutines -> Places] /\ counted \subseteq Goroutines
    BY DEF Init
  <2>3. /\ height \in [Workers \cup Iterations -> Heights]
        /\ inflight \in Heights \cup {None}
        /\ nodeHeight \in Heights
        /\ blockHeight \in 0..nodeHeight
        /\ lastHeightProcessed \in 0..nodeHeight
    BY HeightAssumption DEF Init
  <2>4. /\ main = "boot"
        /\ stopped \in BOOLEAN /\ running \in BOOLEAN /\ wedged \in BOOLEAN
        /\ jobsInitialized \in BOOLEAN
    BY DEF Init
  <2>5. QED
    BY <2>1, <2>2, <2>3, <2>4 DEF TypeOK
<1>2. Kinds /\ Counted /\ Phases /\ Bounded
  BY Names, HeightAssumption DEF Init, Kinds, Counted, Phases, Bounded
<1>3. Busy = {} /\ InHandshake = {} /\ \A i \in Iterations : pc[i] = "gone"
  BY Names DEF Init, Busy, InHandshake
<1>4. Flag /\ OneInFlight /\ Paired /\ Wedged
  BY <1>3 DEF Init, Flag, OneInFlight, Paired, Wedged
<1>5. QED
  BY <1>1, <1>2, <1>4 DEF IInv

\* Every step of every goroutine keeps the types, the places of the goroutines
\* and the heights within the node's chain.
LEMMA TypeStep == IInv /\ [Next]_vars => (TypeOK /\ Kinds /\ Bounded)'
<1> SUFFICES ASSUME IInv, [Next]_vars PROVE (TypeOK /\ Kinds /\ Bounded)'
  OBVIOUS
<1> USE Names, HeightAssumption DEF IInv, TypeOK, Kinds, Bounded
<1>1. ASSUME Boot PROVE (TypeOK /\ Kinds /\ Bounded)'
  BY <1>1 DEF Boot
<1>2. ASSUME Interrupt PROVE (TypeOK /\ Kinds /\ Bounded)'
  BY <1>2 DEF Interrupt
<1>3. ASSUME Wait PROVE (TypeOK /\ Kinds /\ Bounded)'
  BY <1>3 DEF Wait
<1>4. ASSUME InitDaemon PROVE (TypeOK /\ Kinds /\ Bounded)'
  BY <1>4 DEF InitDaemon
<1>5. ASSUME InitJobs PROVE (TypeOK /\ Kinds /\ Bounded)'
  BY <1>5 DEF InitJobs
<1>6. ASSUME NodeGrows PROVE (TypeOK /\ Kinds /\ Bounded)'
  BY <1>6 DEF NodeGrows
<1>7. ASSUME WatchdogFires PROVE (TypeOK /\ Kinds /\ Bounded)'
  BY <1>7 DEF WatchdogFires
<1>8. ASSUME NEW i \in Iterations, Tick(i) PROVE (TypeOK /\ Kinds /\ Bounded)'
  BY <1>8 DEF Tick
<1>9. ASSUME NEW i \in Iterations, CountFails(i) PROVE (TypeOK /\ Kinds /\ Bounded)'
  BY <1>9 DEF CountFails
<1>10. ASSUME NEW i \in Iterations, Count(i) PROVE (TypeOK /\ Kinds /\ Bounded)'
  BY <1>10 DEF Count
<1>11. ASSUME NEW i \in Iterations, Turn(i) PROVE (TypeOK /\ Kinds /\ Bounded)'
  <2>1. CASE /\ blockHeight >= lastHeightProcessed + 1
             /\ Offer(i, lastHeightProcessed + 1)
             /\ UNCHANGED running
    <3>1. lastHeightProcessed + 1 \in 0..nodeHeight
      BY <2>1
    <3>2. lastHeightProcessed + 1 \in Heights
      BY <3>1
    <3>3. QED
      BY <1>11, <2>1, <3>1, <3>2 DEF Turn
  <2>2. CASE Finish(i) /\ UNCHANGED <<height, inflight>>
    BY <1>11, <2>2 DEF Turn
  <2>3. QED
    BY <1>11, <2>1, <2>2 DEF Turn
<1>12. ASSUME NEW i \in Iterations, GiveUp(i) PROVE (TypeOK /\ Kinds /\ Bounded)'
  BY <1>12 DEF GiveUp
<1>13. ASSUME NEW i \in Iterations, Tail(i) PROVE (TypeOK /\ Kinds /\ Bounded)'
  BY <1>13 DEF Tail
<1>14. ASSUME NEW i \in Iterations, SendTimeout(i) PROVE (TypeOK /\ Kinds /\ Bounded)'
  <2>1. CASE exitOnTimeout
    BY <1>14, <2>1 DEF SendTimeout
  <2>2. CASE ~exitOnTimeout
    <3>1. pc' \in [Goroutines -> Places] /\ Kinds'
      BY <1>14, <2>2 DEF SendTimeout
    <3>2. QED
      BY <1>14, <2>2, <3>1 DEF SendTimeout
  <2>3. QED
    BY <2>1, <2>2
<1>15. ASSUME NEW i \in Iterations, WaitTimeout(i) PROVE (TypeOK /\ Kinds /\ Bounded)'
  BY <1>15 DEF WaitTimeout
<1>16. ASSUME NEW i \in Iterations, NEW w \in Workers, Send(i, w) PROVE (TypeOK /\ Kinds /\ Bounded)'
  BY <1>16 DEF Send
<1>17. ASSUME NEW i \in Iterations, NEW w \in Workers, Answer(i, w) PROVE (TypeOK /\ Kinds /\ Bounded)'
  <2>1. pc' \in [Goroutines -> Places] /\ Kinds'
    BY <1>17 DEF Answer
  <2>2. height' \in [Workers \cup Iterations -> Heights] /\ Bounded'
    BY <1>17 DEF Answer
  <2>3. lastHeightProcessed' \in 0..nodeHeight
    BY <1>17 DEF Answer
  <2>4. running' \in BOOLEAN
    BY <1>17 DEF Answer
  <2>5. QED
    BY <1>17, <2>1, <2>2, <2>3, <2>4 DEF Answer
<1>18. ASSUME NEW w \in Workers, Work(w) PROVE (TypeOK /\ Kinds /\ Bounded)'
  BY <1>18 DEF Work
<1>19. ASSUME NEW j \in Tickers, NEW r \in Runs, RunJob(j, r) PROVE (TypeOK /\ Kinds /\ Bounded)'
  BY <1>19 DEF RunJob
<1>20. ASSUME NEW r \in Runs, JobEnds(r) PROVE (TypeOK /\ Kinds /\ Bounded)'
  BY <1>20 DEF JobEnds
<1>21. ASSUME NEW g \in Goroutines, Stop(g) PROVE (TypeOK /\ Kinds /\ Bounded)'
  BY <1>21 DEF Stop
<1>22. CASE UNCHANGED vars
  BY <1>22 DEF vars
<1> QED
  BY <1>1, <1>2, <1>3, <1>4, <1>5, <1>6, <1>7, <1>8, <1>9, <1>10, <1>11, <1>12, <1>13, <1>14, <1>15, <1>16, <1>17, <1>18, <1>19, <1>20, <1>21, <1>22 DEF Next, Iteration, Timeouts

\* AddNamed before every go statement, and Done on every return: the group
\* counts the goroutines that exist.
LEMMA CountedStep == IInv /\ [Next]_vars => (Counted /\ Phases)'
<1> SUFFICES ASSUME IInv, [Next]_vars PROVE (Counted /\ Phases)'
  OBVIOUS
<1> USE Names DEF IInv, TypeOK, Counted, Phases
<1>1. ASSUME Boot PROVE (Counted /\ Phases)'
  BY <1>1 DEF Boot
<1>2. ASSUME Interrupt PROVE (Counted /\ Phases)'
  BY <1>2 DEF Interrupt
<1>3. ASSUME Wait PROVE (Counted /\ Phases)'
  BY <1>3 DEF Wait
<1>4. ASSUME InitDaemon PROVE (Counted /\ Phases)'
  BY <1>4 DEF InitDaemon
<1>5. ASSUME InitJobs PROVE (Counted /\ Phases)'
  BY <1>5 DEF InitJobs
<1>6. ASSUME NodeGrows PROVE (Counted /\ Phases)'
  BY <1>6 DEF NodeGrows
<1>7. ASSUME WatchdogFires PROVE (Counted /\ Phases)'
  BY <1>7 DEF WatchdogFires
<1>8. ASSUME NEW i \in Iterations, Tick(i) PROVE (Counted /\ Phases)'
  BY <1>8 DEF Tick
<1>9. ASSUME NEW i \in Iterations, CountFails(i) PROVE (Counted /\ Phases)'
  BY <1>9 DEF CountFails
<1>10. ASSUME NEW i \in Iterations, Count(i) PROVE (Counted /\ Phases)'
  BY <1>10 DEF Count
<1>11. ASSUME NEW i \in Iterations, Turn(i) PROVE (Counted /\ Phases)'
  BY <1>11 DEF Turn
<1>12. ASSUME NEW i \in Iterations, GiveUp(i) PROVE (Counted /\ Phases)'
  BY <1>12 DEF GiveUp
<1>13. ASSUME NEW i \in Iterations, Tail(i) PROVE (Counted /\ Phases)'
  BY <1>13 DEF Tail
<1>14. ASSUME NEW i \in Iterations, SendTimeout(i) PROVE (Counted /\ Phases)'
  BY <1>14 DEF SendTimeout
<1>15. ASSUME NEW i \in Iterations, WaitTimeout(i) PROVE (Counted /\ Phases)'
  BY <1>15 DEF WaitTimeout
<1>16. ASSUME NEW i \in Iterations, NEW w \in Workers, Send(i, w) PROVE (Counted /\ Phases)'
  BY <1>16 DEF Send
<1>17. ASSUME NEW i \in Iterations, NEW w \in Workers, Answer(i, w) PROVE (Counted /\ Phases)'
  BY <1>17 DEF Answer
<1>18. ASSUME NEW w \in Workers, Work(w) PROVE (Counted /\ Phases)'
  BY <1>18 DEF Work
<1>19. ASSUME NEW j \in Tickers, NEW r \in Runs, RunJob(j, r) PROVE (Counted /\ Phases)'
  BY <1>19 DEF RunJob
<1>20. ASSUME NEW r \in Runs, JobEnds(r) PROVE (Counted /\ Phases)'
  BY <1>20 DEF JobEnds
<1>21. ASSUME NEW g \in Goroutines, Stop(g) PROVE (Counted /\ Phases)'
  BY <1>21 DEF Stop
<1>22. CASE UNCHANGED vars
  BY <1>22 DEF vars
<1> QED
  BY <1>1, <1>2, <1>3, <1>4, <1>5, <1>6, <1>7, <1>8, <1>9, <1>10, <1>11, <1>12, <1>13, <1>14, <1>15, <1>16, <1>17, <1>18, <1>19, <1>20, <1>21, <1>22 DEF Next, Iteration, Timeouts

\* The flag and the two unbuffered channels keep the block in one pair of hands,
\* whichever timer fires and whoever sees the stop first.
LEMMA HandshakeStep == IInv /\ [Next]_vars => (Flag /\ OneInFlight /\ Paired /\ Wedged)'
<1> SUFFICES ASSUME IInv, [Next]_vars PROVE (Flag /\ OneInFlight /\ Paired /\ Wedged)'
  OBVIOUS
<1> USE Names DEF IInv, TypeOK, Kinds, Phases, Flag, OneInFlight, Paired, Wedged,
           Busy, InHandshake
<1>1. ASSUME Boot PROVE (Flag /\ OneInFlight /\ Paired /\ Wedged)'
  BY <1>1 DEF Boot
<1>2. ASSUME Interrupt PROVE (Flag /\ OneInFlight /\ Paired /\ Wedged)'
  BY <1>2 DEF Interrupt
<1>3. ASSUME Wait PROVE (Flag /\ OneInFlight /\ Paired /\ Wedged)'
  BY <1>3 DEF Wait
<1>4. ASSUME InitDaemon PROVE (Flag /\ OneInFlight /\ Paired /\ Wedged)'
  BY <1>4 DEF InitDaemon
<1>5. ASSUME InitJobs PROVE (Flag /\ OneInFlight /\ Paired /\ Wedged)'
  BY <1>5 DEF InitJobs
<1>6. ASSUME NodeGrows PROVE (Flag /\ OneInFlight /\ Paired /\ Wedged)'
  BY <1>6 DEF NodeGrows
<1>7. ASSUME WatchdogFires PROVE (Flag /\ OneInFlight /\ Paired /\ Wedged)'
  BY <1>7 DEF WatchdogFires
<1>8. ASSUME NEW i \in Iterations, Tick(i) PROVE (Flag /\ OneInFlight /\ Paired /\ Wedged)'
  BY <1>8 DEF Tick
<1>9. ASSUME NEW i \in Iterations, CountFails(i) PROVE (Flag /\ OneInFlight /\ Paired /\ Wedged)'
  <2>1. Busy = {}
    BY <1>9 DEF CountFails
  <2>2. Busy' = {} /\ InHandshake' = {}
    BY <1>9, <2>1 DEF CountFails
  <2>3. \A j \in Iterations : pc'[j] \in {"gone", "tail"}
    BY <1>9 DEF CountFails
  <2>4. ~wedged'
    BY <1>9 DEF CountFails
  <2>5. QED
    BY <2>2, <2>3, <2>4
<1>10. ASSUME NEW i \in Iterations, Count(i) PROVE (Flag /\ OneInFlight /\ Paired /\ Wedged)'
  BY <1>10 DEF Count
<1>11. ASSUME NEW i \in Iterations, Turn(i) PROVE (Flag /\ OneInFlight /\ Paired /\ Wedged)'
  BY <1>11 DEF Turn
<1>12. ASSUME NEW i \in Iterations, GiveUp(i) PROVE (Flag /\ OneInFlight /\ Paired /\ Wedged)'
  BY <1>12 DEF GiveUp
<1>13. ASSUME NEW i \in Iterations, Tail(i) PROVE (Flag /\ OneInFlight /\ Paired /\ Wedged)'
  <2>1. Busy' = Busy /\ InHandshake' = InHandshake
    BY <1>13 DEF Tail
  <2>2. \A g \in Workers \cup (Iterations \ {i}) : pc'[g] = pc[g]
    BY <1>13 DEF Tail
  <2>3. pc[i] = "tail" /\ pc'[i] = "gone"
    BY <1>13 DEF Tail
  <2>4. Flag' /\ OneInFlight'
    BY <1>13, <2>1 DEF Tail
  <2>5. Paired'
    BY <1>13, <2>2, <2>3 DEF Tail
  <2>6. Wedged'
    BY <1>13, <2>1 DEF Tail
  <2>7. QED
    BY <2>4, <2>5, <2>6
<1>14. ASSUME NEW i \in Iterations, SendTimeout(i) PROVE (Flag /\ OneInFlight /\ Paired /\ Wedged)'
  BY <1>14 DEF SendTimeout
<1>15. ASSUME NEW i \in Iterations, WaitTimeout(i) PROVE (Flag /\ OneInFlight /\ Paired /\ Wedged)'
  BY <1>15 DEF WaitTimeout
<1>16. ASSUME NEW i \in Iterations, NEW w \in Workers, Send(i, w) PROVE (Flag /\ OneInFlight /\ Paired /\ Wedged)'
  BY <1>16 DEF Send
<1>17. ASSUME NEW i \in Iterations, NEW w \in Workers, Answer(i, w) PROVE (Flag /\ OneInFlight /\ Paired /\ Wedged)'
  BY <1>17 DEF Answer
<1>18. ASSUME NEW w \in Workers, Work(w) PROVE (Flag /\ OneInFlight /\ Paired /\ Wedged)'
  BY <1>18 DEF Work
<1>19. ASSUME NEW j \in Tickers, NEW r \in Runs, RunJob(j, r) PROVE (Flag /\ OneInFlight /\ Paired /\ Wedged)'
  <2>1. \A g \in Workers \cup Iterations : pc'[g] = pc[g]
    BY <1>19 DEF RunJob
  <2>2. Busy' = Busy /\ InHandshake' = InHandshake
    BY <2>1
  <2>3. Flag' /\ OneInFlight' /\ Wedged'
    BY <1>19, <2>2 DEF RunJob
  <2>4. Paired'
    BY <1>19, <2>1 DEF RunJob
  <2>5. QED
    BY <2>3, <2>4
<1>20. ASSUME NEW r \in Runs, JobEnds(r) PROVE (Flag /\ OneInFlight /\ Paired /\ Wedged)'
  BY <1>20 DEF JobEnds
<1>21. ASSUME NEW g \in Goroutines, Stop(g) PROVE (Flag /\ OneInFlight /\ Paired /\ Wedged)'
  BY <1>21 DEF Stop
<1>22. CASE UNCHANGED vars
  BY <1>22 DEF vars
<1> QED
  BY <1>1, <1>2, <1>3, <1>4, <1>5, <1>6, <1>7, <1>8, <1>9, <1>10, <1>11, <1>12, <1>13, <1>14, <1>15, <1>16, <1>17, <1>18, <1>19, <1>20, <1>21, <1>22 DEF Next, Iteration, Timeouts

\* The inductive invariant holds in every reachable state of the daemon.
THEOREM Invariance == Spec => []IInv
<1>1. IInv /\ [Next]_vars => IInv'
  BY TypeStep, CountedStep, HandshakeStep DEF IInv
<1>2. QED BY <1>1, InitIInv, PTL DEF Spec

-----------------------------------------------------------------------------
(* What follows from it.                                                   *)

\* Type correctness; in particular no height ever lies beyond the chain of the
\* node, and every name the stop group waits for is that of a goroutine.
THEOREM TypeCorrect == Spec => []TypeOK
<1>1. IInv => TypeOK
  BY DEF IInv
<1>2. QED BY <1>1, Invariance, PTL

\* With any number of block workers and of iterations, at most one block is in
\* the hands of a worker.
THEOREM OneInFlightAlways == Spec => []OneInFlight
<1>1. IInv => OneInFlight
  BY DEF IInv
<1>2. QED BY <1>1, Invariance, PTL

\* Until the daemon is stopped, the watchdog looks at the very block a worker
\* has, and an iteration waits for its result.
THEOREM WatchedAlways == Spec => []Watched
<1>1. ASSUME IInv, ~stopped, NEW w \in Busy
      PROVE  \E i \in Iterations :
               /\ pc[i] = "wait"
               /\ pc[w] = "work" => height[i] = height[w]
               /\ inflight = height[i]
  <2>1. PICK i \in Iterations : pc[i] = "wait"
    BY <1>1 DEF IInv, Paired
  <2>2. inflight = height[i] /\ (pc[w] = "work" => height[i] = height[w])
    BY <1>1, <2>1 DEF IInv, Paired, Busy
  <2>3. QED BY <2>1, <2>2
<1>2. IInv => Watched
  BY <1>1 DEF Watched
<1>3. QED BY <1>2, Invariance, PTL

\* StopAndWait returns only after every goroutine of the group has returned.
THEOREM ExitsCleanAlways == Spec => []ExitsClean
<1>1. IInv => ExitsClean
  BY DEF IInv, Phases, Counted, ExitsClean
<1>2. QED BY <1>1, Invariance, PTL

\* A hand-over that timed out is final: daemonIteration never asks for a block
\* again, whatever else happens, until the process is started anew.
THEOREM WedgedForGood == Spec => []Wedged
<1>1. IInv => Wedged
  BY DEF IInv
<1>2. QED BY <1>1, Invariance, PTL

=============================================================================
