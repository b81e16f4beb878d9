----------------------------- MODULE DaemonLoop ------------------------------
(***************************************************************************)
(* The goroutines of daemon/daemon.go: the ticker of runDaemon, the daemon *)
(* iterations it starts, the hand-over of a height to a block worker and   *)
(* of its result back, the timeouts of both, the watchdog, the scheduled   *)
(* jobs, and the shutdown through the stop group.  What the worker does    *)
(* with a height is the subject of BlockSync; here it returns some height  *)
(* up to the one it was given.                                             *)
(*                                                                         *)
(* All channels are unbuffered, so a send and its receive are one step.  A *)
(* timer may fire whenever its goroutine is waiting, because nothing is    *)
(* known about the speed of the others.                                    *)
(***************************************************************************)
EXTENDS Integers

CONSTANTS
  Workers,      \* block workers (blockWorkers is 1, "should be configurable")
  Iterations,   \* bound: goroutines of daemonIteration alive at once
  Tickers,      \* the goroutines of scheduleJob, one per job
  Runs,         \* bound: goroutines running a job at once
  MaxHeight     \* bound: height of the node's chain

Singles    == {"daemon", "watchdog", "jobs"}
Goroutines == Singles \cup Workers \cup Iterations \cup Tickers \cup Runs

ASSUME NamesAssumption ==
  /\ Workers \cap Iterations = {} /\ Workers \cap Tickers = {}
  /\ Workers \cap Runs = {} /\ Iterations \cap Tickers = {}
  /\ Iterations \cap Runs = {} /\ Tickers \cap Runs = {}
  /\ Singles \cap (Workers \cup Iterations \cup Tickers \cup Runs) = {}
ASSUME HeightAssumption == MaxHeight \in Nat

VARIABLES
  main,         \* DoYourThing: "boot", "run", "stopping", "exited"; or "killed"
  pc,           \* where each goroutine is; "gone" if it does not exist
  counted,      \* the names the stop group waits for
  stopped,      \* the channel of the stop group is closed
  running,      \* an iteration holds the flag
  wedged,       \* history: an iteration gave up its hand-over and kept the flag
  jobsInitialized,
  height,       \* the height in the hands of an iteration or a worker
  inflight,     \* the block the watchdog looks at, or None
  lastHeightProcessed, blockHeight, nodeHeight,
  timeout, exitOnTimeout   \* the settings

heightVars == <<lastHeightProcessed, blockHeight, nodeHeight>>
flagVars   == <<running, wedged, jobsInitialized>>
config     == <<timeout, exitOnTimeout>>
vars == <<main, pc, counted, stopped, flagVars, height, inflight, heightVars, config>>

Heights == 0..MaxHeight
None    == MaxHeight + 1      \* inflightStartedAt is zero

Init ==
  /\ main = "boot"
  /\ pc = [g \in Goroutines |-> "gone"]
  /\ counted = {}
  /\ stopped = FALSE
  /\ running = FALSE /\ wedged = FALSE /\ jobsInitialized = FALSE
  /\ height = [g \in Workers \cup Iterations |-> 0]
  /\ inflight = None
  /\ lastHeightProcessed = 0 /\ blockHeight = 0
  /\ nodeHeight \in Heights
  /\ timeout \in BOOLEAN
  /\ exitOnTimeout \in {FALSE, timeout}       \* it only matters with a timeout

-----------------------------------------------------------------------------
(* Goroutines and the stop group.                                          *)

Alive  == main \in {"run", "stopping"}
At(g, place) == Alive /\ pc[g] = place

Goto(g, place) == pc' = [pc EXCEPT ![g] = place] /\ UNCHANGED counted

\* AddNamed before the go statement.
Spawn(gs, place) ==
  /\ pc' = [g \in Goroutines |-> IF g \in gs THEN place ELSE pc[g]]
  /\ counted' = counted \cup gs

\* Mutated form: the goroutine would be counted by itself, later.
ExitAndSpawnUncounted(g, gs, place) ==
  /\ pc' = [x \in Goroutines |-> IF x \in gs THEN place ELSE IF x = g THEN "gone" ELSE pc[x]]
  /\ counted' = counted \ {g}

\* The goroutine g starts others and returns.
ExitAndSpawn(g, gs, place) ==
  /\ pc' = [x \in Goroutines |-> IF x \in gs THEN place ELSE IF x = g THEN "gone" ELSE pc[x]]
  /\ counted' = (counted \ {g}) \cup gs

Exit(g) == ExitAndSpawn(g, {}, "gone")

Kill == main' = "killed" /\ UNCHANGED <<pc, counted>>

\* DoYourThing, after the upgrades and the cleanup of the head.
Boot ==
  /\ main = "boot"
  /\ main' = "run"
  /\ Spawn({"daemon"}, "init")
  /\ UNCHANGED <<stopped, flagVars, height, inflight, heightVars, config>>

\* A signal: ShutdownDaemon closes the channel, and waits.
Interrupt ==
  /\ main = "run"
  /\ main' = "stopping"
  /\ stopped' = TRUE
  /\ UNCHANGED <<pc, counted, flagVars, height, inflight, heightVars, config>>

Wait ==
  /\ main = "stopping"
  /\ counted = {}
  /\ main' = "exited"
  /\ UNCHANGED <<pc, counted, stopped, flagVars, height, inflight, heightVars, config>>

-----------------------------------------------------------------------------
(* runDaemon.                                                              *)

InitDaemon ==
  /\ At("daemon", "init")
  /\ pc' = [g \in Goroutines |->
              CASE g = "daemon"   -> "tick"
                [] g = "watchdog" -> "tick"
                [] g \in Workers  -> "receive"
                [] OTHER          -> pc[g]]
  /\ counted' = counted \cup Workers \cup {"watchdog"}
  /\ lastHeightProcessed' \in 0..nodeHeight     \* the last stored block
  /\ UNCHANGED <<main, stopped, flagVars, height, inflight, blockHeight, nodeHeight, config>>

\* Mutated form: the flag is not tested.
TickAnyway(i) ==
  /\ At("daemon", "tick")
  /\ pc[i] = "gone"
  /\ running' = TRUE
  /\ Spawn({i}, "count")
  /\ UNCHANGED <<main, stopped, wedged, jobsInitialized, height, inflight, heightVars, config>>

Tick(i) ==
  /\ At("daemon", "tick")
  /\ pc[i] = "gone"
  /\ ~running
  /\ running' = TRUE
  /\ Spawn({i}, "count")
  /\ UNCHANGED <<main, stopped, wedged, jobsInitialized, height, inflight, heightVars, config>>

\* A goroutine that waits in a select with nothing to clean up sees the stop.
Stop(g) ==
  /\ \/ g \in {"daemon", "watchdog"} \cup Tickers /\ At(g, "tick")
     \/ g \in Workers /\ (At(g, "receive") \/ At(g, "reply"))
     \/ g \in Iterations /\ At(g, "loop")
  /\ stopped
  /\ Exit(g)
  /\ UNCHANGED <<main, stopped, flagVars, height, inflight, heightVars, config>>

-----------------------------------------------------------------------------
(* daemonIteration.                                                        *)

\* recordBlockStart, and then sendBlockHeight.
Offer(i, h) ==
  /\ Goto(i, "send")
  /\ height' = [height EXCEPT ![i] = h]
  /\ inflight' = h

\* Mutated form: the error return forgets the flag.
CountFailsHolding(i) ==
  /\ At(i, "count")
  /\ Exit(i)
  /\ UNCHANGED <<main, stopped, flagVars, height, inflight, heightVars, config>>

CountFails(i) ==
  /\ At(i, "count")
  /\ running' = FALSE
  /\ Exit(i)
  /\ UNCHANGED <<main, stopped, wedged, jobsInitialized, height, inflight, heightVars, config>>

\* GetBlockCount; at height 0 the genesis block comes first.
Count(i) ==
  /\ At(i, "count")
  /\ blockHeight' = nodeHeight
  /\ IF lastHeightProcessed = 0
     THEN Offer(i, 0)
     ELSE Goto(i, "loop") /\ UNCHANGED <<height, inflight>>
  /\ UNCHANGED <<main, stopped, flagVars, lastHeightProcessed, nodeHeight, config>>

\* The iteration ends: the flag is reset before the jobs are looked at.
Finish(i) == Goto(i, "tail") /\ running' = FALSE

\* Mutated form: the height that is compared is not the one that is offered.
TurnTooFar(i) ==
  /\ At(i, "loop")
  /\ ~stopped
  /\ \/ /\ blockHeight >= lastHeightProcessed
        /\ Offer(i, lastHeightProcessed + 1)
        /\ UNCHANGED running
     \/ /\ blockHeight < lastHeightProcessed
        /\ Finish(i)
        /\ UNCHANGED <<height, inflight>>
  /\ UNCHANGED <<main, stopped, wedged, jobsInitialized, heightVars, config>>

\* A turn of the loop; the stop is looked at first.
Turn(i) ==
  /\ At(i, "loop")
  /\ ~stopped
  /\ \/ /\ blockHeight >= lastHeightProcessed + 1
        /\ Offer(i, lastHeightProcessed + 1)
        /\ UNCHANGED running
     \/ /\ blockHeight < lastHeightProcessed + 1
        /\ Finish(i)
        /\ UNCHANGED <<height, inflight>>
  /\ UNCHANGED <<main, stopped, wedged, jobsInitialized, heightVars, config>>

Send(i, w) ==
  /\ At(i, "send") /\ At(w, "receive")
  /\ pc' = [pc EXCEPT ![i] = "wait", ![w] = "work"]
  /\ height' = [height EXCEPT ![w] = height[i]]
  /\ UNCHANGED <<main, counted, stopped, flagVars, inflight, heightVars, config>>

\* clearInFlightBlock
Cleared(h) == IF inflight = h THEN None ELSE inflight

\* Mutated form: the wait for the result does not look at the stop.
GiveUpSending(i) ==
  /\ At(i, "send")
  /\ stopped
  /\ inflight' = Cleared(height[i])
  /\ height' = [height EXCEPT ![i] = 0]
  /\ Exit(i)
  /\ UNCHANGED <<main, stopped, flagVars, heightVars, config>>

\* The iteration returns on a stop, without resetting the flag.
GiveUp(i) ==
  /\ At(i, "send") \/ At(i, "wait")
  /\ stopped
  /\ inflight' = Cleared(height[i])
  /\ height' = [height EXCEPT ![i] = 0]
  /\ Exit(i)
  /\ UNCHANGED <<main, stopped, flagVars, heightVars, config>>

\* The hand-over times out; the flag is not reset here either.
SendTimeout(i) ==
  /\ At(i, "send")
  /\ timeout
  /\ IF exitOnTimeout
     THEN Kill /\ UNCHANGED <<wedged, inflight, height>>
     ELSE /\ wedged' = TRUE
          /\ inflight' = Cleared(height[i])
          /\ height' = [height EXCEPT ![i] = 0]
          /\ Exit(i) /\ UNCHANGED main
  /\ UNCHANGED <<stopped, running, jobsInitialized, heightVars, config>>

\* Mutated form: the wait for the result is given up, too.
GiveUpWaiting(i) ==
  /\ At(i, "wait")
  /\ timeout
  /\ inflight' = Cleared(height[i])
  /\ running' = FALSE
  /\ Exit(i)
  /\ UNCHANGED <<main, stopped, wedged, jobsInitialized, height, heightVars, config>>

\* The wait for the result times out: it goes on, or the process exits.
WaitTimeout(i) ==
  /\ At(i, "wait")
  /\ timeout
  /\ IF exitOnTimeout THEN Kill ELSE UNCHANGED <<main, pc, counted>>
  /\ UNCHANGED <<stopped, flagVars, height, inflight, heightVars, config>>

\* waitForBlockProcessed receives the result, and recordBlockFinished.  After
\* the genesis block, and while there is work to do, the loop goes on.
Answer(i, w) ==
  /\ At(i, "wait") /\ At(w, "reply")
  /\ LET r == height[w]
     IN  /\ lastHeightProcessed' = r
         /\ IF height[i] = 0 \/ (r < blockHeight /\ r # 0)
            THEN pc' = [pc EXCEPT ![i] = "loop", ![w] = "receive"] /\ UNCHANGED running
            ELSE pc' = [pc EXCEPT ![i] = "tail", ![w] = "receive"] /\ running' = FALSE
  /\ inflight' = Cleared(height[i])
  /\ height' = [height EXCEPT ![i] = 0, ![w] = 0]
  /\ UNCHANGED <<main, counted, stopped, wedged, jobsInitialized, blockHeight, nodeHeight, config>>

\* The first iteration that gets here starts the jobs.
Tail(i) ==
  /\ At(i, "tail")
  /\ jobsInitialized' = TRUE
  /\ ExitAndSpawn(i, IF jobsInitialized THEN {} ELSE {"jobs"}, "start")
  /\ UNCHANGED <<main, stopped, running, wedged, height, inflight, heightVars, config>>

\* processBlockWithRecover: the height itself, or a smaller one if the block
\* failed, panicked or belongs to another branch.
Work(w) ==
  /\ At(w, "work")
  /\ \E r \in 0..height[w] : height' = [height EXCEPT ![w] = r]
  /\ Goto(w, "reply")
  /\ UNCHANGED <<main, stopped, flagVars, inflight, heightVars, config>>

-----------------------------------------------------------------------------
(* The watchdog, the jobs and the node.                                    *)

WatchdogFires ==
  /\ At("watchdog", "tick")
  /\ timeout /\ inflight # None /\ exitOnTimeout
  /\ Kill
  /\ UNCHANGED <<stopped, flagVars, height, inflight, heightVars, config>>

InitJobs ==
  /\ At("jobs", "start")
  /\ ExitAndSpawn("jobs", Tickers, "tick")
  /\ UNCHANGED <<main, stopped, flagVars, height, inflight, heightVars, config>>

RunJob(j, r) ==
  /\ At(j, "tick")
  /\ pc[r] = "gone"
  /\ Spawn({r}, "job")
  /\ UNCHANGED <<main, stopped, flagVars, height, inflight, heightVars, config>>

JobEnds(r) ==
  /\ At(r, "job")
  /\ Exit(r)
  /\ UNCHANGED <<main, stopped, flagVars, height, inflight, heightVars, config>>

NodeGrows ==
  /\ Alive
  /\ nodeHeight < MaxHeight
  /\ nodeHeight' = nodeHeight + 1
  /\ UNCHANGED <<main, pc, counted, stopped, flagVars, height, inflight, lastHeightProcessed, blockHeight, config>>

Iteration(i) ==
  \/ CountFails(i) \/ Count(i) \/ Turn(i) \/ GiveUp(i) \/ Tail(i)
  \/ \E w \in Workers : Send(i, w) \/ Answer(i, w)

Timeouts == \E i \in Iterations : SendTimeout(i) \/ WaitTimeout(i)

Next ==
  \/ Boot \/ Interrupt \/ Wait \/ InitDaemon \/ InitJobs \/ NodeGrows
  \/ WatchdogFires \/ Timeouts
  \/ \E i \in Iterations : Tick(i) \/ Iteration(i)
  \/ \E w \in Workers : Work(w)
  \/ \E j \in Tickers, r \in Runs : RunJob(j, r)
  \/ \E r \in Runs : JobEnds(r)
  \/ \E g \in Goroutines : Stop(g)

Spec == Init /\ [][Next]_vars

\* Every goroutine that can run does; block processing and the jobs return.
Fairness ==
  /\ WF_vars(Boot \/ Wait \/ InitDaemon \/ InitJobs)
  /\ WF_vars(\E i \in Iterations : Tick(i))
  /\ \A i \in Iterations : WF_vars(Iteration(i))
  /\ \A w \in Workers : WF_vars(Work(w))
  /\ \A r \in Runs : WF_vars(JobEnds(r))
  /\ \A g \in Goroutines : WF_vars(Stop(g))

FairSpec == Spec /\ Fairness

-----------------------------------------------------------------------------
(* Properties.                                                             *)

Places == {"gone", "init", "tick", "receive", "work", "reply", "count", "loop",
           "send", "wait", "tail", "start", "job"}

\* The variables keep their types; heights stay within the node's chain.
TypeOK ==
  /\ main \in {"boot", "run", "stopping", "exited", "killed"}
  /\ pc \in [Goroutines -> Places]
  /\ counted \subseteq Goroutines
  /\ stopped \in BOOLEAN /\ running \in BOOLEAN /\ wedged \in BOOLEAN
  /\ jobsInitialized \in BOOLEAN /\ timeout \in BOOLEAN /\ exitOnTimeout \in BOOLEAN
  /\ height \in [Workers \cup Iterations -> Heights]
  /\ inflight \in Heights \cup {None}
  /\ nodeHeight \in Heights
  /\ blockHeight \in 0..nodeHeight
  /\ lastHeightProcessed \in 0..nodeHeight

Busy == {w \in Workers : pc[w] \in {"work", "reply"}}
InHandshake == {i \in Iterations : pc[i] \in {"count", "loop", "send", "wait"}}

\* README, "a channel handshake": whatever the number of workers, however slow
\* a block is and however often its timeout fires, at most one block is in the
\* hands of a worker.
OneInFlight == \A v, w \in Busy : v = w

\* As long as nobody stops the daemon, the block a worker has is the block its
\* iteration waits for, and the watchdog (recordBlockStart, recordBlockFinished)
\* sees it.
Watched ==
  ~stopped =>
    \A w \in Busy : \E i \in Iterations :
      /\ pc[i] = "wait"
      /\ pc[w] = "work" => height[i] = height[w]
      /\ inflight = height[i]

\* The daemon ends (StopAndWait returns) only when no worker is in the middle of
\* a block and none of the goroutines started through the stop group is left.
ExitsClean == main = "exited" => \A g \in Goroutines : pc[g] = "gone"

\* A shutdown ends.
ShutdownEnds == stopped ~> main \in {"exited", "killed"}

\* Unless it is stopped, or a hand-over timed out (after which the flag is never
\* reset), the daemon never stops asking for blocks.
KeepsTrying ==
  []<>(~running \/ Busy # {}) \/ <>(stopped \/ wedged \/ main = "killed")

=============================================================================
