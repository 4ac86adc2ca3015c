---------------------------- MODULE NodeService ----------------------------
(***************************************************************************)
(* The life of a node: internal/node/service.go.  Start and Close, the     *)
(* wait group that keeps the ledger open while anything uses it, mining    *)
(* jobs and the tip channel that makes them stale, the continuous mining   *)
(* loop, pruning after a new tip, and tasks launched in the background.    *)
(*                                                                         *)
(* Every method holds s.mu for a part of its work only: a step of the      *)
(* model is one such part, or one call of the ledger, which serialises     *)
(* its own writes.  A tip is numbered, and so is the channel s.tipChanged: *)
(* notifyTipChanged closes channel n and makes channel n + 1.              *)
(*                                                                         *)
(* A caller is any goroutine that holds the wait group for one operation:  *)
(* a call of the desktop or of the command line, an HTTP handler, a socket *)
(* or a round of synchronisation.  Reads of the ledger (Dashboard,         *)
(* HealthEvents, FilteredTransactionHistory) and sendTransaction are one   *)
(* operation here, "use".                                                  *)
(***************************************************************************)
EXTENDS Integers, FiniteSets

CONSTANTS Callers,     \* goroutines that call the service
          Loops,       \* goroutines of StartMining
          Tasks,       \* goroutines of launch; also the bound on prune failures
          Services,    \* serve, sync, bootstrap and discovery loops of Start
          Closers,     \* callers of Close
          Depths,      \* retention depths an operator asks for
          MaxTip,      \* bound of the model: new tips
          MaxRefresh   \* bound of the model: templates rebuilt in one MineOnce

ASSUME NodeAssumption ==
    /\ Callers \cap Loops = {}
    /\ Depths \subseteq Nat /\ 0 \in Depths
    /\ MaxTip \in Nat /\ MaxRefresh \in Nat

NoLoop == "none"

ASSUME NoLoopAssumption == NoLoop \notin Loops

Miners == Callers \cup Loops

VARIABLES started,      \* s.server is set
          closing,      \* s.closing
          finisher,     \* who will run finishClose: nobody yet, the caller, the background, done
          closers,      \* where each caller of Close is
          wait,         \* s.wait: who is registered, a loop twice while it mines
          open,         \* the ledger and the directory lock are open
          tip,          \* the ledger's tip
          channel,      \* s.tipChanged: every channel before it is closed
          job,          \* where each caller and each loop is
          mining,       \* s.mining
          miningCancel, \* the loop s.miningCancel cancels
          cancelled,    \* loops whose context has ended
          stored,       \* the retention depth in the ledger
          depth,        \* s.pruneDepth
          task,         \* background tasks that record a health event
          events        \* open health events of failed pruning

lifecycle == <<started, closing, finisher, closers, open>>
minings == <<mining, miningCancel, cancelled>>
depths == <<stored, depth>>
health == <<task, events>>
vars == <<lifecycle, wait, tip, channel, job, minings, depths, health>>

Idle == [pc |-> "idle", channel |-> 0, tip |-> 0, left |-> 0, depth |-> 0]

Working == {"build", "hash", "found"}      \* inside MineOnce, before a commit
AfterTip == {"notify", "maybe", "prune"}   \* after a new tip

TypeOK ==
    /\ started \in BOOLEAN /\ closing \in BOOLEAN /\ open \in BOOLEAN
    /\ finisher \in {"none", "caller", "background", "done"}
    /\ closers \in [Closers -> {"idle", "waiting", "joining", "returned", "timeout"}]
    /\ wait \subseteq (Miners \X {"call"}) \cup (Loops \X {"loop"})
           \cup (Tasks \X {"task"}) \cup (Services \X {"service"})
    /\ tip \in 0..MaxTip /\ channel \in 0..(MaxTip + 2)
    /\ \A p \in Miners :
          /\ job[p].pc \in Working \cup AfterTip \cup
                {"idle", "use", "accept", "depth", "pruneNow", "keep", "again", "pause", "ending"}
          /\ job[p].channel \in 0..(MaxTip + 2)
          /\ job[p].tip \in 0..MaxTip
          /\ job[p].left \in 0..MaxRefresh
          /\ job[p].depth \in Depths
    /\ mining \in BOOLEAN
    /\ miningCancel \in Loops \cup {NoLoop}
    /\ cancelled \subseteq Loops
    /\ stored \in Depths /\ depth \in Depths
    /\ task \in [Tasks -> {"idle", "check", "add", "over"}]
    /\ events \in 0..Cardinality(Tasks)

Init ==
    /\ started = FALSE /\ closing = FALSE /\ open = TRUE
    /\ finisher = "none"
    /\ closers = [c \in Closers |-> "idle"]
    /\ wait = {}
    /\ tip = 0 /\ channel = 1
    /\ job = [p \in Miners |-> Idle]
    /\ mining = FALSE /\ miningCancel = NoLoop /\ cancelled = {}
    /\ stored \in Depths /\ depth = stored
    /\ task = [t \in Tasks |-> "idle"]
    /\ events = 0
-----------------------------------------------------------------------------
(* The wait group.  Every operation asks for the lock, refuses when the    *)
(* node is closing and registers before it gives the lock back.            *)

Admitted == ~closing /\ open

Closed(c) == c < channel

At(p, pc) == [job EXCEPT ![p].pc = pc]

Start ==
    /\ ~started /\ ~closing
    /\ started' = TRUE
    /\ wait' = wait \cup (Services \X {"service"})
    /\ UNCHANGED <<closing, finisher, closers, open, tip, channel, job, minings, depths, health>>

\* serve, sync, bootstrap and discovery loops return once the root context ends.
ServiceEnds(s) ==
    /\ closing
    /\ <<s, "service">> \in wait
    /\ wait' = wait \ {<<s, "service">>}
    /\ UNCHANGED <<lifecycle, tip, channel, job, minings, depths, health>>

Begin(c, pc) ==
    /\ job[c].pc = "idle"
    /\ Admitted
    /\ wait' = wait \cup {<<c, "call">>}
    /\ job' = [job EXCEPT ![c] = [Idle EXCEPT !.pc = pc]]
    /\ UNCHANGED <<lifecycle, tip, channel, minings, depths, health>>

BeginUse(c) == Begin(c, "use")

EndUse(c) ==
    /\ job[c].pc = "use"
    /\ job' = [job EXCEPT ![c] = Idle]
    /\ wait' = wait \ {<<c, "call">>}
    /\ UNCHANGED <<lifecycle, tip, channel, minings, depths, health>>
-----------------------------------------------------------------------------
(* New tips from other nodes, and what follows every new tip.              *)

BeginAccept(c) == Begin(c, "accept")

AcceptBlock(c) ==
    /\ job[c].pc = "accept"
    /\ tip < MaxTip
    /\ tip' = tip + 1
    /\ job' = At(c, "notify")
    /\ UNCHANGED <<lifecycle, wait, channel, minings, depths, health>>

RefuseBlock(c) ==
    /\ job[c].pc = "accept"
    /\ job' = [job EXCEPT ![c] = Idle]
    /\ wait' = wait \ {<<c, "call">>}
    /\ UNCHANGED <<lifecycle, tip, channel, minings, depths, health>>

NotifyTipChanged(p) ==
    /\ job[p].pc = "notify"
    /\ channel' = IF closing THEN channel ELSE channel + 1
    /\ job' = At(p, "maybe")
    /\ UNCHANGED <<lifecycle, wait, tip, minings, depths, health>>

\* Where MineOnce returns to: a loop goes on, a caller is done.
Returned(p, pc) == [job EXCEPT ![p] = IF p \in Loops THEN [Idle EXCEPT !.pc = pc] ELSE Idle]

\* maybePrune reads the depth under the lock, and prunes after it.
MaybePrune(p) ==
    /\ job[p].pc = "maybe"
    /\ IF depth = 0
       THEN /\ job' = Returned(p, "again")
            /\ wait' = wait \ {<<p, "call">>}
       ELSE /\ job' = [job EXCEPT ![p].pc = "prune", ![p].depth = depth]
            /\ UNCHANGED wait
    /\ UNCHANGED <<lifecycle, tip, channel, minings, depths, health>>

Prune(p) ==
    /\ job[p].pc = "prune"
    /\ job' = Returned(p, "again")
    /\ wait' = wait \ {<<p, "call">>}
    /\ UNCHANGED <<lifecycle, tip, channel, minings, depths, health>>

\* A failure to prune launches the task that records a health event; launch
\* registers it unless the node is closing.
PruneFails(p) ==
    /\ job[p].pc = "prune"
    /\ \E t \in Tasks :
          /\ task[t] = "idle"
          /\ IF closing
             THEN /\ wait' = wait \ {<<p, "call">>}
                  /\ UNCHANGED task
             ELSE /\ wait' = (wait \ {<<p, "call">>}) \cup {<<t, "task">>}
                  /\ task' = [task EXCEPT ![t] = "check"]
    /\ job' = Returned(p, "again")
    /\ UNCHANGED <<lifecycle, tip, channel, minings, depths, events>>

CheckHealth(t) ==
    /\ task[t] = "check"
    /\ IF events = 0
       THEN /\ task' = [task EXCEPT ![t] = "add"]
            /\ UNCHANGED wait
       ELSE /\ task' = [task EXCEPT ![t] = "over"]
            /\ wait' = wait \ {<<t, "task">>}
    /\ UNCHANGED <<lifecycle, tip, channel, job, minings, depths, events>>

AddHealthEvent(t) ==
    /\ task[t] = "add"
    /\ events' = events + 1
    /\ task' = [task EXCEPT ![t] = "over"]
    /\ wait' = wait \ {<<t, "task">>}
    /\ UNCHANGED <<lifecycle, tip, channel, job, minings, depths>>

\* ResolveHealthEvent, the operation of a caller that is in "use".
ResolveHealthEvent(c) ==
    /\ job[c].pc = "use"
    /\ events > 0
    /\ events' = events - 1
    /\ job' = [job EXCEPT ![c] = Idle]
    /\ wait' = wait \ {<<c, "call">>}
    /\ UNCHANGED <<lifecycle, tip, channel, minings, depths, task>>
-----------------------------------------------------------------------------
(* MineOnce.                                                               *)

MineBegin(p) ==
    /\ \/ p \in Callers /\ job[p].pc = "idle"
       \/ p \in Loops /\ job[p].pc = "again"
    /\ Admitted
    /\ job' = [job EXCEPT ![p] = [Idle EXCEPT !.pc = "build", !.channel = channel, !.left = MaxRefresh]]
    /\ wait' = wait \cup {<<p, "call">>}
    /\ UNCHANGED <<lifecycle, tip, channel, minings, depths, health>>

\* A loop calls MineOnce of a closing node: an error, and the pause after it.
MineRefused(l) ==
    /\ job[l].pc = "again"
    /\ ~Admitted
    /\ job' = At(l, "pause")
    /\ UNCHANGED <<lifecycle, wait, tip, channel, minings, depths, health>>

BuildMiningCandidate(p) ==
    /\ job[p].pc = "build"
    /\ p \notin cancelled
    /\ job' = [job EXCEPT ![p].pc = "hash", ![p].tip = tip]
    /\ UNCHANGED <<lifecycle, wait, tip, channel, minings, depths, health>>

\* The context of a loop has ended: MineOnce fails with it, whatever it does.
MineCancelled(p) ==
    /\ job[p].pc \in Working
    /\ p \in cancelled
    /\ job' = Returned(p, "ending")
    /\ wait' = wait \ {<<p, "call">>}
    /\ UNCHANGED <<lifecycle, tip, channel, minings, depths, health>>

\* Mutant: only the first template of a job is watched through the channel.
TipCancelsFirst(p) ==
    /\ job[p].pc = "hash" /\ job[p].left = MaxRefresh
    /\ Closed(job[p].channel)
    /\ job' = Returned(p, "again")
    /\ wait' = wait \ {<<p, "call">>}
    /\ UNCHANGED <<lifecycle, tip, channel, minings, depths, health>>

\* watchMiningTemplate: the channel is closed, the job ends as stale.
TipCancels(p) ==
    /\ job[p].pc = "hash"
    /\ Closed(job[p].channel)
    /\ job' = Returned(p, "again")
    /\ wait' = wait \ {<<p, "call">>}
    /\ UNCHANGED <<lifecycle, tip, channel, minings, depths, health>>

\* watchMiningTemplate: a lower difficulty is due, the template is built again
\* and watched through the channel taken first.
DifficultyRefresh(p) ==
    /\ job[p].pc = "hash"
    /\ job[p].left > 0
    /\ job' = [job EXCEPT ![p].pc = "build", ![p].left = @ - 1]
    /\ UNCHANGED <<lifecycle, wait, tip, channel, minings, depths, health>>

FindBlock(p) ==
    /\ job[p].pc = "hash"
    /\ job' = At(p, "found")
    /\ UNCHANGED <<lifecycle, wait, tip, channel, minings, depths, health>>

CommitMinedBlock(p) ==
    /\ job[p].pc = "found"
    /\ p \notin cancelled
    /\ job[p].tip = tip
    /\ tip < MaxTip
    /\ tip' = tip + 1
    /\ job' = At(p, "notify")
    /\ UNCHANGED <<lifecycle, wait, channel, minings, depths, health>>

\* ErrStaleTip, or any other error of the commit.
CommitFails(p) ==
    /\ job[p].pc = "found"
    /\ job' = Returned(p, "pause")
    /\ wait' = wait \ {<<p, "call">>}
    /\ UNCHANGED <<lifecycle, tip, channel, minings, depths, health>>

\* Any other error of the ledger or of the search.
MineFails(p) ==
    /\ job[p].pc \in {"build", "hash"}
    /\ job' = Returned(p, "pause")
    /\ wait' = wait \ {<<p, "call">>}
    /\ UNCHANGED <<lifecycle, tip, channel, minings, depths, health>>
-----------------------------------------------------------------------------
(* The continuous miner.                                                   *)

StartMining(l) ==
    /\ ~closing /\ ~mining
    /\ job[l].pc = "idle" /\ <<l, "loop">> \notin wait
    /\ mining' = TRUE /\ miningCancel' = l /\ cancelled' = cancelled \ {l}
    /\ job' = [job EXCEPT ![l] = [Idle EXCEPT !.pc = "again"]]
    /\ wait' = wait \cup {<<l, "loop">>}
    /\ UNCHANGED <<lifecycle, tip, channel, depths, health>>

StopMining ==
    /\ miningCancel # NoLoop
    /\ cancelled' = cancelled \cup {miningCancel}
    /\ UNCHANGED <<lifecycle, wait, tip, channel, job, mining, miningCancel, depths, health>>

\* Mutant: the pause after an error does not look at the context.
PauseOverBlindly(l) ==
    /\ job[l].pc = "pause"
    /\ job' = At(l, "again")
    /\ UNCHANGED <<lifecycle, wait, tip, channel, minings, depths, health>>

\* 250 milliseconds after an error the loop mines again, unless it was cancelled.
PauseOver(l) ==
    /\ job[l].pc = "pause"
    /\ job' = At(l, IF l \in cancelled THEN "ending" ELSE "again")
    /\ UNCHANGED <<lifecycle, wait, tip, channel, minings, depths, health>>

\* The deferred end of a loop, under the lock ...
LoopEnds(l) ==
    /\ job[l].pc = "ending"
    /\ mining' = FALSE /\ miningCancel' = NoLoop
    /\ job' = [job EXCEPT ![l] = Idle]
    /\ UNCHANGED <<lifecycle, wait, tip, channel, cancelled, depths, health>>

\* Mutant: the cancel function is cleared after the lock is given back.
LoopDoneClears(l) ==
    /\ job[l].pc = "idle" /\ <<l, "loop">> \in wait
    /\ wait' = wait \ {<<l, "loop">>}
    /\ miningCancel' = NoLoop
    /\ UNCHANGED <<lifecycle, tip, channel, job, mining, cancelled, depths, health>>

\* ... and its wait.Done after it.
LoopDone(l) ==
    /\ job[l].pc = "idle" /\ <<l, "loop">> \in wait
    /\ wait' = wait \ {<<l, "loop">>}
    /\ UNCHANGED <<lifecycle, tip, channel, job, minings, depths, health>>
-----------------------------------------------------------------------------
(* PruneLedger: the depth in the ledger, pruning, the depth in memory.     *)

BeginPruneLedger(c, d) ==
    /\ job[c].pc = "idle"
    /\ Admitted
    /\ wait' = wait \cup {<<c, "call">>}
    /\ job' = [job EXCEPT ![c] = [Idle EXCEPT !.pc = "depth", !.depth = d]]
    /\ UNCHANGED <<lifecycle, tip, channel, minings, depths, health>>

SetPruneDepth(c) ==
    /\ job[c].pc = "depth"
    /\ stored' = job[c].depth
    /\ job' = At(c, IF job[c].depth = 0 THEN "keep" ELSE "pruneNow")
    /\ UNCHANGED <<lifecycle, wait, tip, channel, minings, depth, health>>

PruneNow(c) ==
    /\ job[c].pc = "pruneNow"
    /\ job' = At(c, "keep")
    /\ UNCHANGED <<lifecycle, wait, tip, channel, minings, depths, health>>

\* Pruning fails after the depth was stored: memory keeps the old depth.
PruneNowFails(c) ==
    /\ job[c].pc = "pruneNow"
    /\ job' = [job EXCEPT ![c] = Idle]
    /\ wait' = wait \ {<<c, "call">>}
    /\ UNCHANGED <<lifecycle, tip, channel, minings, depths, health>>

KeepDepth(c) ==
    /\ job[c].pc = "keep"
    /\ depth' = job[c].depth
    /\ job' = [job EXCEPT ![c] = Idle]
    /\ wait' = wait \ {<<c, "call">>}
    /\ UNCHANGED <<lifecycle, tip, channel, minings, stored, health>>
-----------------------------------------------------------------------------
(* Close.                                                                  *)

\* Mutant: Close leaves the channel that mining jobs watch open.
CloseKeepsChannel(c) ==
    /\ closers[c] = "idle" /\ ~closing
    /\ closing' = TRUE
    /\ finisher' = "caller"
    /\ closers' = [closers EXCEPT ![c] = "waiting"]
    /\ cancelled' = IF miningCancel = NoLoop THEN cancelled ELSE cancelled \cup {miningCancel}
    /\ miningCancel' = NoLoop
    /\ UNCHANGED <<started, open, wait, tip, channel, job, mining, depths, health>>

\* The first Close cancels the miner and the services, and closes the channel:
\* no job takes another one, because MineOnce is refused from here on.
Close(c) ==
    /\ closers[c] = "idle" /\ ~closing
    /\ closing' = TRUE
    /\ finisher' = "caller"
    /\ closers' = [closers EXCEPT ![c] = "waiting"]
    /\ cancelled' = IF miningCancel = NoLoop THEN cancelled ELSE cancelled \cup {miningCancel}
    /\ miningCancel' = NoLoop
    /\ channel' = channel + 1
    /\ UNCHANGED <<started, open, wait, tip, job, mining, depths, health>>

CloseAgain(c) ==
    /\ closers[c] = "idle" /\ closing
    /\ closers' = [closers EXCEPT ![c] = "joining"]
    /\ UNCHANGED <<started, closing, finisher, open, wait, tip, channel, job, minings, depths, health>>

\* The context of a Close ends; the first one leaves the rest to the background.
CloseTimesOut(c) ==
    /\ closers[c] \in {"waiting", "joining"}
    /\ closers[c] = "waiting" => finisher = "caller"
    /\ finisher' = IF closers[c] = "waiting" THEN "background" ELSE finisher
    /\ closers' = [closers EXCEPT ![c] = "timeout"]
    /\ UNCHANGED <<started, closing, open, wait, tip, channel, job, minings, depths, health>>

\* Mutant: Close finishes when its context ends, whoever is still at work.
FinishCloseEarly ==
    /\ finisher \in {"caller", "background"}
    /\ finisher = "caller" => wait = {}
    /\ open' = FALSE
    /\ finisher' = "done"
    /\ closers' = [c \in Closers |-> IF closers[c] = "waiting" THEN "returned" ELSE closers[c]]
    /\ UNCHANGED <<started, closing, wait, tip, channel, job, minings, depths, health>>

FinishClose ==
    /\ finisher \in {"caller", "background"}
    /\ wait = {}
    /\ open' = FALSE
    /\ finisher' = "done"
    /\ closers' = [c \in Closers |-> IF closers[c] = "waiting" THEN "returned" ELSE closers[c]]
    /\ UNCHANGED <<started, closing, wait, tip, channel, job, minings, depths, health>>

JoinClose(c) ==
    /\ closers[c] = "joining" /\ finisher = "done"
    /\ closers' = [closers EXCEPT ![c] = "returned"]
    /\ UNCHANGED <<started, closing, finisher, open, wait, tip, channel, job, minings, depths, health>>
-----------------------------------------------------------------------------
Call(c) ==
    \/ BeginUse(c) \/ EndUse(c) \/ ResolveHealthEvent(c)
    \/ BeginAccept(c) \/ AcceptBlock(c) \/ RefuseBlock(c)
    \/ \E d \in Depths : BeginPruneLedger(c, d)
    \/ SetPruneDepth(c) \/ PruneNow(c) \/ PruneNowFails(c) \/ KeepDepth(c)

Mine(p) ==
    \/ MineBegin(p) \/ BuildMiningCandidate(p) \/ MineCancelled(p) \/ TipCancels(p)
    \/ DifficultyRefresh(p) \/ FindBlock(p) \/ CommitMinedBlock(p) \/ CommitFails(p) \/ MineFails(p)
    \/ NotifyTipChanged(p) \/ MaybePrune(p) \/ Prune(p) \/ PruneFails(p)

Loop(l) == StartMining(l) \/ MineRefused(l) \/ PauseOver(l) \/ LoopEnds(l) \/ LoopDone(l)

Next ==
    \/ Start \/ StopMining \/ FinishClose
    \/ \E c \in Callers : Call(c)
    \/ \E p \in Miners : Mine(p)
    \/ \E l \in Loops : Loop(l)
    \/ \E t \in Tasks : CheckHealth(t) \/ AddHealthEvent(t)
    \/ \E s \in Services : ServiceEnds(s)
    \/ \E c \in Closers : Close(c) \/ CloseAgain(c) \/ CloseTimesOut(c) \/ JoinClose(c)

Spec == Init /\ [][Next]_vars

\* What a goroutine does of itself once it has begun.  Nothing is assumed of
\* operators, of other nodes or of the search for a block, and no bound is put
\* on how long a step takes.
Progress(p) ==
    \/ BuildMiningCandidate(p) \/ MineCancelled(p) \/ TipCancels(p)
    \/ CommitMinedBlock(p) \/ CommitFails(p)
    \/ NotifyTipChanged(p) \/ MaybePrune(p) \/ Prune(p)

CallProgress(c) ==
    \/ EndUse(c) \/ AcceptBlock(c) \/ RefuseBlock(c)
    \/ SetPruneDepth(c) \/ PruneNow(c) \/ KeepDepth(c)

LoopProgress(l) == MineBegin(l) \/ MineRefused(l) \/ PauseOver(l) \/ LoopEnds(l) \/ LoopDone(l)

Fairness ==
    /\ \A p \in Miners : WF_vars(Progress(p))
    /\ \A c \in Callers : WF_vars(CallProgress(c))
    /\ \A l \in Loops : WF_vars(LoopProgress(l))
    /\ \A t \in Tasks : WF_vars(CheckHealth(t) \/ AddHealthEvent(t))
    /\ \A s \in Services : WF_vars(ServiceEnds(s))
    /\ WF_vars(FinishClose)

FairSpec == Spec /\ Fairness
-----------------------------------------------------------------------------
\* The ledger and the directory lock stay open as long as any operation, loop,
\* background task or service that uses them is under way: Close waits for all
\* of them, also after its own context has ended, and none begins once Close
\* has begun (service.go, Close, finishClose and every wait.Add).
LedgerOpenWhileUsed ==
    ~open => /\ \A p \in Miners : job[p].pc = "idle"
             /\ \A t \in Tasks : task[t] \in {"idle", "over"}

Running(l) == job[l].pc \notin {"idle", "ending"}

\* There is never a second continuous miner: starting, stopping and starting
\* again while the first loop still ends does not run two loops.
OneMiningLoop == Cardinality({l \in Loops : Running(l)}) <= 1

\* A loop that has not been told to stop can be: s.miningCancel is its own, so
\* neither the late end of an earlier loop nor Close loses it.
RunningLoopCanBeStopped ==
    \A l \in Loops : Running(l) /\ l \notin cancelled => miningCancel = l /\ mining

\* There is never a second continuous miner, and the one there is can be stopped:
\* starting, stopping and starting again while the first loop still ends neither runs two
\* loops nor loses the handle of one (service.go:1038).
LoopIsOwned == OneMiningLoop /\ RunningLoopCanBeStopped

\* A job that searches on an old tip has been told by its channel, or whoever
\* brought the new tip is about to tell it, also where the tip changed while
\* the template was built or rebuilt and where Close has begun meanwhile.
StaleWorkIsCancelled ==
    \A p \in Miners : job[p].pc = "hash" /\ job[p].tip # tip =>
        Closed(job[p].channel) \/ \E q \in Miners : job[q].pc = "notify"

\* Search on a stale template ends, although no block may ever be found.
StaleWorkEnds ==
    \A p \in Miners : job[p].pc = "hash" /\ job[p].tip # tip
                          ~> ~(job[p].pc = "hash" /\ job[p].tip # tip)

\* A loop that was told to stop ends.
MiningStops == \A l \in Loops : l \in cancelled ~> job[l].pc = "idle"

\* Once Close has begun, the node is closed and a Close that still waits
\* returns: no task it waits for waits for it.
CloseEnds == closing ~> finisher = "done"
=============================================================================
