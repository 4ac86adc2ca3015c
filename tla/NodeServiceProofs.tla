------------------------- MODULE NodeServiceProofs -------------------------
(***************************************************************************)
(* Theorems about NodeService, for any number of callers, mining loops,    *)
(* tasks, services and closers.                                            *)
(*                                                                         *)
(* LedgerOpenWhileUsed rests on the wait group: whoever is at work is      *)
(* registered in it (Registered), and FinishClose is the only step that    *)
(* closes the ledger and waits until nobody is (ClosedIsEmpty).            *)
(* LoopIsOwned rests on s.mining: it is set as long as a loop has not      *)
(* ended, so that there is one such loop (OneLoop).  StaleWorkIsCancelled  *)
(* rests on the order in which a job takes its channel and reads the tip   *)
(* (ChannelTaken).                                                         *)
(***************************************************************************)
EXTENDS NodeService, FiniteSetTheorems, TLAPS

Pcs == Working \cup AfterTip \cup
         {"idle", "use", "accept", "depth", "pruneNow", "keep", "again", "pause", "ending"}

Jobs == [pc : Pcs, channel : Nat, tip : Nat, left : Nat, depth : Depths]

\* The types the proof needs; the bounds of channel and tip are not among them.
Types ==
    /\ started \in BOOLEAN /\ closing \in BOOLEAN /\ open \in BOOLEAN
    /\ finisher \in {"none", "caller", "background", "done"}
    /\ tip \in Nat /\ channel \in Nat
    /\ job \in [Miners -> Jobs]
    /\ mining \in BOOLEAN /\ miningCancel \in Loops \cup {NoLoop} /\ cancelled \subseteq Loops
    /\ stored \in Depths /\ depth \in Depths
    /\ task \in [Tasks -> {"idle", "check", "add", "over"}]

\* Whoever is at work is registered: a caller or a loop inside an operation with its call,
\* a loop with its goroutine, a task until it is over.
Registered ==
    /\ \A c \in Callers : job[c].pc # "idle" => <<c, "call">> \in wait
    /\ \A l \in Loops : job[l].pc # "idle" => <<l, "loop">> \in wait
    /\ \A t \in Tasks : task[t] \in {"check", "add"} => <<t, "task">> \in wait

\* The ledger is open until Close has begun, and when it is closed nobody is registered.
ClosedIsEmpty ==
    /\ finisher = "none" => ~closing
    /\ finisher # "none" => closing
    /\ ~open => finisher = "done"
    /\ finisher = "done" => wait = {}

\* A loop that has not ended keeps s.mining, and is the only one.
OneLoop ==
    /\ \A l \in Loops : job[l].pc # "idle" => mining
    /\ \A l, m \in Loops : job[l].pc # "idle" /\ job[m].pc # "idle" => l = m

\* A job took its channel before it read the tip, and no job begins once Close has closed
\* the last channel.
ChannelTaken ==
    \A p \in Miners : job[p].pc \in Working =>
        /\ job[p].channel <= channel
        /\ closing => job[p].channel < channel

Inv ==
    /\ Types /\ Registered /\ ClosedIsEmpty /\ OneLoop /\ RunningLoopCanBeStopped
    /\ ChannelTaken /\ StaleWorkIsCancelled
-----------------------------------------------------------------------------
LEMMA IdleType == Idle \in Jobs /\ Idle.pc = "idle"
BY NodeAssumption DEF Idle, Jobs, Pcs

LEMMA InitInv == Init => Inv
<1> SUFFICES ASSUME Init PROVE Inv OBVIOUS
<1>1. Types BY NodeAssumption, IdleType DEF Init, Types
<1>2. \A p \in Miners : job[p].pc = "idle" BY IdleType DEF Init
<1>3. Registered /\ ClosedIsEmpty /\ OneLoop /\ RunningLoopCanBeStopped
  BY <1>2 DEF Init, Registered, ClosedIsEmpty, OneLoop, RunningLoopCanBeStopped, Running, Miners
<1>4. ChannelTaken /\ StaleWorkIsCancelled
  BY <1>2 DEF ChannelTaken, StaleWorkIsCancelled, Working
<1>. QED BY <1>1, <1>3, <1>4 DEF Inv

\* Every step of a caller or of a loop that changes its own job, and neither the channel nor
\* the miner's handle: its record r, and the conditions under which the invariant survives.
LEMMA JobStep ==
    ASSUME Inv, NEW p \in Miners, NEW r \in Jobs,
           job' = [job EXCEPT ![p] = r],
           UNCHANGED <<lifecycle, channel, minings>>,
           tip' \in Nat, stored' \in Depths, depth' \in Depths,
           task' \in [Tasks -> {"idle", "check", "add", "over"}],
           job[p].pc # "idle" \/ (~closing /\ p \in Callers),
           job[p].pc # "notify",
           p \in Loops => job[p].pc # "ending" /\ r.pc # "idle",
           wait \ {<<p, "call">>} \subseteq wait',
           p \in Callers /\ r.pc # "idle" => <<p, "call">> \in wait',
           \A t \in Tasks : task'[t] \in {"check", "add"} => <<t, "task">> \in wait',
           r.pc \in Working => r.channel <= channel /\ (closing => r.channel < channel),
           tip' = tip \/ r.pc = "notify",
           r.pc = "hash" => r.tip = tip'
    PROVE  Inv'
<1> USE DEF Inv
<1>1. /\ job' \in [Miners -> Jobs] /\ job'[p] = r
      /\ \A q \in Miners : q # p => job'[q] = job[q]
  BY DEF Types
<1>2. Types' BY <1>1 DEF Types, lifecycle, minings
<1>3. Registered'
  <2>1. \A c \in Callers : job'[c].pc # "idle" => <<c, "call">> \in wait'
    BY <1>1 DEF Registered, Miners
  <2>2. \A l \in Loops : job'[l].pc # "idle" => job[l].pc # "idle"
    BY <1>1, NodeAssumption DEF Miners
  <2>3. \A l \in Loops : <<l, "loop">> \in wait => <<l, "loop">> \in wait'
    OBVIOUS
  <2>. QED BY <2>1, <2>2, <2>3 DEF Registered
<1>4. ClosedIsEmpty'
  <2>1. finisher # "done"
    <3>1. CASE job[p].pc # "idle"
      <4>1. wait # {} BY <3>1 DEF Registered, Miners
      <4>. QED BY <4>1 DEF ClosedIsEmpty
    <3>2. CASE ~closing BY <3>2 DEF ClosedIsEmpty
    <3>. QED BY <3>1, <3>2
  <2>. QED BY <2>1 DEF ClosedIsEmpty, lifecycle
<1>5. \A l \in Loops : job'[l].pc # "idle" => job[l].pc # "idle"
  BY <1>1, NodeAssumption DEF Miners
<1>6. OneLoop' BY <1>5 DEF OneLoop, minings
<1>7. \A l \in Loops : job'[l].pc \notin {"idle", "ending"} => job[l].pc \notin {"idle", "ending"}
  BY <1>1, NodeAssumption DEF Miners
<1>8. RunningLoopCanBeStopped'
  BY <1>7 DEF RunningLoopCanBeStopped, Running, minings
<1>9. ChannelTaken'
  BY <1>1 DEF ChannelTaken, lifecycle
<1>10. StaleWorkIsCancelled'
  <2> SUFFICES ASSUME NEW q \in Miners, job'[q].pc = "hash", job'[q].tip # tip'
               PROVE  job'[q].channel < channel' \/ \E m \in Miners : job'[m].pc = "notify"
    BY DEF StaleWorkIsCancelled, Closed
  <2>1. CASE r.pc = "notify" BY <1>1, <2>1
  <2>2. CASE r.pc # "notify"
    <3>1. q # p /\ tip' = tip BY <1>1, <2>2
    <3>2. job[q].pc = "hash" /\ job[q].tip # tip /\ job'[q] = job[q] BY <1>1, <3>1
    <3>3. Closed(job[q].channel) \/ \E m \in Miners : job[m].pc = "notify"
      BY <3>2 DEF StaleWorkIsCancelled
    <3>4. \A m \in Miners : job[m].pc = "notify" => job'[m].pc = "notify" BY <1>1
    <3>. QED BY <3>2, <3>3, <3>4 DEF Closed
  <2>. QED BY <2>1, <2>2
<1>. QED BY <1>2, <1>3, <1>4, <1>6, <1>8, <1>9, <1>10
-----------------------------------------------------------------------------
\* What a task needs of a step that leaves tasks alone: it stays registered.
LEMMA TasksRegistered ==
    ASSUME Inv, NEW p, wait \ {<<p, "call">>} \subseteq wait', UNCHANGED task
    PROVE  /\ task' \in [Tasks -> {"idle", "check", "add", "over"}]
           /\ \A t \in Tasks : task'[t] \in {"check", "add"} => <<t, "task">> \in wait'
BY DEF Inv, Types, Registered

\* The end of an operation: a caller is done, a loop goes on.
LEMMA Leaves ==
    ASSUME Inv, NEW p \in Miners, NEW x \in {"again", "pause", "ending"},
           job[p].pc \notin {"idle", "notify", "ending"},
           job' = Returned(p, x), wait' = wait \ {<<p, "call">>},
           UNCHANGED <<lifecycle, tip, channel, minings, task>>,
           stored' \in Depths, depth' \in Depths
    PROVE  Inv'
<1> DEFINE r == IF p \in Loops THEN [Idle EXCEPT !.pc = x] ELSE Idle
<1>1. r \in Jobs /\ r.pc \in {"idle", x} /\ (p \in Loops => r.pc = x) /\ (p \in Callers => r.pc = "idle")
  BY NodeAssumption DEF Idle, Jobs, Pcs
<1>2. job' = [job EXCEPT ![p] = r] BY DEF Returned
<1>3. tip' \in Nat BY DEF Inv, Types
<1>. HIDE DEF r
<1>. QED BY <1>1, <1>2, <1>3, JobStep, TasksRegistered DEF Working

\* A caller's end is the same for the two ways the model writes it.
LEMMA CallerLeaves ==
    ASSUME Inv, NEW c \in Callers, job[c].pc \notin {"idle", "notify", "ending"},
           job' = [job EXCEPT ![c] = Idle], wait' = wait \ {<<c, "call">>},
           UNCHANGED <<lifecycle, tip, channel, minings, task>>,
           stored' \in Depths, depth' \in Depths
    PROVE  Inv'
<1>1. c \in Miners /\ c \notin Loops BY NodeAssumption DEF Miners
<1>2. job' = Returned(c, "again") BY <1>1 DEF Returned
<1>. QED BY <1>1, <1>2, Leaves

\* A step inside an operation: only the place in it, and perhaps the tip, change.
LEMMA Moves ==
    ASSUME Inv, NEW p \in Miners, NEW x \in Pcs,
           job[p].pc \notin {"idle", "notify", "ending"}, x \notin {"idle", "build", "hash"},
           x = "found" => job[p].pc = "hash",
           job' = At(p, x), tip' \in Nat, tip' = tip \/ x = "notify",
           UNCHANGED <<lifecycle, wait, channel, minings, task>>,
           stored' \in Depths, depth' \in Depths
    PROVE  Inv'
<1> DEFINE r == [job[p] EXCEPT !.pc = x]
<1>1. job[p] \in Jobs BY DEF Inv, Types
<1>2. r \in Jobs /\ r.pc = x /\ r.channel = job[p].channel BY <1>1 DEF Jobs
<1>3. job' = [job EXCEPT ![p] = r] BY DEF At
<1>4. r.pc \in Working => r.channel <= channel /\ (closing => r.channel < channel)
  BY <1>2 DEF Inv, ChannelTaken, Working
<1>5. p \in Callers => <<p, "call">> \in wait' BY DEF Inv, Registered
<1>. HIDE DEF r
<1>. QED BY <1>2, <1>3, <1>4, <1>5, JobStep, TasksRegistered

\* The start of an operation of a caller that is let in.
LEMMA Begins ==
    ASSUME Inv, NEW c \in Callers, NEW r \in Jobs, r.pc \notin Working, 
           job[c].pc = "idle", Admitted,
           wait' = wait \cup {<<c, "call">>}, job' = [job EXCEPT ![c] = r],
           UNCHANGED <<lifecycle, tip, channel, minings, depths, health>>
    PROVE  Inv'
<1>1. c \in Miners /\ c \notin Loops BY NodeAssumption DEF Miners
<1>2. tip' \in Nat /\ stored' \in Depths /\ depth' \in Depths BY DEF Inv, Types, depths
<1>. QED BY <1>1, <1>2, JobStep, TasksRegistered DEF Admitted, health, Working

LEMMA CallStep == ASSUME Inv, NEW c \in Callers, Call(c) PROVE Inv'
<1> USE DEF depths, health
<1>a. /\ c \in Miners /\ Working \subseteq Pcs /\ AfterTip \subseteq Pcs
      /\ {"use", "accept", "depth", "pruneNow", "keep"} \subseteq Pcs
  BY DEF Miners, Pcs
<1>b. tip \in Nat /\ stored \in Depths /\ depth \in Depths /\ job[c] \in Jobs
  BY <1>a DEF Inv, Types
<1>c. \A x \in Pcs : \A d \in Depths : 
        /\ [Idle EXCEPT !.pc = x] \in Jobs /\ [Idle EXCEPT !.pc = x].pc = x
        /\ [Idle EXCEPT !.pc = x, !.depth = d] \in Jobs /\ [Idle EXCEPT !.pc = x, !.depth = d].pc = x
  BY NodeAssumption DEF Idle, Jobs
<1>1. CASE BeginUse(c) BY <1>1, <1>a, <1>b, <1>c, Begins DEF BeginUse, Begin, Working
<1>2. CASE EndUse(c) BY <1>2, <1>b, CallerLeaves DEF EndUse
<1>3. CASE ResolveHealthEvent(c) BY <1>3, <1>b, CallerLeaves DEF ResolveHealthEvent
<1>4. CASE BeginAccept(c) BY <1>4, <1>a, <1>b, <1>c, Begins DEF BeginAccept, Begin, Working
<1>5. CASE AcceptBlock(c) BY <1>5, <1>a, <1>b, Moves DEF AcceptBlock, AfterTip
<1>6. CASE RefuseBlock(c) BY <1>6, <1>b, CallerLeaves DEF RefuseBlock
<1>7. CASE \E d \in Depths : BeginPruneLedger(c, d)
  <2>1. PICK d \in Depths : BeginPruneLedger(c, d) BY <1>7
  <2>. QED BY <2>1, <1>a, <1>c, Begins DEF BeginPruneLedger, Working
<1>8. CASE SetPruneDepth(c)
  <2>1. job[c].depth \in Depths BY <1>b DEF Jobs
  <2>. QED BY <1>8, <2>1, <1>a, <1>b, Moves DEF SetPruneDepth
<1>9. CASE PruneNow(c) BY <1>9, <1>a, <1>b, Moves DEF PruneNow
<1>10. CASE PruneNowFails(c) BY <1>10, <1>b, CallerLeaves DEF PruneNowFails
<1>11. CASE KeepDepth(c)
  <2>1. job[c].depth \in Depths BY <1>b DEF Jobs
  <2>. QED BY <1>11, <2>1, <1>b, CallerLeaves DEF KeepDepth
<1>. QED BY <1>1, <1>2, <1>3, <1>4, <1>5, <1>6, <1>7, <1>8, <1>9, <1>10, <1>11 DEF Call

\* MineOnce and what follows a new tip.
LEMMA MineStep == ASSUME Inv, NEW p \in Miners, Mine(p) PROVE Inv'
<1> USE DEF depths, health
<1>a. Working \subseteq Pcs /\ AfterTip \subseteq Pcs BY DEF Pcs
<1>b. tip \in Nat /\ channel \in Nat /\ stored \in Depths /\ depth \in Depths /\ job[p] \in Jobs
  BY DEF Inv, Types
<1>c. p \in Callers \/ p \in Loops BY DEF Miners
<1>d. job[p].pc # "idle" /\ p \in Callers => <<p, "call">> \in wait BY DEF Inv, Registered
<1>1. CASE MineBegin(p)
  <2> DEFINE r == [Idle EXCEPT !.pc = "build", !.channel = channel, !.left = MaxRefresh]
  <2>1. r \in Jobs /\ r.pc = "build" /\ r.channel = channel
    BY <1>a, <1>b, NodeAssumption DEF Idle, Jobs, Working
  <2>2. job' = [job EXCEPT ![p] = r] BY <1>1 DEF MineBegin
  <2>. HIDE DEF r
  <2>3. ~closing /\ wait' = wait \cup {<<p, "call">>} /\ UNCHANGED <<lifecycle, tip, channel, minings, depths, task>>
    BY <1>1 DEF MineBegin, Admitted
  <2>4. job[p].pc = "again" \/ (job[p].pc = "idle" /\ p \in Callers /\ p \notin Loops)
    BY <1>1, NodeAssumption DEF MineBegin
  <2>5. r.pc \in Working => r.channel <= channel /\ (closing => r.channel < channel)
    BY <2>1, <2>3, <1>b
  <2>. QED BY <2>1, <2>2, <2>3, <2>4, <2>5, <1>b, JobStep, TasksRegistered
<1>2. CASE BuildMiningCandidate(p)
  <2> DEFINE r == [job[p] EXCEPT !.pc = "hash", !.tip = tip]
  <2>1. r \in Jobs /\ r.pc = "hash" /\ r.channel = job[p].channel /\ r.tip = tip
    BY <1>a, <1>b DEF Jobs, Working
  <2>2. job' = [job EXCEPT ![p] = r] BY <1>2 DEF BuildMiningCandidate
  <2>3. job[p].channel <= channel /\ (closing => job[p].channel < channel)
    BY <1>2 DEF BuildMiningCandidate, Inv, ChannelTaken, Working
  <2>. HIDE DEF r
  <2>. QED BY <1>2, <1>b, <1>d, <2>1, <2>2, <2>3, JobStep, TasksRegistered DEF BuildMiningCandidate
<1>3. CASE MineCancelled(p) BY <1>3, <1>b, Leaves DEF MineCancelled, Working
<1>4. CASE TipCancels(p) BY <1>4, <1>b, Leaves DEF TipCancels
<1>5. CASE DifficultyRefresh(p)
  <2> DEFINE r == [job[p] EXCEPT !.pc = "build", !.left = @ - 1]
  <2>1. r \in Jobs /\ r.pc = "build" /\ r.channel = job[p].channel
    <3>1. job[p].left - 1 \in Nat BY <1>5, <1>b DEF DifficultyRefresh, Jobs
    <3>. QED BY <3>1, <1>a, <1>b DEF Jobs, Working
  <2>2. job' = [job EXCEPT ![p] = r] BY <1>5 DEF DifficultyRefresh
  <2>3. job[p].channel <= channel /\ (closing => job[p].channel < channel)
    BY <1>5 DEF DifficultyRefresh, Inv, ChannelTaken, Working
  <2>. HIDE DEF r
  <2>. QED BY <1>5, <1>b, <1>d, <2>1, <2>2, <2>3, JobStep, TasksRegistered DEF DifficultyRefresh
<1>6. CASE FindBlock(p) BY <1>6, <1>a, <1>b, Moves DEF FindBlock, Working
<1>7. CASE CommitMinedBlock(p) BY <1>7, <1>a, <1>b, Moves DEF CommitMinedBlock, AfterTip
<1>8. CASE CommitFails(p) BY <1>8, <1>b, Leaves DEF CommitFails
<1>9. CASE MineFails(p) BY <1>9, <1>b, Leaves DEF MineFails
<1>10. CASE NotifyTipChanged(p)
  <2>1. /\ job' \in [Miners -> Jobs] /\ job'[p].pc = "maybe"
        /\ \A q \in Miners : q # p => job'[q] = job[q]
    BY <1>10, <1>a DEF NotifyTipChanged, At, Inv, Types, Jobs, AfterTip
  <2>2. channel' \in Nat /\ channel <= channel' /\ (~closing => channel' = channel + 1)
    BY <1>10, <1>b DEF NotifyTipChanged
  <2>3. Types' BY <1>10, <2>1, <2>2 DEF NotifyTipChanged, Inv, Types, lifecycle, minings
  <2>4. Registered' BY <1>10, <2>1 DEF NotifyTipChanged, Inv, Registered, Miners
  <2>5. ClosedIsEmpty' BY <1>10 DEF NotifyTipChanged, Inv, ClosedIsEmpty, lifecycle
  <2>6. OneLoop' /\ RunningLoopCanBeStopped'
    BY <1>10, <2>1 DEF NotifyTipChanged, Inv, OneLoop, RunningLoopCanBeStopped, Running, Miners, minings
  <2>7. \A q \in Miners : job'[q].pc \in Working => /\ job[q].pc \in Working /\ job'[q] = job[q]
                                                    /\ job'[q].channel < channel'
    <3> SUFFICES ASSUME NEW q \in Miners, job'[q].pc \in Working
                 PROVE  /\ job[q].pc \in Working /\ job'[q] = job[q] /\ job'[q].channel < channel'
      OBVIOUS
    <3>1. q # p /\ job'[q] = job[q] BY <2>1 DEF Working
    <3>2. job[q].channel \in Nat BY DEF Inv, Types, Jobs
    <3>. QED BY <3>1, <3>2, <2>2, <1>b, <1>10 DEF Inv, ChannelTaken, NotifyTipChanged
  <2>8. ChannelTaken' /\ StaleWorkIsCancelled'
    <3>1. \A q \in Miners : job'[q].pc \in Working => job'[q].channel \in Nat BY <2>1 DEF Jobs
    <3>. QED BY <2>7, <2>2, <3>1 DEF ChannelTaken, StaleWorkIsCancelled, Closed, Working
  <2>. QED BY <2>3, <2>4, <2>5, <2>6, <2>8 DEF Inv
<1>11. CASE MaybePrune(p)
  <2>1. CASE depth = 0 BY <1>11, <2>1, <1>b, Leaves DEF MaybePrune
  <2>2. CASE depth # 0
    <3> DEFINE r == [job[p] EXCEPT !.pc = "prune", !.depth = depth]
    <3>1. r \in Jobs /\ r.pc = "prune" BY <1>a, <1>b DEF Jobs, AfterTip
    <3>2. job' = [job EXCEPT ![p] = r] BY <1>11, <2>2 DEF MaybePrune
    <3>. HIDE DEF r
    <3>. QED BY <1>11, <2>2, <1>b, <1>d, <3>1, <3>2, JobStep, TasksRegistered DEF MaybePrune, Working
  <2>. QED BY <2>1, <2>2
<1>12. CASE Prune(p) BY <1>12, <1>b, Leaves DEF Prune
<1>13. CASE PruneFails(p)
  <2> DEFINE r == IF p \in Loops THEN [Idle EXCEPT !.pc = "again"] ELSE Idle
  <2>1. r \in Jobs /\ r.pc \in {"idle", "again"} /\ (p \in Loops => r.pc = "again") /\ (p \in Callers => r.pc = "idle")
    BY NodeAssumption DEF Idle, Jobs, Pcs
  <2>2. job' = [job EXCEPT ![p] = r] BY <1>13 DEF PruneFails, Returned
  <2>. HIDE DEF r
  <2>3. /\ wait \ {<<p, "call">>} \subseteq wait'
        /\ task' \in [Tasks -> {"idle", "check", "add", "over"}]
        /\ \A t \in Tasks : task'[t] \in {"check", "add"} => <<t, "task">> \in wait'
    BY <1>13 DEF PruneFails, Inv, Types, Registered
  <2>. QED BY <1>13, <1>b, <2>1, <2>2, <2>3, JobStep DEF PruneFails, Working
<1>. QED BY <1>1, <1>2, <1>3, <1>4, <1>5, <1>6, <1>7, <1>8, <1>9, <1>10, <1>11, <1>12, <1>13 DEF Mine

\* The continuous miner: StartMining, and the end of a loop.
LEMMA LoopStep == ASSUME Inv, NEW l \in Loops, Loop(l) PROVE Inv'
<1> USE DEF depths, health
<1>a. l \in Miners /\ l \notin Callers /\ {"again", "pause", "ending", "idle"} \subseteq Pcs
  BY NodeAssumption DEF Miners, Pcs
<1>b. tip \in Nat /\ channel \in Nat /\ stored \in Depths /\ depth \in Depths /\ job[l] \in Jobs
  BY <1>a DEF Inv, Types
<1>1. CASE StartMining(l)
  <2>1. /\ job' \in [Miners -> Jobs] /\ job'[l].pc = "again"
        /\ \A q \in Miners : q # l => job'[q] = job[q]
    BY <1>1, <1>a, IdleType DEF StartMining, Inv, Types, Idle, Jobs
  <2>2. \A m \in Loops : job[m].pc = "idle" BY <1>1 DEF StartMining, Inv, OneLoop
  <2>3. \A m \in Loops : m # l => job'[m].pc = "idle" BY <2>1, <2>2 DEF Miners
  <2>4. Types' BY <1>1, <2>1 DEF StartMining, Inv, Types, lifecycle
  <2>5. Registered'
    <3>1. \A c \in Callers : c # l /\ job'[c] = job[c] BY <1>a, <2>1 DEF Miners
    <3>. QED BY <1>1, <2>3, <3>1 DEF StartMining, Inv, Registered
  <2>6. ClosedIsEmpty' BY <1>1 DEF StartMining, Inv, ClosedIsEmpty, lifecycle
  <2>7. OneLoop' /\ RunningLoopCanBeStopped'
    BY <1>1, <2>1, <2>3 DEF StartMining, OneLoop, RunningLoopCanBeStopped, Running
  <2>8. ChannelTaken' BY <1>1, <2>1 DEF StartMining, Inv, ChannelTaken, lifecycle, Working
  <2>9. StaleWorkIsCancelled'
    BY <1>1, <2>1 DEF StartMining, Inv, StaleWorkIsCancelled, Closed, lifecycle
  <2>. QED BY <2>4, <2>5, <2>6, <2>7, <2>8, <2>9 DEF Inv
<1>2. CASE MineRefused(l) BY <1>2, <1>a, <1>b, Moves DEF MineRefused
<1>3. CASE PauseOver(l) BY <1>3, <1>a, <1>b, Moves DEF PauseOver
<1>4. CASE LoopEnds(l)
  <2>1. /\ job' \in [Miners -> Jobs] /\ job'[l].pc = "idle"
        /\ \A q \in Miners : q # l => job'[q] = job[q]
    BY <1>4, <1>a, IdleType DEF LoopEnds, Inv, Types
  <2>2. \A m \in Loops : job'[m].pc = "idle" BY <1>4, <2>1 DEF LoopEnds, Inv, OneLoop, Miners
  <2>3. Types' BY <1>4, <2>1 DEF LoopEnds, Inv, Types, lifecycle
  <2>4. Registered'
    <3>1. \A c \in Callers : c # l /\ job'[c] = job[c] BY <1>a, <2>1 DEF Miners
    <3>. QED BY <1>4, <2>2, <3>1 DEF LoopEnds, Inv, Registered
  <2>5. ClosedIsEmpty' BY <1>4 DEF LoopEnds, Inv, ClosedIsEmpty, lifecycle
  <2>6. OneLoop' /\ RunningLoopCanBeStopped' BY <2>2 DEF OneLoop, RunningLoopCanBeStopped, Running
  <2>7. ChannelTaken' BY <1>4, <2>1 DEF LoopEnds, Inv, ChannelTaken, lifecycle, Working
  <2>8. StaleWorkIsCancelled'
    BY <1>4, <2>1 DEF LoopEnds, Inv, StaleWorkIsCancelled, Closed, lifecycle
  <2>. QED BY <2>3, <2>4, <2>5, <2>6, <2>7, <2>8 DEF Inv
<1>5. CASE LoopDone(l)
  <2>1. Registered' BY <1>5, <1>a DEF LoopDone, Inv, Registered
  <2>2. ClosedIsEmpty' BY <1>5 DEF LoopDone, Inv, ClosedIsEmpty, lifecycle
  <2>3. Types' /\ OneLoop' /\ RunningLoopCanBeStopped'
    BY <1>5 DEF LoopDone, Inv, Types, OneLoop, RunningLoopCanBeStopped, Running, lifecycle, minings
  <2>4. ChannelTaken' /\ StaleWorkIsCancelled'
    BY <1>5 DEF LoopDone, Inv, ChannelTaken, StaleWorkIsCancelled, Closed, lifecycle
  <2>. QED BY <2>1, <2>2, <2>3, <2>4 DEF Inv
<1>. QED BY <1>1, <1>2, <1>3, <1>4, <1>5 DEF Loop

\* Steps that leave every job and the channel alone, and do not register anyone who is closed.
LEMMA JobsUntouched ==
    ASSUME Inv, UNCHANGED <<job, tip, channel, closing, minings>>
    PROVE  OneLoop' /\ RunningLoopCanBeStopped' /\ ChannelTaken' /\ StaleWorkIsCancelled'
BY DEF Inv, OneLoop, RunningLoopCanBeStopped, Running, ChannelTaken, StaleWorkIsCancelled, Closed, minings

\* Tasks, the services, and the operator's Start and StopMining.
LEMMA OtherStep ==
    ASSUME Inv,
           \/ Start \/ StopMining
           \/ \E t \in Tasks : CheckHealth(t) \/ AddHealthEvent(t)
           \/ \E s \in Services : ServiceEnds(s)
    PROVE  Inv'
<1> USE DEF depths, health, lifecycle
<1>1. CASE Start
  <2>1. Registered' /\ ClosedIsEmpty' BY <1>1 DEF Start, Inv, Registered, ClosedIsEmpty
  <2>2. Types' BY <1>1 DEF Start, Inv, Types, minings
  <2>. QED BY <1>1, <2>1, <2>2, JobsUntouched DEF Start, Inv
<1>2. CASE StopMining
  <2>1. Types' BY <1>2 DEF StopMining, Inv, Types
  <2>2. Registered' /\ ClosedIsEmpty' /\ OneLoop' BY <1>2 DEF StopMining, Inv, Registered, ClosedIsEmpty, OneLoop
  <2>3. RunningLoopCanBeStopped' BY <1>2 DEF StopMining, Inv, RunningLoopCanBeStopped, Running
  <2>4. ChannelTaken' /\ StaleWorkIsCancelled'
    BY <1>2 DEF StopMining, Inv, ChannelTaken, StaleWorkIsCancelled, Closed
  <2>. QED BY <2>1, <2>2, <2>3, <2>4 DEF Inv
<1>3. CASE \E t \in Tasks : CheckHealth(t) \/ AddHealthEvent(t)
  <2>1. PICK t \in Tasks : CheckHealth(t) \/ AddHealthEvent(t) BY <1>3
  <2>2. /\ UNCHANGED <<lifecycle, tip, channel, job, minings, depths>>
        /\ wait \ {<<t, "task">>} \subseteq wait' /\ wait' \subseteq wait
        /\ task' \in [Tasks -> {"idle", "check", "add", "over"}]
        /\ \A u \in Tasks : u # t => task'[u] = task[u]
        /\ task'[t] \in {"check", "add"} => wait' = wait
    BY <2>1 DEF CheckHealth, AddHealthEvent, Inv, Types
  <2>3. task[t] \in {"check", "add"} BY <2>1 DEF CheckHealth, AddHealthEvent
  <2>4. Registered' BY <2>2, <2>3 DEF Inv, Registered
  <2>5. ClosedIsEmpty' BY <2>2 DEF Inv, ClosedIsEmpty
  <2>6. Types' BY <2>2 DEF Inv, Types, minings
  <2>. QED BY <2>2, <2>4, <2>5, <2>6, JobsUntouched DEF Inv
<1>4. CASE \E s \in Services : ServiceEnds(s)
  <2>1. PICK s \in Services : ServiceEnds(s) BY <1>4
  <2>2. Registered' /\ ClosedIsEmpty' BY <2>1 DEF ServiceEnds, Inv, Registered, ClosedIsEmpty
  <2>3. Types' BY <2>1 DEF ServiceEnds, Inv, Types, minings
  <2>. QED BY <2>1, <2>2, <2>3, JobsUntouched DEF ServiceEnds, Inv
<1>. QED BY <1>1, <1>2, <1>3, <1>4

\* Close: its first caller, whoever joins it, its timeout and its end.
LEMMA CloseStep ==
    ASSUME Inv,
           \/ FinishClose
           \/ \E c \in Closers : Close(c) \/ CloseAgain(c) \/ CloseTimesOut(c) \/ JoinClose(c)
    PROVE  Inv'
<1> USE DEF depths, health
<1>1. CASE FinishClose
  <2>1. Types' BY <1>1 DEF FinishClose, Inv, Types, minings
  <2>2. Registered' /\ ClosedIsEmpty' BY <1>1 DEF FinishClose, Inv, Registered, ClosedIsEmpty
  <2>. QED BY <1>1, <2>1, <2>2, JobsUntouched DEF FinishClose, Inv
<1>2. ASSUME NEW c \in Closers, Close(c) PROVE Inv'
  <2>1. channel \in Nat /\ channel' = channel + 1 /\ ~closing /\ closing' = TRUE
    BY <1>2 DEF Close, Inv, Types
  <2>2. Types' BY <1>2, <2>1 DEF Close, Inv, Types
  <2>3. Registered' BY <1>2 DEF Close, Inv, Registered
  <2>4. ClosedIsEmpty' BY <1>2 DEF Close, Inv, ClosedIsEmpty
  <2>5. OneLoop' /\ RunningLoopCanBeStopped'
    BY <1>2, NoLoopAssumption DEF Close, Inv, OneLoop, RunningLoopCanBeStopped, Running
  <2>6. \A p \in Miners : job[p].pc \in Working => job[p].channel < channel'
    <3>1. \A p \in Miners : job[p].channel \in Nat BY DEF Inv, Types, Jobs
    <3>. QED BY <2>1, <3>1 DEF Inv, ChannelTaken
  <2>7. ChannelTaken' /\ StaleWorkIsCancelled'
    <3>1. \A p \in Miners : job[p].channel \in Nat BY DEF Inv, Types, Jobs
    <3>. QED BY <1>2, <2>1, <2>6, <3>1 DEF Close, ChannelTaken, StaleWorkIsCancelled, Closed, Working
  <2>. QED BY <2>2, <2>3, <2>4, <2>5, <2>7 DEF Inv
<1>3. ASSUME NEW c \in Closers, CloseAgain(c) \/ CloseTimesOut(c) \/ JoinClose(c) PROVE Inv'
  <2>1. /\ UNCHANGED <<started, closing, open, wait, tip, channel, job, minings, depths, health>>
        /\ finisher' = finisher \/ (finisher' = "background" /\ finisher = "caller")
    BY <1>3 DEF CloseAgain, CloseTimesOut, JoinClose
  <2>2. Types' BY <2>1 DEF Inv, Types, minings
  <2>3. Registered' /\ ClosedIsEmpty' BY <2>1 DEF Inv, Registered, ClosedIsEmpty
  <2>. QED BY <2>1, <2>2, <2>3, JobsUntouched DEF Inv
<1>. QED BY <1>1, <1>2, <1>3

LEMMA InvStep == ASSUME Inv, [Next]_vars PROVE Inv'
<1>1. CASE Next BY <1>1, CallStep, MineStep, LoopStep, OtherStep, CloseStep DEF Next
<1>2. CASE UNCHANGED vars
  <2>1. Types' BY <1>2 DEF vars, lifecycle, minings, depths, health, Inv, Types
  <2>2. Registered' /\ ClosedIsEmpty' BY <1>2 DEF vars, lifecycle, health, Inv, Registered, ClosedIsEmpty
  <2>. QED BY <1>2, <2>1, <2>2, JobsUntouched DEF vars, lifecycle, Inv
<1>. QED BY <1>1, <1>2

LEMMA InvHolds == Spec => []Inv
BY InitInv, InvStep, PTL DEF Spec
-----------------------------------------------------------------------------
\* While an operation, a mining loop or a background task is under way, finishClose has
\* not closed the ledger, also where the Close that waits for it has timed out.
THEOREM OpenWhileUsed == Spec => []LedgerOpenWhileUsed
<1>1. Inv => LedgerOpenWhileUsed
  BY DEF Inv, Types, Registered, ClosedIsEmpty, LedgerOpenWhileUsed, Miners
<1>. QED BY <1>1, InvHolds, PTL

\* StartMining, StopMining and Close leave at most one loop, which s.miningCancel stops.
THEOREM LoopOwned == Spec => []LoopIsOwned
<1>1. ASSUME Inv PROVE LoopIsOwned
  <2> DEFINE R == {l \in Loops : Running(l)}
  <2>1. Cardinality(R) <= 1
    <3>1. CASE R = {} BY <3>1, FS_EmptySet
    <3>2. CASE R # {}
      <4>1. PICK l \in Loops : l \in R BY <3>2
      <4>2. R = {l} BY <1>1, <4>1 DEF Inv, OneLoop, Running
      <4>. QED BY <4>2, FS_Singleton, SMTT(30)
    <3>. QED BY <3>1, <3>2
  <2>. QED BY <1>1, <2>1 DEF LoopIsOwned, OneMiningLoop, Inv
<1>. QED BY <1>1, InvHolds, PTL

\* A job that hashes on an old tip has a closed channel to tell it so, or the step that
\* closes the channel is still to come, for whatever tips arrive while it is built and rebuilt.
THEOREM StaleCancelled == Spec => []StaleWorkIsCancelled
<1>1. Inv => StaleWorkIsCancelled BY DEF Inv
<1>. QED BY <1>1, InvHolds, PTL
=============================================================================
