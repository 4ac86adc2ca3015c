-------------------------------- MODULE Local --------------------------------
(***************************************************************************)
(* What one computer does for itself, in parts that share no state: the    *)
(* session of a ledger, the rules of headers, the workers that search a    *)
(* nonce, the wallets of a node, the relay that hands over to the client,  *)
(* the payments of a local agent, the download of an update and the helper *)
(* that installs it.  The constant value of part says which of them moves; *)
(* the others rest in an initial state.                                    *)
(***************************************************************************)
EXTENDS Session

CONSTANTS None, Cancelled, Exhausted,
          \* Consensus
          FirstHeaders, StartHeight, MedianBlocks, AdjustmentBlocks, FirstAdjustment, TargetSeconds,
          MaxFuture, MinimumDifficulty, MaximumDifficulty, InitialDifficulty, UpgradeHeight,
          AnchorHeight, AnchorTimestamp, AnchorDifficulty, HalfLife, Ticks, MaxHeight, MaxTime,
          \* MineWorkers
          Count, MaxNonce, CheckEvery,
          \* Wallets
          Addresses, LegacyAddress, MaxChanges, MaxCrashes,
          \* HandoffRelay
          Merchants, Codes, Requests, Capacity, MaxLaunches,
          \* LocalAgent
          Handoffs, Invoices, Original, Dedicated, MaxInterrupts,
          \* Updater, whose model has the bound MaxCrashes, too
          Sources, Calls, Size, MaxBytes, Pieces, Wrong, Unreliable, Flaky,
          \* UpdateHelper
          Helpers, MaxStarts

VARIABLES part,
          chain, now, candidate,
          valid, at, nonce, iterations, found, cancelled, stopped, caller, result,
          disk, node, op, confirming, export, migration, job, secured, ever, used, crashes,
          windows, launches, request, relayAt, queue, queued, taken, forgotten, accepted, crossing,
          alone, relayClosing,
          stage, invoice, agentStep, late, receipt, paid, directory, active, previous, agentFiles,
          expired, interrupts,
          updating, closing, call, partial, destination, launched, updateCrashes,
          target, helperBackup, staged, pc, running, quitting, starts, overlapped

Rules == INSTANCE Consensus WITH Start <- FirstHeaders

Search == INSTANCE MineWorkers

Vault == INSTANCE Wallets

Relay == INSTANCE HandoffRelay WITH at <- relayAt, closing <- relayClosing

Agent == INSTANCE LocalAgent WITH step <- agentStep, files <- agentFiles

Update == INSTANCE Updater WITH crashes <- updateCrashes

Helper == INSTANCE UpdateHelper WITH backup <- helperBackup

ASSUME LocalAssumption ==
    /\ Rules!ConsensusAssumption /\ Search!MineWorkersAssumption /\ Vault!WalletsAssumption
    /\ Relay!HandoffRelayAssumption /\ Agent!LocalAgentAssumption
    /\ Update!UpdaterAssumption /\ Helper!UpdateHelperAssumption

sessionVars == <<exists, committed, main, chainFile, peersFile, backup, step, existing, ends>>
ruleVars == <<chain, now, candidate>>
searchVars == <<valid, at, nonce, iterations, found, cancelled, stopped, caller, result>>
keyVars == <<disk, node, op, confirming, export, migration, job, secured, ever, used, crashes>>
relayVars == <<windows, launches, request, relayAt, queue, queued, taken, forgotten, accepted,
               crossing, alone, relayClosing>>
agentVars == <<stage, invoice, agentStep, late, receipt, paid, directory, active, previous,
               agentFiles, expired, interrupts>>
updateVars == <<updating, closing, call, partial, destination, launched, updateCrashes>>
helperVars == <<target, helperBackup, staged, pc, running, quitting, starts, overlapped>>

\* One initial state stands for a part at rest.
Rests ==
    /\ part # "session" => ~exists /\ chainFile = "none" /\ peersFile = "none" /\ ~backup
    /\ part # "search" => valid = {}
    /\ part # "keys" => used = {}
    /\ part # "update" => destination = <<>>

LocalInit ==
    /\ part \in {"session", "rules", "search", "keys", "relay", "agent", "update",
                 "helper"}
    /\ Init /\ Rules!Init /\ Search!Init /\ Vault!Init
    /\ Relay!Init /\ Agent!Init /\ Update!Init /\ Helper!Init
    /\ Rests

Moves(p) == part = p /\ UNCHANGED part

LocalNext ==
    \/ /\ Moves("session") /\ Next
       /\ UNCHANGED <<ruleVars, searchVars, keyVars, relayVars, agentVars, updateVars, helperVars>>
    \/ /\ Moves("rules") /\ Rules!Next
       /\ UNCHANGED <<sessionVars, searchVars, keyVars, relayVars, agentVars, updateVars, helperVars>>
    \/ /\ Moves("search") /\ Search!Next
       /\ UNCHANGED <<sessionVars, ruleVars, keyVars, relayVars, agentVars, updateVars, helperVars>>
    \/ /\ Moves("keys") /\ Vault!Next
       /\ UNCHANGED <<sessionVars, ruleVars, searchVars, relayVars, agentVars, updateVars, helperVars>>
    \/ /\ Moves("relay") /\ Relay!Next
       /\ UNCHANGED <<sessionVars, ruleVars, searchVars, keyVars, agentVars, updateVars, helperVars>>
    \/ /\ Moves("agent") /\ Agent!Next
       /\ UNCHANGED <<sessionVars, ruleVars, searchVars, keyVars, relayVars, updateVars, helperVars>>
    \/ /\ Moves("update") /\ Update!Next
       /\ UNCHANGED <<sessionVars, ruleVars, searchVars, keyVars, relayVars, agentVars, helperVars>>
    \/ /\ Moves("helper") /\ Helper!Next
       /\ UNCHANGED <<sessionVars, ruleVars, searchVars, keyVars, relayVars, agentVars, updateVars>>

localVars == <<part, sessionVars, ruleVars, searchVars, keyVars, relayVars,
               agentVars, updateVars, helperVars>>

LocalSpec == LocalInit /\ [][LocalNext]_localVars

-----------------------------------------------------------------------------
\* Every part holds values of its types.
LocalTypeOK ==
    /\ TypeOK
    /\ part = "rules" => Rules!TypeOK
    /\ part = "search" => Search!TypeOK
    /\ part = "keys" => Vault!TypeOK
    /\ part = "relay" => Relay!TypeOK
    /\ part = "agent" => Agent!TypeOK
    /\ part = "update" => Update!TypeOK
    /\ part = "helper" => Helper!TypeOK

\* A node with only the newest headers judges a header as one with the whole chain does,
\* what the miner works on is valid in a second at the latest, and it is given up exactly
\* when a new candidate is easier, around the upgrade too (block.go:151, chain.go:390).
HeadersAreAgreed ==
    part = "rules" => Rules!WindowIsEnough /\ Rules!MinedBlockIsValid /\ Rules!RefreshMeansEasier

\* A caller whose context goes on gets a block when there is one and hears "nonce space
\* exhausted" only of a block without any valid nonce, and no worker outlives the call
\* (block.go:129).
FoundOrExhausted == part = "search" => Search!FoundOrExhausted /\ Search!NoWorkerOutlives

\* The key of every wallet that existed is in a file of the data directory unless its user
\* has the phrase or a backup, and whatever says that he has it is true, although saves,
\* backups and switches fail, overlap and are cut short.  The local agent leaves another
\* profile active than the user's own only with a payment that shows an error or ended with the
\* process: its switch back may be refused, fail to be written, or never come
\* (wallet_profiles.go:58, wallet_actions.go:95 and 348, agent.go:289).
KeysAreSafe ==
    /\ part = "keys" => Vault!NoKeyLost /\ Vault!ConfirmedIsSecured /\ Vault!JobPaysActiveWallet
    /\ part = "agent" => Agent!LossIsShown

\* What the user agrees to is not used again.  A launch lets one handoff in of the requests
\* that meet no other between the check of their window and its removal, and of those that
\* do, which are both let in, no more than can be under way at once; none is queued twice or
\* refused for one that is gone.  One approval is one payment and a rejection none, and what
\* is shown as complete was paid and verified, whatever fails, is clicked again or is removed
\* meanwhile (app_entpay_relay.go:124 and 132, local_agent.go:178, agent.go:346).
ConsentIsSpentOnce ==
    /\ part = "relay" =>
        Relay!OneHandoffPerLaunch /\ Relay!LaunchBoundsHandoffs /\ Relay!DigestsMatchQueue
    /\ part = "agent" =>
        Agent!OnePaymentPerApproval /\ Agent!RejectedCreatesNothing /\ Agent!CompleteIsVerified

\* Whatever the sources serve and wherever a program or its helper is killed, only the
\* published artifact is handed to the installer, and something whole is left to start as long
\* as no two helpers have been at work at once, which a second click on the update in the
\* second before the program quits can bring about (client.go:371, launch_windows.go:135,
\* app.go:313 and 331).
UpdatesAreWhole ==
    /\ part = "update" => Update!OnlyVerifiedRuns
    /\ part = "helper" => Helper!SomethingStarts /\ Helper!RunsWhole
=============================================================================
