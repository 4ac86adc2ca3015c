------------------------------- MODULE Session -------------------------------
(***************************************************************************)
(* A node on its data directory: the start of NewContext                   *)
(* (internal/node/service.go) with Open and Close of the ledger            *)
(* (internal/ledger/ledger.go), the files an older version left            *)
(* (internal/node/migration.go, internal/store/store.go), and the end of   *)
(* the process at any step.                                                *)
(*                                                                         *)
(* SQLite runs with a write-ahead log: committed is what a connection      *)
(* sees, main what the database file has without the log, which a          *)
(* checkpoint brings up to date.  Commits are durable (synchronous=FULL).  *)
(* No retention is asked for but the initial one of the desktop.           *)
(***************************************************************************)
EXTENDS Integers, FiniteSets

CONSTANTS Starts,        \* the ledgers the directory may hold at first: "none", "old"
          OldPeers,      \* the peers of peers.json
          MaxBlocks,     \* bound of the model: blocks connected
          MaxEnds        \* bound of the model: crashes and failed steps

ASSUME SessionAssumption ==
    Starts \subseteq {"none", "old"} /\ MaxBlocks \in Nat \ {0} /\ MaxEnds \in Nat

VARIABLES exists,      \* entropy.db does
          committed, main,
          chainFile, peersFile,   \* chain.json and peers.json
          backup,      \* a .migrated.bak is in the way of a new one
          step,        \* where the process is
          existing,    \* nodeDataExists, as read at the start
          ends

files == <<chainFile, peersFile, backup>>
database == <<exists, committed, main>>
vars == <<database, files, step, existing, ends>>

\* What the tables say: genesis and protocol, the clean marker, the chain that
\* was imported and the blocks connected to it, the peers, the retention.
Content ==
    [identity : BOOLEAN, marker : {"unknown", "dirty", "clean"}, base : {"genesis", "legacy"},
     blocks : 0..MaxBlocks, peers : SUBSET OldPeers, depth : {"archive", "initial"}]

Empty == [identity |-> FALSE, marker |-> "unknown", base |-> "genesis",
          blocks |-> 0, peers |-> {}, depth |-> "archive"]

\* Those that have the database open.
Opening == {"genesis", "marker", "check", "dirty"}
Started == {"chain", "archiveChain", "peers", "archivePeers", "depth", "run"}
Closing == {"close", "markClean", "final", "unmark", "shut"}

TypeOK ==
    /\ exists \in BOOLEAN /\ committed \in Content /\ main \in Content
    /\ chainFile \in {"none", "present", "archived"} /\ peersFile \in {"none", "present", "archived"}
    /\ backup \in BOOLEAN
    /\ step \in {"off", "inspect", "connect"} \cup Opening \cup Started \cup Closing
    /\ existing \in BOOLEAN /\ ends \in 0..MaxEnds
    /\ step \in Started => exists /\ committed.identity /\ committed.marker = "dirty"

\* A ledger from an earlier session was closed, and is at genesis or beyond.
Init ==
    /\ \E start \in Starts, blocks \in 0..1 :
          /\ exists = (start = "old")
          /\ committed = IF start = "old"
                           THEN [Empty EXCEPT !.identity = TRUE, !.marker = "clean", !.blocks = blocks]
                           ELSE Empty
          /\ main = committed
    /\ chainFile \in {"none", "present"} /\ peersFile \in {"none", "present"} /\ backup \in BOOLEAN
    /\ step = "off" /\ existing = FALSE /\ ends = 0

Goto(from, to) == step = from /\ step' = to

\* NewContext looks for node data and takes the lock of the directory.
Start ==
    /\ Goto("off", "inspect")
    /\ existing' = (exists \/ chainFile = "present")
    /\ UNCHANGED <<database, files, ends>>

\* inspectLedgerPath, and verifyExistingNetworkIdentity, which opens the file
\* as immutable: what is in the log only is not seen.
Inspect ==
    /\ Goto("inspect", "connect")
    /\ IF exists THEN main.identity ELSE chainFile # "present"
    /\ UNCHANGED <<database, files, existing, ends>>

Refuse ==
    /\ Goto("inspect", "off")
    /\ IF exists THEN ~main.identity ELSE chainFile = "present"
    /\ UNCHANGED <<database, files, existing, ends>>

\* The first connection makes the file, with no table in it.
Connect ==
    /\ Goto("connect", "genesis")
    /\ exists' = TRUE
    /\ UNCHANGED <<committed, main, files, existing, ends>>

\* migrateSchema and ensureGenesis.
EnsureGenesis ==
    /\ Goto("genesis", "marker")
    /\ committed' = [committed EXCEPT !.identity = TRUE]
    /\ UNCHANGED <<exists, main, files, existing, ends>>

\* prepareSession: quickCheck is needed after an unclean end only.
ReadMarker ==
    /\ step = "marker"
    /\ step' = IF committed.marker = "clean" THEN "dirty" ELSE "check"
    /\ UNCHANGED <<database, files, existing, ends>>

QuickCheck ==
    /\ Goto("check", "dirty")
    /\ UNCHANGED <<database, files, existing, ends>>

\* Mutant: a routine start leaves the marker as it is.
MarkNothing ==
    /\ Goto("dirty", "chain")
    /\ UNCHANGED <<database, files, existing, ends>>

MarkDirty ==
    /\ Goto("dirty", "chain")
    /\ committed' = [committed EXCEPT !.marker = "dirty"]
    /\ UNCHANGED <<exists, main, files, existing, ends>>
-----------------------------------------------------------------------------
AtGenesis == committed.base = "genesis" /\ committed.blocks = 0
AtLegacyTip == committed.base = "legacy" /\ committed.blocks = 0

\* migrateLegacyState: imports into a fresh ledger, in one transaction.
ImportState ==
    /\ chainFile = "present" /\ AtGenesis
    /\ Goto("chain", "archiveChain")
    /\ committed' = [committed EXCEPT !.base = "legacy"]
    /\ UNCHANGED <<exists, main, files, existing, ends>>

\* An earlier start imported it and did not come to archive the file.
AlreadyImported ==
    /\ chainFile = "present" /\ AtLegacyTip
    /\ Goto("chain", "archiveChain")
    /\ UNCHANGED <<database, files, existing, ends>>

NoLegacyState ==
    /\ chainFile # "present"
    /\ Goto("chain", "peers")
    /\ UNCHANGED <<database, files, existing, ends>>

\* "legacy chain and SQLite ledger disagree"
Disagree ==
    /\ chainFile = "present" /\ ~AtGenesis /\ ~AtLegacyTip
    /\ Goto("chain", "close")
    /\ UNCHANGED <<database, files, existing, ends>>

ArchiveChain ==
    /\ step = "archiveChain"
    /\ IF backup THEN /\ step' = "close" /\ UNCHANGED chainFile
                 ELSE /\ step' = "peers" /\ chainFile' = "archived"
    /\ UNCHANGED <<database, peersFile, backup, existing, ends>>

\* migrateLegacyPeers stores one peer at a time.
MigratePeer(p) ==
    /\ step = "peers" /\ peersFile = "present" /\ p \notin committed.peers
    /\ committed' = [committed EXCEPT !.peers = @ \cup {p}]
    /\ UNCHANGED <<exists, main, files, step, existing, ends>>

PeersStored ==
    /\ peersFile # "present" \/ OldPeers \subseteq committed.peers
    /\ Goto("peers", IF peersFile = "present" THEN "archivePeers" ELSE "depth")
    /\ UNCHANGED <<database, files, existing, ends>>

ArchivePeers ==
    /\ step = "archivePeers"
    /\ IF backup THEN /\ step' = "close" /\ UNCHANGED peersFile
                 ELSE /\ step' = "depth" /\ peersFile' = "archived"
    /\ UNCHANGED <<database, chainFile, backup, existing, ends>>

InitialRetention ==
    /\ Goto("depth", "run")
    /\ committed' = IF existing THEN committed ELSE [committed EXCEPT !.depth = "initial"]
    /\ UNCHANGED <<exists, main, files, existing, ends>>
-----------------------------------------------------------------------------
ConnectBlock ==
    /\ step = "run" /\ committed.blocks < MaxBlocks
    /\ committed' = [committed EXCEPT !.blocks = @ + 1]
    /\ UNCHANGED <<exists, main, files, step, existing, ends>>

\* SQLite's own, when the log is long.
AutoCheckpoint ==
    /\ step \in Opening \cup Started /\ main # committed
    /\ main' = committed
    /\ UNCHANGED <<exists, committed, files, step, existing, ends>>

BeginClose ==
    /\ Goto("run", "close")
    /\ UNCHANGED <<database, files, existing, ends>>

\* Mutant: the marker is written first, and one checkpoint takes both.
MarkAtOnce ==
    /\ Goto("close", "markClean")
    /\ UNCHANGED <<database, files, existing, ends>>

\* Ledger.Close: checkpoint, mark, checkpoint again.
Checkpoint ==
    /\ Goto("close", "markClean")
    /\ main' = committed
    /\ UNCHANGED <<exists, committed, files, existing, ends>>

MarkClean ==
    /\ Goto("markClean", "final")
    /\ committed' = [committed EXCEPT !.marker = "clean"]
    /\ UNCHANGED <<exists, main, files, existing, ends>>

FinalCheckpoint ==
    /\ Goto("final", "shut")
    /\ main' = committed
    /\ UNCHANGED <<exists, committed, files, existing, ends>>

\* The marker is taken back when the last checkpoint fails, if that succeeds.
Unmark ==
    /\ Goto("unmark", "shut")
    /\ \/ committed' = [committed EXCEPT !.marker = "dirty"]
       \/ UNCHANGED committed
    /\ UNCHANGED <<exists, main, files, existing, ends>>

\* The last connection checkpoints when it is closed, unless it cannot.
Shut ==
    /\ Goto("shut", "off")
    /\ main' \in {committed, main}
    /\ UNCHANGED <<exists, committed, files, existing, ends>>

\* A step fails: the context ends, the disk is full, the check finds damage.
Fails ==
    /\ ends < MaxEnds /\ ends' = ends + 1
    /\ \/ step \in {"inspect", "connect"} /\ step' = "off"
       \/ step \in Opening /\ step' = "shut"
       \/ step \in Started \ {"run"} /\ step' = "close"
       \/ step \in {"close", "markClean"} /\ step' = "shut"
       \/ step = "final" /\ step' = "unmark"
    /\ UNCHANGED <<database, files, existing>>

Crash ==
    /\ step # "off" /\ ends < MaxEnds
    /\ step' = "off" /\ ends' = ends + 1
    /\ UNCHANGED <<database, files, existing>>

Open == Inspect \/ Refuse \/ Connect \/ EnsureGenesis \/ ReadMarker \/ QuickCheck \/ MarkDirty

Migrate ==
    \/ ImportState \/ AlreadyImported \/ NoLegacyState \/ Disagree \/ ArchiveChain
    \/ \E p \in OldPeers : MigratePeer(p)
    \/ PeersStored \/ ArchivePeers

Close == BeginClose \/ Checkpoint \/ MarkClean \/ FinalCheckpoint \/ Unmark \/ Shut

Next ==
    \/ Start \/ Open \/ Migrate \/ InitialRetention
    \/ ConnectBlock \/ AutoCheckpoint \/ Close \/ Fails \/ Crash

Spec == Init /\ [][Next]_vars
-----------------------------------------------------------------------------
Data(content) == [content EXCEPT !.marker = "unknown"]

\* "clean shutdown records a checkpointed session marker": wherever the marker says clean,
\* and so the next start checks nothing, the database file has everything but the marker.
CleanMeansCheckpointed == committed.marker = "clean" => Data(main) = Data(committed)

\* What an older version left is in its files or in the ledger, whatever fails in between:
\* a file is put away only when all it holds has been committed.
LegacyIsKept ==
    /\ chainFile = "archived" => committed.base = "legacy"
    /\ peersFile = "archived" => OldPeers \subseteq committed.peers

\* Whatever fails or crashes while a ledger is opened, filled from the files of an older
\* version and closed, no later start misses what was committed: it skips its check only
\* of a database file that has everything, and finds what is not committed yet in the
\* files it came from (ledger.go:174, migration.go:39).
NoCommitIsMissed == CleanMeansCheckpointed /\ LegacyIsKept

\* "recover dirty ledger": a database in which a session was begun is not refused by the
\* next start.
DirtyLedgerIsAccepted == step = "inspect" /\ committed.marker # "unknown" => main.identity
=============================================================================
