---------------------------- MODULE LocalProofs ---------------------------
(***************************************************************************)
(* What Local promises, for any number of peers, blocks, workers, wallets, *)
(* handoffs, sources, calls, crashes and failed steps and for any numbers  *)
(* of the consensus.                                                       *)
(*                                                                         *)
(* Each part has an inductive invariant of its own, which says what each   *)
(* step of that part relies on, because what is promised is not inductive: *)
(* a marker is written a step after the checkpoint it speaks of, a worker  *)
(* that ends says something of every nonce of its stride, and a handoff    *)
(* is let in three steps after its window was looked at.  Since the parts  *)
(* share no state, a step of another one leaves it as it is.               *)
(***************************************************************************)
EXTENDS WalletsProofs, FiniteSetTheorems, SequenceTheorems

-----------------------------------------------------------------------------
(* The session of a ledger.                                                *)

\* What has happened by the step the process is at.
SessionStepSound ==
    /\ step = "markClean" => Data(main) = Data(committed)
    /\ step = "archiveChain" => committed.base = "legacy"
    /\ step = "archivePeers" => OldPeers \subseteq committed.peers
    /\ step \in Opening \cup Started => exists
    /\ step \in {"marker", "check", "dirty", "close", "markClean"} => committed.identity

\* A ledger that was ever closed has its genesis block.
CleanIsOurs == committed.marker = "clean" => committed.identity

SessionInv == TypeOK /\ SessionStepSound /\ CleanIsOurs /\ CleanMeansCheckpointed /\ LegacyIsKept

\* The node starts in a directory as an earlier session or an older version left it.
LEMMA SessionInit == Init => SessionInv
<1> SUFFICES ASSUME Init PROVE SessionInv OBVIOUS
<1>1. PICK start \in Starts, blocks \in 0..1 :
        /\ exists = (start = "old")
        /\ committed = IF start = "old"
                         THEN [Empty EXCEPT !.identity = TRUE, !.marker = "clean", !.blocks = blocks]
                         ELSE Empty
        /\ main = committed
  BY DEF Init
<1>2. blocks \in 0..MaxBlocks /\ 0 \in 0..MaxBlocks BY SessionAssumption
<1>3. committed \in Content /\ main \in Content BY <1>1, <1>2 DEF Content, Empty
<1>4. exists \in BOOLEAN BY <1>1, Zenon
<1>5. ends \in 0..MaxEnds BY SessionAssumption DEF Init
<1>6. step = "off" /\ existing \in BOOLEAN /\ backup \in BOOLEAN BY Zenon DEF Init
<1>7. /\ chainFile \in {"none", "present", "archived"} /\ peersFile \in {"none", "present", "archived"}
      /\ step \in {"off", "inspect", "connect"} \cup Opening \cup Started \cup Closing
      /\ step \notin Started
  BY <1>6 DEF Init, Started
<1>8. TypeOK BY <1>3, <1>4, <1>5, <1>6, <1>7, Zenon DEF TypeOK
<1>9. committed.marker = "clean" => committed.identity
  <2>1. CASE start = "old"
    <3>1. committed = [Empty EXCEPT !.identity = TRUE, !.marker = "clean", !.blocks = blocks]
      BY <1>1, <2>1
    <3>. QED BY <3>1 DEF Empty
  <2>2. CASE start # "old"
    <3>1. committed = Empty BY <1>1, <2>2
    <3>. QED BY <3>1 DEF Empty
  <2>. QED BY <2>1, <2>2
<1>. QED BY <1>1, <1>8, <1>9
        DEF Init, SessionInv, SessionStepSound, CleanIsOurs, CleanMeansCheckpointed, LegacyIsKept, Opening, Started

\* What leaves the tables, the file and the older files alone keeps all that is said of them.
LEMMA Untouched ==
    ASSUME SessionInv, UNCHANGED <<database, files>>
    PROVE  CleanIsOurs' /\ CleanMeansCheckpointed' /\ LegacyIsKept'
  BY DEF SessionInv, database, files, CleanIsOurs, CleanMeansCheckpointed, LegacyIsKept, Data

LEMMA SessionOpens == ASSUME SessionInv, Start \/ Open PROVE SessionInv'
<1> USE SessionAssumption DEF SessionInv, TypeOK, SessionStepSound, Content, Opening, Started, Closing, Goto, database, files
<1>1. CASE Start BY <1>1, Untouched DEF Start
<1>2. CASE Inspect BY <1>2, Untouched DEF Inspect
<1>3. CASE Refuse BY <1>3, Untouched DEF Refuse
<1>4. CASE Connect
  BY <1>4 DEF Connect, CleanIsOurs, CleanMeansCheckpointed, LegacyIsKept, Data
<1>5. CASE EnsureGenesis
  <2>1. committed.marker = "clean" => committed' = committed
    BY <1>5 DEF EnsureGenesis, CleanIsOurs
  <2>2. /\ committed' \in Content /\ committed'.identity /\ committed'.marker = committed.marker
        /\ committed'.base = committed.base /\ committed'.peers = committed.peers
    BY <1>5 DEF EnsureGenesis
  <2>3. CleanMeansCheckpointed'
    BY <1>5, <2>1, <2>2 DEF EnsureGenesis, CleanMeansCheckpointed
  <2>. QED BY <1>5, <2>2, <2>3 DEF EnsureGenesis, CleanIsOurs, LegacyIsKept
<1>6. CASE ReadMarker BY <1>6, Untouched DEF ReadMarker
<1>7. CASE QuickCheck BY <1>7, Untouched DEF QuickCheck
<1>8. CASE MarkDirty
  BY <1>8 DEF MarkDirty, CleanIsOurs, CleanMeansCheckpointed, LegacyIsKept
<1>. QED BY <1>1, <1>2, <1>3, <1>4, <1>5, <1>6, <1>7, <1>8 DEF Open

LEMMA SessionMigrates == ASSUME SessionInv, Migrate \/ InitialRetention PROVE SessionInv'
<1> USE SessionAssumption DEF SessionInv, TypeOK, SessionStepSound, Content, Opening, Started, Closing, Goto, database, files
<1>1. CASE ImportState
  BY <1>1 DEF ImportState, CleanIsOurs, CleanMeansCheckpointed, LegacyIsKept
<1>2. CASE AlreadyImported BY <1>2, Untouched DEF AlreadyImported, AtLegacyTip
<1>3. CASE NoLegacyState BY <1>3, Untouched DEF NoLegacyState
<1>4. CASE Disagree BY <1>4, Untouched DEF Disagree
<1>5. CASE ArchiveChain
  BY <1>5 DEF ArchiveChain, CleanIsOurs, CleanMeansCheckpointed, LegacyIsKept, Data
<1>6. CASE \E p \in OldPeers : MigratePeer(p)
  BY <1>6 DEF MigratePeer, CleanIsOurs, CleanMeansCheckpointed, LegacyIsKept
<1>7. CASE PeersStored BY <1>7, Untouched DEF PeersStored
<1>8. CASE ArchivePeers
  BY <1>8 DEF ArchivePeers, CleanIsOurs, CleanMeansCheckpointed, LegacyIsKept, Data
<1>9. CASE InitialRetention
  BY <1>9 DEF InitialRetention, CleanIsOurs, CleanMeansCheckpointed, LegacyIsKept
<1>. QED BY <1>1, <1>2, <1>3, <1>4, <1>5, <1>6, <1>7, <1>8, <1>9 DEF Migrate

LEMMA SessionRuns == ASSUME SessionInv, ConnectBlock \/ AutoCheckpoint \/ Fails \/ Crash PROVE SessionInv'
<1> USE SessionAssumption DEF SessionInv, TypeOK, SessionStepSound, Content, Opening, Started, Closing, Goto, database, files
<1>1. CASE ConnectBlock
  <2>1. committed.blocks + 1 \in 0..MaxBlocks BY <1>1 DEF ConnectBlock
  <2>. QED BY <1>1, <2>1 DEF ConnectBlock, CleanIsOurs, CleanMeansCheckpointed, LegacyIsKept
<1>2. CASE AutoCheckpoint
  BY <1>2 DEF AutoCheckpoint, CleanIsOurs, CleanMeansCheckpointed, LegacyIsKept
<1>3. CASE Fails BY <1>3, Untouched DEF Fails
<1>4. CASE Crash BY <1>4, Untouched DEF Crash
<1>. QED BY <1>1, <1>2, <1>3, <1>4

LEMMA SessionCloses == ASSUME SessionInv, Close PROVE SessionInv'
<1> USE SessionAssumption DEF SessionInv, TypeOK, SessionStepSound, Content, Opening, Started, Closing, Goto, database, files
<1>1. CASE BeginClose BY <1>1, Untouched DEF BeginClose
<1>2. CASE Checkpoint
  BY <1>2 DEF Checkpoint, CleanIsOurs, CleanMeansCheckpointed, LegacyIsKept
<1>3. CASE MarkClean
  <2>1. /\ committed' \in Content /\ committed'.marker = "clean" /\ committed'.identity = committed.identity
        /\ committed'.base = committed.base /\ committed'.peers = committed.peers
    BY <1>3 DEF MarkClean
  <2>2. Data(committed') = Data(committed) BY <1>3 DEF MarkClean, Data
  <2>3. CleanMeansCheckpointed' BY <1>3, <2>2 DEF MarkClean, CleanMeansCheckpointed
  <2>4. committed.identity BY <1>3 DEF MarkClean
  <2>. QED BY <1>3, <2>1, <2>3, <2>4 DEF MarkClean, CleanIsOurs, LegacyIsKept
<1>4. CASE FinalCheckpoint
  BY <1>4 DEF FinalCheckpoint, CleanIsOurs, CleanMeansCheckpointed, LegacyIsKept
<1>5. CASE Unmark
  BY <1>5 DEF Unmark, CleanIsOurs, CleanMeansCheckpointed, LegacyIsKept, Data
<1>6. CASE Shut
  BY <1>6 DEF Shut, CleanIsOurs, CleanMeansCheckpointed, LegacyIsKept
<1>. QED BY <1>1, <1>2, <1>3, <1>4, <1>5, <1>6 DEF Close

LEMMA SessionInvHolds == Spec => []SessionInv
<1>1. SessionInv /\ [Next]_vars => SessionInv'
  <2> SUFFICES ASSUME SessionInv, [Next]_vars PROVE SessionInv' OBVIOUS
  <2>1. CASE UNCHANGED vars
    BY <2>1, Untouched DEF vars, database, files, SessionInv, TypeOK, SessionStepSound, Data
  <2>. QED BY <2>1, SessionOpens, SessionMigrates, SessionRuns, SessionCloses DEF Next
<1>. QED BY SessionInit, <1>1, PTL DEF Spec

\* The tables, the files and the step of the process have their types, and a started node
\* runs on a database with a genesis block that is marked dirty.
THEOREM SessionTypeOK == Spec => []TypeOK
<1>1. SessionInv => TypeOK BY DEF SessionInv
<1>. QED BY SessionInvHolds, <1>1, PTL

\* A clean marker means that the database file alone has every commit: a start that skips
\* the check starts from what a complete Close left.
THEOREM CleanIsCheckpointed == Spec => []CleanMeansCheckpointed
<1>1. SessionInv => CleanMeansCheckpointed BY DEF SessionInv
<1>. QED BY SessionInvHolds, <1>1, PTL

\* A file of an older version is put away only when all it holds is committed, whatever
\* fails or crashes in between.
THEOREM LegacyKept == Spec => []LegacyIsKept
<1>1. SessionInv => LegacyIsKept BY DEF SessionInv
<1>. QED BY SessionInvHolds, <1>1, PTL

\* Both together: no start misses what was committed before it, for any number of blocks,
\* peers, failures and crashes.
THEOREM NothingMissed == Spec => []NoCommitIsMissed
<1>1. SessionInv => NoCommitIsMissed BY DEF SessionInv, NoCommitIsMissed
<1>. QED BY SessionInvHolds, <1>1, PTL

-----------------------------------------------------------------------------
(* The helper of an update.                                                *)

Whole == {"old", "new"}

\* While no two helpers have been at work at once, one that waits still sees the old program
\* run.  A damaged executable has a whole backup, and nobody but its helper works on it;
\* whoever may still roll back has something to go back to, and what is launched was checked.
HelperSound ==
    /\ \A g, h \in Helpers : Helper!AtWork(g) /\ Helper!AtWork(h) => g = h
    /\ \A h \in Helpers : pc[h] = "wait" => running = "old"
    /\ running # "none" => running = target /\ running \in Whole
    /\ target = "part" => helperBackup \in Whole /\ \A h \in Helpers : pc[h] \in {"none", "check", "rollback"}
    /\ \A h \in Helpers : pc[h] \in {"replace", "check", "launch", "rollback"} => helperBackup \in Whole
    /\ \A h \in Helpers : pc[h] = "launch" => target = "new"

HelperInv == Helper!TypeOK /\ (~overlapped => HelperSound)

LEMMA HelperInit == Helper!Init => HelperInv
<1> SUFFICES ASSUME Helper!Init PROVE HelperInv OBVIOUS
<1> USE LocalAssumption DEF Helper!Init, Helper!UpdateHelperAssumption, Helper!Contents, Whole
<1>1. Helper!TypeOK
  <2>1. /\ staged \in [Helpers -> Helper!Contents]
        /\ pc \in [Helpers -> {"none", "wait", "stage", "unback", "copy", "replace", "check", "launch",
                              "unbackup", "rollback"}]
    OBVIOUS
  <2>2. running \in Helper!Contents /\ quitting \in BOOLEAN /\ overlapped \in BOOLEAN /\ MaxStarts \in Nat
    OBVIOUS
  <2>. QED BY <2>1, <2>2 DEF Helper!TypeOK
<1>2. HelperSound BY DEF HelperSound, Helper!AtWork
<1>. QED BY <1>1, <1>2 DEF HelperInv

\* What one helper does, while no other is at work, keeps the executable or its backup whole.
LEMMA HelperKeeps ==
    ASSUME HelperInv, HelperSound, Helper!Act,
           \A g, h \in Helpers : Helper!AtWork(g)' /\ Helper!AtWork(h)' => g = h
    PROVE  HelperSound'
<1> USE LocalAssumption DEF Helper!UpdateHelperAssumption, HelperInv, HelperSound, Helper!TypeOK,
        Helper!AtWork, Helper!Contents, Whole, Helper!Ends, Helper!Step, Helper!Movable
<1>1. CASE Helper!Quit BY <1>1 DEF Helper!Quit
<1>2. CASE Helper!UserStarts BY <1>2 DEF Helper!UserStarts
<1>3. ASSUME NEW h \in Helpers, Helper!LaunchInstaller(h) PROVE HelperSound'
  BY <1>3 DEF Helper!LaunchInstaller
<1>4. ASSUME NEW h \in Helpers, Helper!Stage(h) \/ Helper!RemoveBackup(h) PROVE HelperSound'
  BY <1>4 DEF Helper!Stage, Helper!RemoveBackup
<1>5. ASSUME NEW h \in Helpers, Helper!Check(h) \/ Helper!DropBackup(h) PROVE HelperSound'
  BY <1>5 DEF Helper!Check, Helper!DropBackup
<1>6. ASSUME NEW h \in Helpers, Helper!GivesUp(h) \/ Helper!Killed(h) PROVE HelperSound'
  BY <1>6 DEF Helper!GivesUp, Helper!Killed
<1>7. ASSUME NEW h \in Helpers, NEW ok \in BOOLEAN, Helper!BackUp(h, ok) PROVE HelperSound'
  BY <1>7 DEF Helper!BackUp
<1>8. ASSUME NEW h \in Helpers, NEW ok \in BOOLEAN, Helper!Replace(h, ok) PROVE HelperSound'
  BY <1>8 DEF Helper!Replace
<1>9. ASSUME NEW h \in Helpers, NEW ok \in BOOLEAN, Helper!Launch(h, ok) \/ Helper!Rollback(h, ok)
      PROVE  HelperSound'
  BY <1>9 DEF Helper!Launch, Helper!Rollback
<1>. QED BY <1>1, <1>2, <1>3, <1>4, <1>5, <1>6, <1>7, <1>8, <1>9 DEF Helper!Act

LEMMA HelperTypesKept ==
    ASSUME Helper!TypeOK, Helper!Next
    PROVE  Helper!TypeOK'
<1> USE LocalAssumption DEF Helper!UpdateHelperAssumption, Helper!TypeOK, Helper!Contents, Helper!Ends,
        Helper!Step, Helper!Movable
<1>0. overlapped' \in BOOLEAN BY DEF Helper!Next, Helper!Remember
<1>1. CASE Helper!Quit \/ Helper!UserStarts BY <1>0, <1>1 DEF Helper!Quit, Helper!UserStarts
<1>2. ASSUME NEW h \in Helpers, Helper!LaunchInstaller(h) \/ Helper!Stage(h) PROVE Helper!TypeOK'
  <2>1. CASE Helper!LaunchInstaller(h) BY <1>0, <2>1 DEF Helper!LaunchInstaller
  <2>2. CASE Helper!Stage(h) BY <1>0, <2>2 DEF Helper!Stage
  <2>. QED BY <1>2, <2>1, <2>2
<1>3. ASSUME NEW h \in Helpers PROVE Helper!RemoveBackup(h) \/ Helper!Check(h) => Helper!TypeOK'
  BY <1>0 DEF Helper!RemoveBackup, Helper!Check
<1>4. ASSUME NEW h \in Helpers PROVE Helper!DropBackup(h) \/ Helper!GivesUp(h) => Helper!TypeOK'
  BY <1>0 DEF Helper!DropBackup, Helper!GivesUp
<1>5. ASSUME NEW h \in Helpers, Helper!Killed(h) PROVE Helper!TypeOK' BY <1>0, <1>5 DEF Helper!Killed
<1>6. ASSUME NEW h \in Helpers, NEW ok \in BOOLEAN, Helper!BackUp(h, ok) \/ Helper!Replace(h, ok)
      PROVE  Helper!TypeOK'
  BY <1>0, <1>6 DEF Helper!BackUp, Helper!Replace
<1>7. ASSUME NEW h \in Helpers, NEW ok \in BOOLEAN, Helper!Launch(h, ok) \/ Helper!Rollback(h, ok)
      PROVE  Helper!TypeOK'
  BY <1>0, <1>7 DEF Helper!Launch, Helper!Rollback
<1>. QED BY <1>1, <1>2, <1>3, <1>4, <1>5, <1>6, <1>7 DEF Helper!Next, Helper!Act

LEMMA HelperStep ==
    ASSUME HelperInv, Helper!Next
    PROVE  HelperInv'
<1>1. Helper!TypeOK' BY HelperTypesKept DEF HelperInv
<1>2. ASSUME ~overlapped' PROVE HelperSound'
  <2>1. ~overlapped /\ Helper!Act /\ \A g, h \in Helpers : Helper!AtWork(g)' /\ Helper!AtWork(h)' => g = h
    BY <1>2 DEF Helper!Next, Helper!Remember
  <2>. QED BY <2>1, HelperKeeps DEF HelperInv
<1>. QED BY <1>1, <1>2 DEF HelperInv

LEMMA HelperInvHolds == LocalSpec => [](part = "helper" => HelperInv)
<1>1. LocalInit => HelperInv BY HelperInit DEF LocalInit
<1>2. (part = "helper" => HelperInv) /\ [LocalNext]_localVars => (part = "helper" => HelperInv)'
  <2> SUFFICES ASSUME part = "helper" => HelperInv, [LocalNext]_localVars, part' = "helper"
               PROVE  HelperInv'
    OBVIOUS
  <2>1. CASE UNCHANGED localVars
    BY <2>1 DEF localVars, helperVars, HelperInv, HelperSound, Helper!AtWork, Helper!TypeOK
  <2>2. CASE LocalNext
    BY <2>2, HelperStep DEF LocalNext, Moves
  <2>. QED BY <2>1, <2>2
<1>. QED BY <1>1, <1>2, PTL DEF LocalSpec

-----------------------------------------------------------------------------
(* The download of an update.                                              *)

\* One call at a time works on the files of the cache; the partial file is verified until
\* it is renamed, and the destination until it is launched.
UpdateInv ==
    /\ Update!TypeOK
    /\ \A c \in Calls : call[c].pc = "none" => call[c] = Update!Idle
    /\ \A c \in Calls : call[c].pc # "none" => updating
    /\ \A c, d \in Calls : call[c].pc # "none" /\ call[d].pc # "none" => c = d
    /\ \A c \in Calls : call[c].pc \in {"request", "stream", "verify"} => call[c].source \in 1..Len(Sources)
    /\ \A c \in Calls : call[c].pc \in {"promote1", "promote2"} => partial = Update!Artifact
    /\ \A c \in Calls : call[c].pc = "launch" => destination = Update!Artifact
    /\ Update!OnlyVerifiedRuns

\* The files of the cache are short sequences of pieces.
LEMMA Files ==
    /\ Update!File = {f \in Seq({"good", "bad"}) : Len(f) <= MaxBytes + 1}
    /\ Update!Artifact \in Update!File
<1> USE LocalAssumption DEF Update!UpdaterAssumption
<1>1. ASSUME NEW f \in Update!File PROVE f \in Seq({"good", "bad"}) /\ Len(f) <= MaxBytes + 1
  <2>1. PICK n \in 0..(MaxBytes + 1) : f \in [1..n -> {"good", "bad"}]
    BY <1>1 DEF Update!File
  <2>2. f \in Seq({"good", "bad"}) BY <2>1
  <2>3. Len(f) = n BY <2>1, <2>2
  <2>. QED BY <2>2, <2>3
<1>2. ASSUME NEW f \in Seq({"good", "bad"}), Len(f) <= MaxBytes + 1 PROVE f \in Update!File
  BY <1>2 DEF Update!File
<1>3. Update!Artifact \in [1..Size -> {"good", "bad"}] /\ Size \in 0..(MaxBytes + 1)
  BY DEF Update!Artifact
<1>. QED BY <1>1, <1>2, <1>3 DEF Update!File

Call == [pc : {"none", "latest", "checksum", "cached", "request", "stream", "verify", "promote1",
               "promote2", "launch"},
         source : 0..Len(Sources), attempt : 0..1, known : BOOLEAN]

LEMMA UpdateInit == Update!Init => UpdateInv
<1> SUFFICES ASSUME Update!Init PROVE UpdateInv OBVIOUS
<1> USE LocalAssumption DEF Update!UpdaterAssumption, Update!Init
<1>1. <<>> \in Update!File /\ <<"bad">> \in Update!File BY Files
<1>2. Len(Sources) \in Nat OBVIOUS
<1>3. \A c \in Calls : call[c] = Update!Idle /\ call[c].pc = "none" BY DEF Update!Idle
<1>4. call \in [Calls -> Call] BY <1>2 DEF Call, Update!Idle
<1>5. partial \in Update!File /\ destination \in Update!File /\ launched \subseteq Update!File
        /\ updateCrashes \in 0..MaxCrashes
  BY <1>1
<1>6. Update!TypeOK BY <1>4, <1>5 DEF Update!TypeOK, Call
<1>. QED BY <1>3, <1>6 DEF UpdateInv, Update!OnlyVerifiedRuns

\* A step of a call that goes on.
LEMMA CallMoves ==
    ASSUME UpdateInv, NEW c \in Calls, call[c].pc # "none", NEW r \in Call, r.pc # "none",
           call' = [call EXCEPT ![c] = r], UNCHANGED <<updating, closing, launched, updateCrashes>>,
           r.pc \in {"request", "stream", "verify"} => r.source \in 1..Len(Sources),
           partial' \in Update!File, destination' \in Update!File,
           r.pc \in {"promote1", "promote2"} => partial' = Update!Artifact,
           r.pc = "launch" => destination' = Update!Artifact
    PROVE  UpdateInv'
<1> USE DEF UpdateInv
<1>1. \A d \in Calls : d # c => call[d].pc = "none" /\ call'[d] = call[d] BY DEF Update!TypeOK
<1>2. call'[c] = r BY DEF Update!TypeOK
<1>3. Update!TypeOK' BY DEF Update!TypeOK, Call
<1>. QED BY <1>1, <1>2, <1>3 DEF Update!OnlyVerifiedRuns

\* A call that returns.
LEMMA CallEnds ==
    ASSUME UpdateInv, NEW c \in Calls, call[c].pc # "none", Update!End(c),
           partial' \in Update!File, destination' \in Update!File, launched' \subseteq {Update!Artifact},
           closing' \in {"none", "quitting", "closed"}, UNCHANGED updateCrashes
    PROVE  UpdateInv'
<1> USE DEF UpdateInv, Update!End
<1>1. \A d \in Calls : d # c => call[d].pc = "none" /\ call'[d] = call[d] BY DEF Update!TypeOK
<1>2. call'[c] = Update!Idle /\ Update!Idle \in Call /\ Update!Idle.pc = "none"
  BY LocalAssumption DEF Update!TypeOK, Update!UpdaterAssumption, Update!Idle, Call
<1>3. Update!TypeOK' BY <1>2, Files DEF Update!TypeOK, Call
<1>. QED BY <1>1, <1>2, <1>3 DEF Update!OnlyVerifiedRuns

LEMMA Requested ==
    ASSUME NEW n, NEW r, r = [Update!Idle EXCEPT !.pc = "request", !.source = n]
    PROVE  r = [pc |-> "request", source |-> n, attempt |-> 0, known |-> FALSE]
  BY DEF Update!Idle

\* The next source is tried, or the call gives up.
LEMMA SourceEnds ==
    ASSUME UpdateInv, NEW c \in Calls, call[c].pc \in {"request", "stream", "verify"},
           Update!NextSource(c), partial' \in Update!File,
           UNCHANGED <<closing, destination, launched, updateCrashes>>
    PROVE  UpdateInv'
<1>1. destination' \in Update!File /\ launched' \subseteq {Update!Artifact}
        /\ closing' \in {"none", "quitting", "closed"}
  BY DEF UpdateInv, Update!TypeOK, Update!OnlyVerifiedRuns
<1>2. CASE call[c].source = Len(Sources) BY <1>1, <1>2, CallEnds DEF Update!NextSource
<1>3. CASE call[c].source # Len(Sources)
  <2> DEFINE r == [pc |-> "request", source |-> call[c].source + 1, attempt |-> 0, known |-> FALSE]
  <2>1. call[c].source \in 1..Len(Sources) /\ Len(Sources) \in Nat
    BY LocalAssumption DEF UpdateInv, Update!UpdaterAssumption
  <2>2. r \in Call /\ r.pc = "request" /\ r.source \in 1..Len(Sources)
    <3>1. call[c].source + 1 \in 1..Len(Sources) BY <1>3, <2>1
    <3>2. call[c].source + 1 \in 0..Len(Sources) BY <2>1, <3>1
    <3>. QED BY <3>1, <3>2 DEF Call
  <2>3. [Update!Idle EXCEPT !.pc = "request", !.source = call[c].source + 1] = r BY Requested
  <2>4. call' = [call EXCEPT ![c] = r] /\ updating' = updating BY <1>3, <2>3 DEF Update!NextSource
  <2> HIDE DEF r
  <2>. QED BY <1>1, <2>2, <2>4, CallMoves
<1>. QED BY <1>2, <1>3

\* A call that goes to a step of its own.
LEMMA CallGoes ==
    ASSUME UpdateInv, NEW c \in Calls, call[c].pc # "none",
           NEW p \in {"checksum", "cached", "stream", "verify", "promote1", "promote2", "launch"},
           Update!Goto(c, p), UNCHANGED <<closing, launched, updateCrashes>>,
           p \in {"stream", "verify"} => call[c].pc \in {"request", "stream", "verify"},
           partial' \in Update!File, destination' \in Update!File,
           p \in {"promote1", "promote2"} => partial' = Update!Artifact,
           p = "launch" => destination' = Update!Artifact
    PROVE  UpdateInv'
<1>1. PICK r : r = [call[c] EXCEPT !.pc = p] OBVIOUS
<1>2. r \in Call /\ r.pc = p /\ r.source = call[c].source
  BY <1>1 DEF UpdateInv, Update!TypeOK, Call
<1>3. call' = [call EXCEPT ![c] = r] /\ updating' = updating
  BY <1>1 DEF Update!Goto, UpdateInv, Update!TypeOK
<1>4. p \in {"stream", "verify"} => r.source \in 1..Len(Sources) BY <1>2 DEF UpdateInv
<1>. QED BY <1>2, <1>3, <1>4, CallMoves

LEMMA UpdateFiles ==
    ASSUME UpdateInv
    PROVE  /\ partial \in Update!File /\ destination \in Update!File /\ launched \subseteq {Update!Artifact}
           /\ closing \in {"none", "quitting", "closed"} /\ <<>> \in Update!File /\ Update!Resumed \in Update!File
  BY LocalAssumption, Files DEF UpdateInv, Update!TypeOK, Update!OnlyVerifiedRuns, Update!Resumed,
     Update!UpdaterAssumption

LEMMA CallStarts ==
    ASSUME UpdateInv, NEW c \in Calls, Update!InstallUpdate(c)
    PROVE  UpdateInv'
<1> USE DEF UpdateInv, Update!InstallUpdate, Update!MayInstall
<1>1. \A d \in Calls : call[d].pc = "none" OBVIOUS
<1>2. /\ call' \in [Calls -> Call] /\ call'[c].pc = "latest" /\ \A d \in Calls : d # c => call'[d] = call[d]
  BY DEF Update!TypeOK, Call
<1>3. Update!TypeOK' BY <1>2 DEF Update!TypeOK, Call
<1>. QED BY <1>1, <1>2, <1>3 DEF Update!OnlyVerifiedRuns

LEMMA CallPrepares ==
    ASSUME UpdateInv, NEW c \in Calls, Update!Metadata(c) \/ Update!Fails(c) \/ Update!Cached(c)
    PROVE  UpdateInv'
<1> USE UpdateFiles DEF Update!At
<1>1. CASE Update!Metadata(c) BY <1>1, CallGoes DEF Update!Metadata
<1>2. CASE Update!Fails(c) BY <1>2, CallEnds DEF Update!Fails
<1>3. CASE Update!Cached(c)
  <2> USE <1>3 DEF Update!Cached
  <2>1. CASE destination = Update!Artifact BY <2>1, CallGoes
  <2>2. CASE destination # Update!Artifact /\ partial = Update!Artifact BY <2>2, CallGoes
  <2>3. CASE destination # Update!Artifact /\ partial # Update!Artifact
    <3>1. PICK r : r = [Update!Idle EXCEPT !.pc = "request", !.source = 1] OBVIOUS
    <3>2. r = [pc |-> "request", source |-> 1, attempt |-> 0, known |-> FALSE] BY <3>1, Requested
    <3>3. 1 \in 1..Len(Sources) /\ 1 \in 0..Len(Sources)
      BY LocalAssumption DEF Update!UpdaterAssumption
    <3>4. r \in Call BY <3>2, <3>3 DEF Call
    <3>. QED BY <2>3, <3>1, <3>2, <3>3, <3>4, CallMoves
  <2>. QED BY <2>1, <2>2, <2>3
<1>. QED BY <1>1, <1>2, <1>3

LEMMA CallRequests ==
    ASSUME UpdateInv, NEW c \in Calls,
           \/ Update!RequestFails(c) \/ Update!NotSatisfiable(c) \/ Update!Continued(c)
           \/ \E known \in BOOLEAN : Update!Whole(c, known)
    PROVE  UpdateInv'
<1> USE UpdateFiles DEF Update!At
<1>1. CASE Update!RequestFails(c) BY <1>1, SourceEnds DEF Update!RequestFails
<1>2. CASE Update!NotSatisfiable(c)
  <2> USE <1>2 DEF Update!NotSatisfiable
  <2>1. CASE call[c].attempt = 1 BY <2>1, SourceEnds
  <2>2. CASE call[c].attempt # 1
    <3>1. PICK r : r = [call[c] EXCEPT !.attempt = 1] OBVIOUS
    <3>2. r \in Call /\ r.pc = "request" /\ r.source = call[c].source
      BY <3>1 DEF UpdateInv, Update!TypeOK, Call
    <3>3. call' = [call EXCEPT ![c] = r] BY <2>2, <3>1 DEF UpdateInv, Update!TypeOK
    <3>4. r.source \in 1..Len(Sources) BY <3>2 DEF UpdateInv
    <3>. QED BY <2>2, <3>2, <3>3, <3>4, CallMoves
  <2>. QED BY <2>1, <2>2
<1>3. ASSUME NEW known \in BOOLEAN, UNCHANGED <<updating, closing, launched, updateCrashes, destination>>,
             call' = [call EXCEPT ![c].pc = "stream", ![c].known = known], call[c].pc = "request",
             partial' \in Update!File
      PROVE  UpdateInv'
  <2>1. PICK r : r = [[call[c] EXCEPT !.pc = "stream"] EXCEPT !.known = known] OBVIOUS
  <2>2. r \in Call /\ r.pc = "stream" /\ r.source = call[c].source
    BY <2>1 DEF UpdateInv, Update!TypeOK, Call
  <2>3. call' = [call EXCEPT ![c] = r] BY <1>3, <2>1 DEF UpdateInv, Update!TypeOK
  <2>4. r.source \in 1..Len(Sources) BY <1>3, <2>2 DEF UpdateInv
  <2>. QED BY <1>3, <2>2, <2>3, <2>4, CallMoves
<1>4. CASE Update!Continued(c)
  <2>1. CASE Pieces[Update!Source(c)] > MaxBytes
    BY <1>4, <2>1, SourceEnds DEF Update!Continued
  <2>2. CASE ~(Pieces[Update!Source(c)] > MaxBytes)
    BY <1>4, <2>2, <1>3 DEF Update!Continued
  <2>. QED BY <2>1, <2>2
<1>5. ASSUME NEW known \in BOOLEAN, Update!Whole(c, known) PROVE UpdateInv'
  <2>1. CASE known /\ Pieces[Update!Source(c)] > MaxBytes
    BY <1>5, <2>1, SourceEnds DEF Update!Whole
  <2>2. CASE ~(known /\ Pieces[Update!Source(c)] > MaxBytes)
    BY <1>5, <2>2, <1>3 DEF Update!Whole
  <2>. QED BY <2>1, <2>2
<1>. QED BY <1>1, <1>2, <1>4, <1>5

LEMMA CallStreams ==
    ASSUME UpdateInv, NEW c \in Calls,
           Update!Write(c) \/ Update!BreaksOff(c) \/ Update!Written(c) \/ Update!Verify(c)
    PROVE  UpdateInv'
<1> USE UpdateFiles DEF Update!At
<1>1. CASE Update!Write(c)
  <2>1. Pieces[Update!Source(c)] \in Nat
    <3>1. call[c].source \in 1..Len(Sources) BY <1>1 DEF Update!Write, UpdateInv
    <3>2. Update!Source(c) \in Update!SourceSet BY <3>1 DEF Update!Source, Update!SourceSet
    <3>. QED BY <3>2, LocalAssumption DEF Update!UpdaterAssumption
  <2>2. Update!Served(c) \in Nat /\ Update!Served(c) <= MaxBytes + 1
    BY <2>1, LocalAssumption DEF Update!UpdaterAssumption, Update!Served
  <2>3. partial \in Seq({"good", "bad"}) /\ Len(partial) < MaxBytes + 1 /\ MaxBytes \in Nat
    BY <1>1, <2>2, Files, LocalAssumption DEF Update!UpdaterAssumption, Update!Write
  <2>4. partial' \in Seq({"good", "bad"}) /\ Len(partial') = Len(partial) + 1
    BY <1>1, <2>3 DEF Update!Write
  <2>5. partial' \in Update!File BY <2>3, <2>4, Files
  <2>. QED BY <1>1, <2>5, CallGoes DEF Update!Write
<1>2. CASE Update!BreaksOff(c) BY <1>2, SourceEnds DEF Update!BreaksOff
<1>3. CASE Update!Written(c)
  <2>1. CASE Len(partial) > MaxBytes BY <1>3, <2>1, SourceEnds DEF Update!Written
  <2>2. CASE ~(Len(partial) > MaxBytes) BY <1>3, <2>2, CallGoes DEF Update!Written
  <2>. QED BY <2>1, <2>2
<1>4. CASE Update!Verify(c)
  <2>1. CASE Update!Verified BY <1>4, <2>1, CallGoes DEF Update!Verify, Update!Verified
  <2>2. CASE ~Update!Verified BY <1>4, <2>2, SourceEnds DEF Update!Verify
  <2>. QED BY <2>1, <2>2
<1>. QED BY <1>1, <1>2, <1>3, <1>4

LEMMA CallInstalls ==
    ASSUME UpdateInv, NEW c \in Calls, Update!Promote(c) \/ \E ok \in BOOLEAN : Update!Launch(c, ok)
    PROVE  UpdateInv'
<1> USE UpdateFiles DEF Update!At
<1>1. CASE Update!Promote(c) /\ call[c].pc = "promote1"
  <2>1. partial = Update!Artifact BY <1>1 DEF UpdateInv
  <2>. QED BY <1>1, <2>1, CallGoes DEF Update!Promote
<1>2. CASE Update!Promote(c) /\ call[c].pc = "promote2"
  <2>1. partial = Update!Artifact BY <1>2 DEF UpdateInv
  <2>. QED BY <1>2, <2>1, CallGoes DEF Update!Promote
<1>3. ASSUME NEW ok \in BOOLEAN, Update!Launch(c, ok) PROVE UpdateInv'
  <2>1. destination = Update!Artifact BY <1>3 DEF UpdateInv, Update!Launch
  <2>. QED BY <1>3, <2>1, CallEnds DEF Update!Launch
<1>. QED BY <1>1, <1>2, <1>3 DEF Update!Promote

LEMMA UpdateStep ==
    ASSUME UpdateInv, Update!Next
    PROVE  UpdateInv'
<1>1. CASE Update!Quit BY <1>1 DEF Update!Quit, UpdateInv, Update!TypeOK, Update!OnlyVerifiedRuns
<1>2. CASE Update!Crash
  <2> USE <1>2, LocalAssumption DEF Update!Crash, Update!UpdaterAssumption
  <2>1. \A c \in Calls : call'[c] = Update!Idle /\ call'[c].pc = "none" BY DEF Update!Idle
  <2>2. call' \in [Calls -> Call] /\ updateCrashes' \in 0..MaxCrashes
    BY DEF Update!Idle, Call, UpdateInv, Update!TypeOK
  <2>3. Update!TypeOK' BY <2>2 DEF UpdateInv, Update!TypeOK, Call
  <2>. QED BY <2>1, <2>3 DEF UpdateInv, Update!OnlyVerifiedRuns
<1>. QED BY <1>1, <1>2, CallStarts, CallPrepares, CallRequests, CallStreams, CallInstalls DEF Update!Next

LEMMA UpdateInvHolds == LocalSpec => [](part = "update" => UpdateInv)
<1>1. LocalInit => UpdateInv BY UpdateInit DEF LocalInit
<1>2. (part = "update" => UpdateInv) /\ [LocalNext]_localVars => (part = "update" => UpdateInv)'
  <2> SUFFICES ASSUME part = "update" => UpdateInv, [LocalNext]_localVars, part' = "update"
               PROVE  UpdateInv'
    OBVIOUS
  <2>1. CASE UNCHANGED localVars
    BY <2>1 DEF localVars, updateVars, UpdateInv, Update!TypeOK, Update!OnlyVerifiedRuns
  <2>2. CASE LocalNext
    BY <2>2, UpdateStep DEF LocalNext, Moves
  <2>. QED BY <2>1, <2>2
<1>. QED BY <1>1, <1>2, PTL DEF LocalSpec

\* Only the published artifact is handed to the installer, whatever the sources serve and
\* wherever a call is cut off, and as long as no two helpers have been at work at once, of any
\* number that are started, the executable is whole or its backup is, and what runs was
\* verified (client.go:371, launch_windows.go:135, app.go:313).
THEOREM UpdatesStayWhole == LocalSpec => []UpdatesAreWhole
<1>1. UpdateInv => Update!OnlyVerifiedRuns BY DEF UpdateInv
<1>2. HelperInv => Helper!SomethingStarts /\ Helper!RunsWhole
  BY DEF HelperInv, HelperSound, Helper!SomethingStarts, Helper!RunsWhole, Helper!TypeOK, Helper!Contents, Whole
<1>3. (part = "update" => UpdateInv) /\ (part = "helper" => HelperInv) => UpdatesAreWhole
  BY <1>1, <1>2 DEF UpdatesAreWhole
<1>. QED BY UpdateInvHolds, HelperInvHolds, <1>3, PTL

-----------------------------------------------------------------------------
(* The payments of a local agent.                                          *)

InWallet == {"switch", "send", "restore", "close", "refused"}
Unpaid == {"none", "output", "info", "verify", "open", "switch", "send"}
HasPaid == {"submit", "claim", "wait", "check", "download", "complete"}

\* What has happened to a handoff by the step its goroutine is at, and what it shows.
HandoffSound(h) ==
    /\ agentStep[h] \in Unpaid => paid[h] = 0
    /\ agentStep[h] \in HasPaid => paid[h] = 1
    /\ paid[h] <= 1
    /\ stage[h] # "none" => invoice[h] \in Invoices
    /\ agentStep[h] # "none" => stage[h] \notin {"none", "approval", "rejected"}
    /\ agentStep[h] \in {"download", "complete"} => receipt[h] = h
    /\ stage[h] = "complete" => agentStep[h] = "ended" /\ paid[h] = 1 /\ receipt[h] = h

\* A payment that found the user's profile active and is to blame if it no longer is.
Accountable(h) ==
    /\ previous[h] = Original
    /\ directory = h \/ (agentStep[h] = "ended" /\ stage[h] \in {"error", "gone"})

\* Who holds the directory is at work in it, and has put back what it found when it closes;
\* another profile than the user's own is active only through one that is accountable.
WalletSound ==
    /\ \A h \in Handoffs :
        agentStep[h] \in InWallet => directory = h /\ previous[h] \in {Original, Dedicated}
    /\ directory # None => agentStep[directory] \in InWallet
    /\ \A h \in Handoffs : agentStep[h] = "close" /\ previous[h] = Original => active = Original
    /\ active # Original => \E h \in Handoffs : Accountable(h)

AgentInv == Agent!TypeOK /\ (\A h \in Handoffs : HandoffSound(h)) /\ WalletSound

LEMMA AgentInit == Agent!Init => AgentInv
<1> SUFFICES ASSUME Agent!Init PROVE AgentInv OBVIOUS
<1> USE LocalAssumption DEF Agent!Init, Agent!LocalAgentAssumption
<1>1. Agent!TypeOK BY DEF Agent!TypeOK, Agent!Stages, Agent!Steps
<1>2. ASSUME NEW h \in Handoffs PROVE HandoffSound(h) BY DEF HandoffSound, Unpaid, HasPaid
<1>3. WalletSound BY DEF WalletSound, InWallet
<1>. QED BY <1>1, <1>2, <1>3 DEF AgentInv

\* A step of one goroutine leaves the others' handoffs alone.
LEMMA AgentRuns ==
    ASSUME AgentInv, NEW h \in Handoffs, Agent!RunPayment(h)
    PROVE  AgentInv'
<1> USE LocalAssumption DEF Agent!LocalAgentAssumption, AgentInv, Agent!TypeOK, Agent!Stages, Agent!Steps,
        HandoffSound, WalletSound, InWallet, Unpaid, HasPaid, Accountable, Agent!shown, Agent!wallet,
        Agent!world, Agent!Show, Agent!Goto, Agent!Fail, Agent!Switched
<1>1. CASE Agent!CheckOutput(h) BY <1>1 DEF Agent!CheckOutput
<1>2. CASE Agent!Info(h) BY <1>2 DEF Agent!Info
<1>3. CASE Agent!Verify(h) BY <1>3 DEF Agent!Verify
<1>4. CASE Agent!Open(h) BY <1>4 DEF Agent!Open
<1>5. CASE Agent!Switch(h) BY <1>5 DEF Agent!Switch
<1>6. CASE Agent!Send(h) BY <1>6 DEF Agent!Send
<1>7. CASE Agent!Restore(h)
  <2> USE <1>7 DEF Agent!Restore
  <2>1. active' \in {Original, Dedicated} OBVIOUS
  <2>2. Agent!TypeOK' BY <2>1
  <2>3. (\A g \in Handoffs : HandoffSound(g))' OBVIOUS
  <2>4. WalletSound' BY <2>1
  <2>. QED BY <2>2, <2>3, <2>4
<1>8. CASE Agent!Close(h) BY <1>8 DEF Agent!Close
<1>9. CASE Agent!Submit(h) BY <1>9 DEF Agent!Submit
<1>10. CASE Agent!Claim(h) BY <1>10 DEF Agent!Claim
<1>11. CASE Agent!WaitToClaim(h) BY <1>11 DEF Agent!WaitToClaim
<1>12. CASE Agent!Check(h) BY <1>12 DEF Agent!Check
<1>13. CASE Agent!Download(h)
  <2> USE <1>13 DEF Agent!Download
  <2>1. invoice[h] \in Invoices OBVIOUS
  <2>. QED BY <2>1
<1>14. CASE Agent!Complete(h) BY <1>14 DEF Agent!Complete
<1>. QED BY <1>1, <1>2, <1>3, <1>4, <1>5, <1>6, <1>7, <1>8, <1>9, <1>10, <1>11, <1>12, <1>13, <1>14
         DEF Agent!RunPayment

LEMMA AgentStep ==
    ASSUME AgentInv, Agent!Next
    PROVE  AgentInv'
<1> USE LocalAssumption DEF Agent!LocalAgentAssumption, AgentInv, Agent!TypeOK, Agent!Stages, Agent!Steps,
        HandoffSound, WalletSound, InWallet, Unpaid, HasPaid, Accountable, Agent!shown, Agent!wallet,
        Agent!world, Agent!Show, Agent!Goto
<1>1. ASSUME NEW h \in Handoffs, NEW i \in Invoices, NEW old \in SUBSET Handoffs, Agent!HandOver(h, i, old)
      PROVE  AgentInv'
  BY <1>1 DEF Agent!HandOver
<1>2. ASSUME NEW h \in Handoffs, Agent!Approve(h) PROVE AgentInv' BY <1>2 DEF Agent!Approve
<1>3. ASSUME NEW h \in Handoffs, Agent!Reject(h) PROVE AgentInv' BY <1>3 DEF Agent!Reject
<1>4. ASSUME NEW h \in Handoffs, Agent!Deadline(h) PROVE AgentInv' BY <1>4 DEF Agent!Deadline
<1>5. ASSUME NEW i \in Invoices, Agent!Expire(i) PROVE AgentInv' BY <1>5 DEF Agent!Expire
<1>6. CASE Agent!Interrupt BY <1>6 DEF Agent!Interrupt
<1>. QED BY <1>1, <1>2, <1>3, <1>4, <1>5, <1>6, AgentRuns DEF Agent!Next

LEMMA AgentInvHolds == LocalSpec => [](part = "agent" => AgentInv)
<1>1. LocalInit => AgentInv BY AgentInit DEF LocalInit
<1>2. (part = "agent" => AgentInv) /\ [LocalNext]_localVars => (part = "agent" => AgentInv)'
  <2> SUFFICES ASSUME part = "agent" => AgentInv, [LocalNext]_localVars, part' = "agent"
               PROVE  AgentInv'
    OBVIOUS
  <2>1. CASE UNCHANGED localVars
    BY <2>1 DEF localVars, agentVars, AgentInv, Agent!TypeOK, HandoffSound, WalletSound, Accountable
  <2>2. CASE LocalNext
    BY <2>2, AgentStep DEF LocalNext, Moves
  <2>. QED BY <2>1, <2>2
<1>. QED BY <1>1, <1>2, PTL DEF LocalSpec

-----------------------------------------------------------------------------
(* The relay of handoffs.                                                  *)

Waiting == {queue[i] : i \in 1..Len(queue)}

Distinct(s) == \A i, j \in 1..Len(s) : s[i] = s[j] => i = j

\* The consumer has taken a handoff and not removed its digest yet.
Held == taken # None /\ ~forgotten

QueueSound ==
    /\ Distinct(queue)
    /\ queued = Waiting \cup (IF Held THEN {taken} ELSE {})
    /\ Held => taken \notin Waiting

\* A request that met no other is the only one between check and removal.
LoneIsAlone ==
    \A m \in Merchants : \A q, r \in Relay!Between(m) : q \notin crossing => q = r

RelayInv ==
    /\ Relay!TypeOK
    /\ \A r \in Requests : relayAt[r] # "idle" => request[r] \in Relay!Handoff
    /\ QueueSound
    /\ LoneIsAlone

\* The relay counts as everybody does.
LEMMA RelayCardinality == \A S : Relay!Cardinality(S) = Cardinality(S)
BY DEF Relay!Cardinality, Cardinality

LEMMA RequestsAreFinite == IsFiniteSet(Requests)
BY LocalAssumption DEF Relay!HandoffRelayAssumption, Relay!IsFiniteSet, IsFiniteSet

\* A handoff can still be let in alone by the launch the window of its merchant is from.
MayEnter(m) == m \in windows \/ \E r \in Relay!Between(m) : r \notin crossing

\* What was let in alone and what still can be is paid for with launches.
Solvent(m) == alone[m] + (IF MayEnter(m) THEN 1 ELSE 0) <= launches[m]

Carrying(m, place) == {r \in Requests : relayAt[r] = place /\ request[r][1] = m}

\* The requests a launch that is not used up can still let in.
Entitled(m) == IF m \in windows THEN Requests \ Carrying(m, "enqueued") ELSE Carrying(m, "authorized")

\* A launch lets each request in once at most before its window is removed.
Bounded(m) == accepted[m] + Cardinality(Entitled(m)) <= launches[m] * Cardinality(Requests)

\* As many handoffs wait as the queue is long.
LEMMA DistinctCounts ==
    ASSUME NEW S, NEW s \in Seq(S), Distinct(s)
    PROVE  Cardinality({s[i] : i \in 1..Len(s)}) = Len(s)
<1> DEFINE I == 1..Len(s)
           T == {s[i] : i \in I}
           f == [i \in I |-> s[i]]
<1>1. Len(s) \in Nat /\ 0 \in Int OBVIOUS
<1>2. IsFiniteSet(I) /\ Cardinality(I) = Len(s)
  <2>1. \A n \in Nat : IsFiniteSet(1..n) /\ Cardinality(1..n) = n
    <3> TAKE n \in Nat
    <3>1. IsFiniteSet(1..n) /\ Cardinality(1..n) = IF 1 > n THEN 0 ELSE n - 1 + 1 BY FS_Interval
    <3>2. Cardinality(1..n) = n BY <3>1, SMTT(30)
    <3> QED BY <3>1, <3>2
  <2> QED BY <1>1, <2>1, Zenon
<1>3. f \in Bijection(I, T)
  BY DEF Bijection, Injection, Surjection, Distinct, IsInjective
<1>4. ExistsBijection(I, T) BY <1>3 DEF ExistsBijection
<1>. QED BY <1>2, <1>4, FS_Bijection

LEMMA RelayInit == Relay!Init => RelayInv /\ \A m \in Merchants : Solvent(m) /\ Bounded(m)
<1> SUFFICES ASSUME Relay!Init PROVE RelayInv /\ \A m \in Merchants : Solvent(m) /\ Bounded(m) OBVIOUS
<1> USE LocalAssumption DEF Relay!Init, Relay!HandoffRelayAssumption
<1>1. Relay!TypeOK
  <2>1. queue \in Seq(Relay!Handoff) /\ Len(queue) <= Capacity OBVIOUS
  <2>2. launches \in [Merchants -> 0..MaxLaunches] OBVIOUS
  <2>3. request \in [Requests -> Relay!Handoff \cup {None}]
    BY Zenon
  <2>4. relayAt \in [Requests -> {"idle", "arrived", "authorized", "enqueued"}] BY Zenon
  <2>5. accepted \in [Merchants -> Nat] /\ alone \in [Merchants -> Nat] /\ crossing \subseteq Requests
    OBVIOUS
  <2>. QED BY <2>1, <2>2, <2>3, <2>4, <2>5 DEF Relay!TypeOK
<1>2. QueueSound BY DEF QueueSound, Distinct, Waiting, Held
<1>3. \A m \in Merchants : Relay!Between(m) = {} BY DEF Relay!Between
<1>4. ASSUME NEW m \in Merchants PROVE Solvent(m) /\ Bounded(m)
  <2>1. ~MayEnter(m) BY <1>3 DEF MayEnter
  <2>2. Entitled(m) = {} BY DEF Entitled, Carrying
  <2>3. Cardinality(Entitled(m)) = 0 BY <2>2, FS_EmptySet
  <2>4. Cardinality(Requests) \in Nat BY RequestsAreFinite, FS_CardinalityType
  <2>5. alone[m] = 0 /\ accepted[m] = 0 /\ launches[m] = 0 BY Zenon
  <2>6. Solvent(m) BY <2>1, <2>5 DEF Solvent
  <2>7. Bounded(m) BY <2>3, <2>4, <2>5 DEF Bounded
  <2>. QED BY <2>6, <2>7
<1>. QED BY <1>1, <1>2, <1>3, <1>4 DEF RelayInv, LoneIsAlone

\* What is admitted waits from then on, once.
LEMMA Admitted ==
    ASSUME RelayInv, NEW h \in Relay!Handoff, Relay!Admits(h), Relay!Admit(h), UNCHANGED <<taken, forgotten>>
    PROVE  /\ QueueSound' /\ queue' \in Seq(Relay!Handoff) /\ Len(queue') <= Capacity
           /\ queued' \subseteq Relay!Handoff
<1> USE DEF RelayInv, Relay!TypeOK, Relay!Admits, Relay!Admit
<1>1. CASE h \in queued
  BY <1>1 DEF QueueSound, Distinct, Waiting, Held
<1>2. CASE h \notin queued
  <2>1. queue' = Append(queue, h) /\ Len(queue') = Len(queue) + 1 BY <1>2
  <2>2. \A i \in 1..Len(queue) : queue'[i] = queue[i] BY <2>1
  <2>3. queue'[Len(queue) + 1] = h BY <2>1
  <2>4. h \notin Waiting /\ (Held => h # taken) BY <1>2 DEF QueueSound
  <2>5. Waiting' = Waiting \cup {h} BY <2>1, <2>2, <2>3 DEF Waiting
  <2>6. \A i \in 1..Len(queue) : queue[i] # h BY <2>4 DEF Waiting
  <2>7. Distinct(queue') BY <2>1, <2>2, <2>3, <2>6 DEF Distinct, QueueSound
  <2>8. Held' = Held BY DEF Held
  <2>9. QueueSound' BY <1>2, <2>4, <2>5, <2>7, <2>8 DEF QueueSound
  <2>10. Len(queue') <= Capacity BY <1>2, <2>1, LocalAssumption DEF Relay!HandoffRelayAssumption
  <2>. QED BY <1>2, <2>1, <2>9, <2>10
<1>. QED BY <1>1, <1>2

LEMMA ConsumerStep ==
    ASSUME RelayInv, Relay!Consumer
    PROVE  RelayInv'
<1> USE LocalAssumption DEF RelayInv, Relay!HandoffRelayAssumption, Relay!TypeOK, Relay!Consumer, Relay!history
<1>0. LoneIsAlone'
  BY DEF LoneIsAlone, Relay!Between, Relay!Take, Relay!Forget, Relay!Receive
<1>1. CASE Relay!Take
  <2> USE <1>1 DEF Relay!Take
  <2>1. /\ Len(queue) > 0 /\ queue' \in Seq(Relay!Handoff) /\ Len(queue') = Len(queue) - 1
        /\ \A i \in 1..Len(queue') : queue'[i] = queue[i + 1]
        /\ taken' = queue[1] /\ taken' \in Relay!Handoff
    OBVIOUS
  <2>2. Distinct(queue') BY <2>1 DEF Distinct, QueueSound
  <2>3. taken' \notin Waiting' BY <2>1 DEF Waiting, Distinct, QueueSound
  <2>4. Waiting = Waiting' \cup {taken'}
    <3>1. ASSUME NEW i \in 1..Len(queue) PROVE queue[i] \in Waiting' \cup {taken'}
      <4>1. CASE i = 1 BY <4>1, <2>1
      <4>2. CASE i # 1
        <5>1. i - 1 \in 1..Len(queue') /\ queue'[i - 1] = queue[i] BY <4>2, <2>1
        <5>. QED BY <5>1 DEF Waiting
      <4>. QED BY <4>1, <4>2
    <3>2. Waiting' \cup {taken'} \subseteq Waiting BY <2>1 DEF Waiting
    <3>3. Waiting \subseteq Waiting' \cup {taken'} BY <3>1, Zenon DEF Waiting
    <3>. QED BY <3>2, <3>3, Zenon
  <2>5. ~Held /\ Held' BY <2>1 DEF Held
  <2>6. QueueSound' BY <2>2, <2>3, <2>4, <2>5 DEF QueueSound
  <2>7. Len(queue') <= Capacity BY <2>1
  <2>. QED BY <1>0, <2>1, <2>6, <2>7
<1>2. CASE Relay!Forget BY <1>0, <1>2 DEF Relay!Forget, QueueSound, Distinct, Waiting, Held
<1>3. CASE Relay!Receive BY <1>0, <1>3 DEF Relay!Receive, QueueSound, Distinct, Waiting, Held
<1>. QED BY <1>1, <1>2, <1>3

\* The requests between check and removal stay those they are, or one leaves.
LEMMA LoneStays ==
    ASSUME RelayInv, \A m \in Merchants : Relay!Between(m)' \subseteq Relay!Between(m),
           \A r \in Requests : r \in crossing /\ r \notin crossing' =>
                                \A m \in Merchants : r \notin Relay!Between(m)'
    PROVE  LoneIsAlone'
<1> SUFFICES ASSUME NEW m \in Merchants, NEW q \in Relay!Between(m)', NEW r \in Relay!Between(m)',
                    q \notin crossing'
             PROVE  q = r
  BY DEF LoneIsAlone
<1>1. q \in Requests /\ q \in Relay!Between(m) /\ r \in Relay!Between(m) BY DEF Relay!Between
<1>2. q \notin crossing BY <1>1
<1>. QED BY <1>1, <1>2 DEF RelayInv, LoneIsAlone

LEMMA RelayStep ==
    ASSUME RelayInv, Relay!Next
    PROVE  RelayInv'
<1> USE LocalAssumption DEF RelayInv, Relay!HandoffRelayAssumption, Relay!TypeOK, Relay!inbox, Relay!history, Relay!Goto
<1>1. UNCHANGED <<queue, queued, taken, forgotten>> => QueueSound'
  BY DEF QueueSound, Distinct, Waiting, Held
<1>2. ASSUME UNCHANGED <<request, relayAt, crossing>> PROVE LoneIsAlone'
  BY <1>2 DEF LoneIsAlone, Relay!Between
<1>3. ASSUME NEW m \in Merchants, Relay!Launch(m) \/ Relay!Expire(m) PROVE RelayInv'
  <2>1. UNCHANGED <<queue, queued, taken, forgotten, request, relayAt, crossing, accepted, alone>>
    BY <1>3 DEF Relay!Launch, Relay!Expire
  <2>2. LoneIsAlone' /\ QueueSound' BY <1>1, <1>2, <2>1
  <2>3. windows' \subseteq Merchants /\ launches' \in [Merchants -> 0..MaxLaunches]
    <3>1. CASE Relay!Launch(m)
      <4>1. launches[m] + 1 \in 0..MaxLaunches BY <3>1 DEF Relay!Launch
      <4>. QED BY <3>1, <4>1 DEF Relay!Launch
    <3>2. CASE Relay!Expire(m) BY <3>2 DEF Relay!Expire
    <3>. QED BY <1>3, <3>1, <3>2
  <2>4. relayClosing' \in BOOLEAN BY <1>3 DEF Relay!Launch, Relay!Expire
  <2>. QED BY <2>1, <2>2, <2>3, <2>4
<1>4. ASSUME NEW r \in Requests, NEW h \in Relay!Handoff, Relay!Arrive(r, h) PROVE RelayInv'
  <2>1. \A m \in Merchants : Relay!Between(m)' = Relay!Between(m) BY <1>4 DEF Relay!Arrive, Relay!Between
  <2>2. LoneIsAlone' BY <1>4, <2>1 DEF Relay!Arrive, LoneIsAlone
  <2>. QED BY <1>1, <1>4, <2>2 DEF Relay!Arrive
<1>5. ASSUME NEW r \in Requests, Relay!Authorize(r) PROVE RelayInv'
  <2> DEFINE M == request[r][1]
  <2>0. request[r] \in Relay!Handoff /\ M \in Merchants BY <1>5 DEF Relay!Authorize, Relay!Handoff
  <2>1. CASE M \in windows
    <3>1. /\ relayAt' = [relayAt EXCEPT ![r] = "authorized"] /\ request' = request
          /\ crossing' = IF Relay!Between(M) = {} THEN crossing
                         ELSE crossing \cup Relay!Between(M) \cup {r}
      BY <1>5, <2>1 DEF Relay!Authorize
    <3>2. ASSUME NEW m \in Merchants
          PROVE  Relay!Between(m)' = IF m = M THEN Relay!Between(m) \cup {r} ELSE Relay!Between(m)
      <4>1. relayAt[r] = "arrived" BY <1>5 DEF Relay!Authorize
      <4>. QED BY <3>1, <4>1 DEF Relay!Between
    <3>3. LoneIsAlone'
      <4> SUFFICES ASSUME NEW m \in Merchants, NEW q \in Relay!Between(m)', NEW p \in Relay!Between(m)',
                          q \notin crossing'
                   PROVE  q = p
        BY DEF LoneIsAlone
      <4>1. CASE m # M
        <5>1. q \in Relay!Between(m) /\ p \in Relay!Between(m) BY <3>2, <4>1
        <5>2. q \notin crossing BY <3>1, Zenon
        <5>. QED BY <5>1, <5>2 DEF LoneIsAlone
      <4>2. CASE m = M /\ Relay!Between(M) = {}
        <5>1. Relay!Between(m)' = {r} BY <3>2, <4>2
        <5>. QED BY <5>1
      <4>3. CASE m = M /\ Relay!Between(M) # {}
        <5>1. Relay!Between(m)' = Relay!Between(M) \cup {r} BY <3>2, <4>3
        <5>2. crossing' = crossing \cup Relay!Between(M) \cup {r} BY <3>1, <4>3
        <5>. QED BY <5>1, <5>2
      <4>. QED BY <4>1, <4>2, <4>3
    <3>4. Relay!Between(M) \subseteq Requests BY DEF Relay!Between
    <3>5. crossing' \subseteq Requests BY <3>1, <3>4
    <3>. QED BY <1>1, <1>5, <2>0, <3>1, <3>3, <3>5 DEF Relay!Authorize
  <2>2. CASE M \notin windows
    <3>1. relayAt' = [relayAt EXCEPT ![r] = "idle"] /\ request' = request /\ crossing' = crossing
      BY <1>5, <2>2 DEF Relay!Authorize
    <3>2. LoneIsAlone' BY <3>1, LoneStays DEF Relay!Between
    <3>. QED BY <1>1, <1>5, <3>1, <3>2 DEF Relay!Authorize
  <2>. QED BY <2>1, <2>2
<1>6. ASSUME NEW r \in Requests, Relay!Consume(r) PROVE RelayInv'
  <2>0. request[r] \in Relay!Handoff /\ request[r][1] \in Merchants BY <1>6 DEF Relay!Consume, Relay!Handoff
  <2>1. /\ relayAt' = [relayAt EXCEPT ![r] = "idle"] /\ request' = request /\ crossing' = crossing \ {r}
        /\ alone' \in [Merchants -> Nat]
    BY <1>6, <2>0 DEF Relay!Consume, Relay!Remember
  <2>2. LoneIsAlone' BY <2>1, LoneStays DEF Relay!Between
  <2>. QED BY <1>1, <1>6, <2>1, <2>2 DEF Relay!Consume
<1>7. ASSUME NEW r \in Requests, Relay!Enqueue(r) PROVE RelayInv'
  <2> USE <1>7 DEF Relay!Enqueue
  <2>1. request[r] \in Relay!Handoff /\ request[r][1] \in Merchants BY DEF Relay!Handoff
  <2>2. CASE Relay!Admits(request[r]) /\ Relay!Admit(request[r])
    <3>1. /\ QueueSound' /\ queue' \in Seq(Relay!Handoff) /\ Len(queue') <= Capacity
          /\ queued' \subseteq Relay!Handoff
      BY <2>1, <2>2, Admitted
    <3>2. accepted' = [accepted EXCEPT ![request[r][1]] = @ + 1]
      BY <2>2
    <3>3. relayAt' = [relayAt EXCEPT ![r] = "enqueued"] /\ crossing' = crossing /\ request' = request
      BY <2>2
    <3>4. accepted' \in [Merchants -> Nat] BY <2>1, <3>2
    <3>5. LoneIsAlone' BY <3>3, LoneStays DEF Relay!Between
    <3>. QED BY <2>1, <3>1, <3>3, <3>4, <3>5
  <2>3. CASE ~Relay!Admits(request[r])
    <3>1. relayAt' = [relayAt EXCEPT ![r] = "idle"] /\ crossing' = crossing \ {r} /\ request' = request
      BY <2>3
    <3>2. LoneIsAlone' BY <3>1, LoneStays DEF Relay!Between
    <3>. QED BY <1>1, <2>3, <3>1, <3>2
  <2>. QED BY <2>2, <2>3
<1>8. ASSUME NEW h \in Relay!Handoff, Relay!Paste(h) PROVE RelayInv'
  <2>1. LoneIsAlone' BY <1>2, <1>8 DEF Relay!Paste
  <2>. QED BY <1>8, <2>1, Admitted DEF Relay!Paste
<1>9. CASE Relay!Shutdown
  <2>1. LoneIsAlone' BY <1>2, <1>9 DEF Relay!Shutdown
  <2>. QED BY <1>1, <1>9, <2>1 DEF Relay!Shutdown
<1>. QED BY <1>3, <1>4, <1>5, <1>6, <1>7, <1>8, <1>9, ConsumerStep DEF Relay!Next, Relay!Handle

LEMMA RelayInvHolds == LocalSpec => [](part = "relay" => RelayInv)
<1>1. LocalInit => RelayInv BY RelayInit DEF LocalInit
<1>2. (part = "relay" => RelayInv) /\ [LocalNext]_localVars => (part = "relay" => RelayInv)'
  <2> SUFFICES ASSUME part = "relay" => RelayInv, [LocalNext]_localVars, part' = "relay"
               PROVE  RelayInv'
    OBVIOUS
  <2>1. CASE UNCHANGED localVars
    <3>1. RelayInv /\ UNCHANGED relayVars BY <2>1 DEF localVars
    <3>. QED BY <3>1 DEF relayVars, RelayInv, Relay!TypeOK, QueueSound, Distinct, Waiting, Held,
                      LoneIsAlone, Relay!Between
  <2>2. CASE LocalNext BY <2>2, RelayStep DEF LocalNext, Moves
  <2>. QED BY <2>1, <2>2
<1>. QED BY <1>1, <1>2, PTL DEF LocalSpec

\* A step after which no more handoffs can be let in alone than before costs no launch.
LEMMA SolventKept ==
    ASSUME RelayInv, NEW m \in Merchants, Solvent(m), launches'[m] = launches[m],
           \/ alone'[m] = alone[m] /\ (MayEnter(m)' => MayEnter(m))
           \/ alone'[m] = alone[m] + 1 /\ MayEnter(m) /\ ~MayEnter(m)'
    PROVE  Solvent(m)'
<1>1. alone[m] \in Nat /\ launches[m] \in Nat BY DEF RelayInv, Relay!TypeOK
<1>. QED BY <1>1 DEF Solvent

\* A step that lets at most one request in, which was entitled to it, costs no launch.
LEMMA BoundedKept ==
    ASSUME RelayInv, NEW m \in Merchants, Bounded(m), launches'[m] = launches[m],
           \/ accepted'[m] = accepted[m] /\ Entitled(m)' \subseteq Entitled(m)
           \/ /\ accepted'[m] = accepted[m] + 1
              /\ \E r \in Entitled(m) : Entitled(m)' \subseteq Entitled(m) \ {r}
    PROVE  Bounded(m)'
<1> DEFINE E == Entitled(m)
           F == Entitled(m)'
           bound == launches[m] * Cardinality(Requests)
<1>1. IsFiniteSet(E) /\ Cardinality(E) \in Nat
  <2>1. E \subseteq Requests BY DEF Entitled, Carrying
  <2>. QED BY <2>1, RequestsAreFinite, FS_Subset, FS_CardinalityType
<1>2. accepted[m] \in Nat /\ bound \in Nat
  <2>1. accepted[m] \in Nat /\ launches[m] \in Nat BY DEF RelayInv, Relay!TypeOK
  <2>2. Cardinality(Requests) \in Nat BY RequestsAreFinite, FS_CardinalityType
  <2>. QED BY <2>1, <2>2
<1>3. accepted[m] + Cardinality(E) <= bound BY DEF Bounded
<1>4. Bounded(m)' <=> accepted'[m] + Cardinality(F) <= bound BY DEF Bounded
<1>5. CASE accepted'[m] = accepted[m] /\ F \subseteq E
  <2>1. Cardinality(F) \in Nat /\ Cardinality(F) <= Cardinality(E)
    BY <1>1, <1>5, FS_Subset, FS_CardinalityType
  <2> HIDE DEF E, F, bound
  <2>. QED BY <1>1, <1>2, <1>3, <1>4, <1>5, <2>1
<1>6. CASE accepted'[m] = accepted[m] + 1 /\ \E r \in E : F \subseteq E \ {r}
  <2>1. PICK r \in E : F \subseteq E \ {r} BY <1>6
  <2>2. IsFiniteSet(E \ {r}) /\ Cardinality(E \ {r}) = Cardinality(E) - 1
    BY <1>1, FS_RemoveElement
  <2>3. Cardinality(F) \in Nat /\ Cardinality(F) <= Cardinality(E \ {r})
    BY <2>1, <2>2, FS_Subset, FS_CardinalityType
  <2> HIDE DEF E, F, bound
  <2>. QED BY <1>1, <1>2, <1>3, <1>4, <1>6, <2>2, <2>3
<1>. QED BY <1>5, <1>6

\* A launch pays for every request there can be.
LEMMA BoundedGrows ==
    ASSUME RelayInv, NEW m \in Merchants, Bounded(m), launches'[m] = launches[m] + 1,
           accepted' = accepted, request' = request, relayAt' = relayAt,
           windows' \in {windows, windows \cup {m}}
    PROVE  Bounded(m)'
<1> DEFINE E == Cardinality(Entitled(m))
           F == Cardinality(Entitled(m)')
           R == Cardinality(Requests)
           l == launches[m]
<1>1. R \in Nat /\ E \in Nat /\ F \in Nat /\ F <= R
  <2>1. Entitled(m) \subseteq Requests /\ Entitled(m)' \subseteq Requests BY DEF Entitled, Carrying
  <2>. QED BY <2>1, RequestsAreFinite, FS_Subset, FS_CardinalityType
<1>2. accepted[m] \in Nat /\ l \in Nat BY DEF RelayInv, Relay!TypeOK
<1>3. CASE m \in windows' /\ m \notin windows
  <2>1. accepted[m] + E <= l * R BY DEF Bounded
  <2>2. Bounded(m)' <=> accepted[m] + F <= (l + 1) * R BY DEF Bounded
  <2> HIDE DEF E, F, R, l
  <2>3. (l + 1) * R = l * R + R /\ l * R \in Nat BY <1>1, <1>2
  <2>. QED BY <1>1, <1>2, <2>1, <2>2, <2>3
<1>4. CASE m \in windows' <=> m \in windows
  <2>1. accepted[m] + E <= l * R BY DEF Bounded
  <2>2. F = E BY <1>4 DEF Entitled, Carrying
  <2>3. Bounded(m)' <=> accepted[m] + F <= (l + 1) * R BY DEF Bounded
  <2> HIDE DEF E, F, R, l
  <2>4. (l + 1) * R = l * R + R /\ l * R \in Nat BY <1>1, <1>2
  <2>. QED BY <1>1, <1>2, <2>1, <2>2, <2>3, <2>4
<1>. QED BY <1>3, <1>4

\* A request that meets no other takes the window with it, so that the launch it is from
\* pays for one handoff; one that meets others was under way when the first of them did.
LEMMA RelaySpends ==
    ASSUME RelayInv, Relay!Next, NEW m \in Merchants, Solvent(m), Bounded(m)
    PROVE  Solvent(m)' /\ Bounded(m)'
<1> USE LocalAssumption DEF RelayInv, Relay!HandoffRelayAssumption, Relay!TypeOK, Relay!inbox, Relay!history, Relay!Goto
<1>1. ASSUME launches'[m] = launches[m], alone' = alone, accepted' = accepted,
             MayEnter(m)' => MayEnter(m), Entitled(m)' \subseteq Entitled(m)
      PROVE  Solvent(m)' /\ Bounded(m)'
  BY <1>1, SolventKept, BoundedKept
<1>2. ASSUME UNCHANGED <<launches, accepted, crossing, alone, request, relayAt>>, windows' \subseteq windows
      PROVE  Solvent(m)' /\ Bounded(m)'
  <2>1. MayEnter(m)' => MayEnter(m) BY <1>2 DEF MayEnter, Relay!Between
  <2>2. Entitled(m)' \subseteq Entitled(m) BY <1>2 DEF Entitled, Carrying
  <2>. QED BY <1>1, <1>2, <2>1, <2>2
<1>3. ASSUME NEW n \in Merchants, Relay!Launch(n) PROVE Solvent(m)' /\ Bounded(m)'
  <2>1. CASE n = m
    <3>1. /\ launches'[m] = launches[m] + 1 /\ alone' = alone /\ accepted' = accepted
          /\ windows' \in {windows, windows \cup {m}} /\ request' = request /\ relayAt' = relayAt
      BY <1>3, <2>1 DEF Relay!Launch
    <3>2. Solvent(m)' BY <3>1 DEF Solvent
    <3>3. Bounded(m)' BY <1>3, <2>1, <3>1, BoundedGrows
    <3>. QED BY <3>2, <3>3
  <2>2. CASE n # m
    <3>1. /\ launches'[m] = launches[m] /\ (m \in windows' <=> m \in windows)
          /\ UNCHANGED <<request, relayAt, accepted, crossing, alone>>
      BY <1>3, <2>2 DEF Relay!Launch
    <3>2. MayEnter(m)' = MayEnter(m) BY <3>1 DEF MayEnter, Relay!Between
    <3>3. Entitled(m)' = Entitled(m) BY <3>1 DEF Entitled, Carrying
    <3>. QED BY <1>1, <3>1, <3>2, <3>3
  <2>. QED BY <2>1, <2>2
<1>4. ASSUME NEW n \in Merchants, Relay!Expire(n) PROVE Solvent(m)' /\ Bounded(m)'
  BY <1>2, <1>4 DEF Relay!Expire
<1>5. ASSUME NEW r \in Requests, NEW h \in Relay!Handoff, Relay!Arrive(r, h)
      PROVE  Solvent(m)' /\ Bounded(m)'
  <2>1. /\ relayAt[r] = "idle" /\ relayAt' = [relayAt EXCEPT ![r] = "arrived"]
        /\ request' = [request EXCEPT ![r] = h]
        /\ UNCHANGED <<windows, launches, accepted, crossing, alone>>
    BY <1>5 DEF Relay!Arrive
  <2>2. MayEnter(m)' => MayEnter(m) BY <2>1 DEF MayEnter, Relay!Between
  <2>3. Entitled(m)' = Entitled(m) BY <2>1 DEF Entitled, Carrying
  <2>. QED BY <1>1, <2>1, <2>2, <2>3
<1>6. ASSUME NEW r \in Requests, Relay!Authorize(r) PROVE Solvent(m)' /\ Bounded(m)'
  <2>1. /\ relayAt[r] = "arrived" /\ UNCHANGED <<windows, launches, request, accepted, alone>>
        /\ relayAt' = [relayAt EXCEPT ![r] = IF request[r][1] \in windows THEN "authorized" ELSE "idle"]
        /\ crossing \subseteq crossing'
    BY <1>6 DEF Relay!Authorize
  <2>2. MayEnter(m)' => MayEnter(m)
    <3>1. CASE m \in windows BY <3>1 DEF MayEnter
    <3>2. CASE m \notin windows
      <4>1. Relay!Between(m)' \subseteq Relay!Between(m) BY <2>1, <3>2 DEF Relay!Between
      <4>. QED BY <2>1, <3>2, <4>1 DEF MayEnter
    <3>. QED BY <3>1, <3>2
  <2>3. Entitled(m)' \subseteq Entitled(m) BY <2>1 DEF Entitled, Carrying
  <2>. QED BY <1>1, <2>1, <2>2, <2>3
<1>7. ASSUME NEW r \in Requests, Relay!Enqueue(r) PROVE Solvent(m)' /\ Bounded(m)'
  <2> USE <1>7 DEF Relay!Enqueue
  <2>1. CASE /\ relayAt' = [relayAt EXCEPT ![r] = "enqueued"] /\ crossing' = crossing
             /\ accepted' = [accepted EXCEPT ![request[r][1]] = @ + 1]
    <3>1. relayAt[r] = "authorized" /\ UNCHANGED <<windows, launches, request, alone>> OBVIOUS
    <3>2. Relay!Between(m)' = Relay!Between(m) BY <2>1, <3>1 DEF Relay!Between
    <3>3. MayEnter(m)' = MayEnter(m) BY <2>1, <3>1, <3>2 DEF MayEnter
    <3>4. Solvent(m)' BY <3>1, <3>3, SolventKept
    <3>5. CASE request[r][1] = m
      <4>1. accepted'[m] = accepted[m] + 1 BY <2>1, <3>5
      <4>2. r \in Entitled(m) /\ Entitled(m)' \subseteq Entitled(m) \ {r}
        BY <2>1, <3>1, <3>5 DEF Entitled, Carrying
      <4>. QED BY <3>1, <3>4, <4>1, <4>2, BoundedKept
    <3>6. CASE request[r][1] # m
      <4>1. accepted'[m] = accepted[m] BY <2>1, <3>6
      <4>2. /\ Carrying(m, "enqueued")' = Carrying(m, "enqueued")
            /\ Carrying(m, "authorized")' = Carrying(m, "authorized")
        BY <2>1, <3>1, <3>6 DEF Carrying
      <4>3. Entitled(m)' = Entitled(m) BY <3>1, <4>2, Zenon DEF Entitled
      <4>. QED BY <3>1, <3>4, <4>1, <4>3, BoundedKept
    <3>. QED BY <3>5, <3>6
  <2>2. CASE relayAt' = [relayAt EXCEPT ![r] = "idle"] /\ crossing' = crossing \ {r} /\ accepted' = accepted
    <3>1. relayAt[r] = "authorized" /\ UNCHANGED <<windows, launches, request, alone>> OBVIOUS
    <3>2. MayEnter(m)' => MayEnter(m) BY <2>2, <3>1 DEF MayEnter, Relay!Between
    <3>3. Entitled(m)' \subseteq Entitled(m) BY <2>2, <3>1 DEF Entitled, Carrying
    <3>. QED BY <1>1, <2>2, <3>1, <3>2, <3>3
  <2>. QED BY <2>1, <2>2
<1>8. ASSUME NEW r \in Requests, Relay!Consume(r) PROVE Solvent(m)' /\ Bounded(m)'
  <2>1. /\ relayAt[r] = "enqueued" /\ relayAt' = [relayAt EXCEPT ![r] = "idle"]
        /\ windows' = windows \ {request[r][1]} /\ crossing' = crossing \ {r}
        /\ alone' = IF r \in crossing THEN alone ELSE [alone EXCEPT ![request[r][1]] = @ + 1]
        /\ UNCHANGED <<launches, request, accepted>>
    BY <1>8 DEF Relay!Consume, Relay!Remember
  <2>2. Entitled(m)' \subseteq Entitled(m) BY <2>1 DEF Entitled, Carrying
  <2>3. MayEnter(m)' => MayEnter(m)
    <3>1. ASSUME NEW q \in Relay!Between(m)' PROVE q \in Relay!Between(m) /\ q # r
      BY <2>1 DEF Relay!Between
    <3>. QED BY <2>1, <3>1 DEF MayEnter
  <2>4. Bounded(m)' BY <2>1, <2>2, BoundedKept
  <2>5. CASE alone'[m] = alone[m] BY <2>1, <2>3, <2>4, <2>5, SolventKept
  <2>6. CASE alone'[m] # alone[m]
    <3>1. r \notin crossing /\ request[r][1] = m /\ alone'[m] = alone[m] + 1 BY <2>1, <2>6
    <3>2. r \in Relay!Between(m) BY <2>1, <3>1 DEF Relay!Between
    <3>3. Relay!Between(m) = {r} BY <3>1, <3>2 DEF LoneIsAlone
    <3>4. Relay!Between(m)' = {} BY <2>1, <3>3 DEF Relay!Between
    <3>5. MayEnter(m) /\ ~MayEnter(m)' BY <2>1, <3>1, <3>2, <3>4 DEF MayEnter
    <3>. QED BY <2>1, <2>4, <3>1, <3>5, SolventKept
  <2>. QED BY <2>5, <2>6
<1>9. ASSUME NEW h \in Relay!Handoff, Relay!Paste(h) PROVE Solvent(m)' /\ Bounded(m)'
  BY <1>2, <1>9 DEF Relay!Paste
<1>10. CASE Relay!Consumer \/ Relay!Shutdown
  BY <1>2, <1>10 DEF Relay!Consumer, Relay!Take, Relay!Forget, Relay!Receive, Relay!Shutdown
<1>. QED BY <1>3, <1>4, <1>5, <1>6, <1>7, <1>8, <1>9, <1>10 DEF Relay!Next, Relay!Handle

\* No launch is overdrawn.
LaunchesCover == \A m \in Merchants : Solvent(m) /\ Bounded(m)

LEMMA LaunchesCoverHolds == LocalSpec => [](part = "relay" => LaunchesCover)
<1> DEFINE I == (part = "relay" => RelayInv) /\ (part = "relay" => LaunchesCover)
<1>1. LocalInit => LaunchesCover BY RelayInit DEF LocalInit, LaunchesCover
<1>2. I /\ [LocalNext]_localVars => (part = "relay" => LaunchesCover)'
  <2> SUFFICES ASSUME I, [LocalNext]_localVars, part' = "relay"
               PROVE  LaunchesCover'
    OBVIOUS
  <2>1. CASE UNCHANGED localVars
    BY <2>1 DEF localVars, relayVars, LaunchesCover, Solvent, Bounded, MayEnter, Entitled, Carrying, Relay!Between
  <2>2. CASE LocalNext
    <3>1. RelayInv /\ LaunchesCover /\ Relay!Next BY <2>2 DEF LocalNext, Moves
    <3>. QED BY <3>1, RelaySpends DEF LaunchesCover
  <2>. QED BY <2>1, <2>2
<1>. QED BY <1>1, <1>2, RelayInvHolds, PTL DEF LocalSpec

\* What the user agrees to is not used again, however many requests are posted at once: a
\* launch lets in one of those that meet no other and, of those that do, no more than can be
\* under way; no handoff is queued twice or refused for one that is gone; an approval is one
\* payment at most and a rejection none, and what is complete was paid and verified
\* (app_entpay_relay.go:124 and 132, local_agent.go:178).
THEOREM ConsentSpentOnce == LocalSpec => []ConsentIsSpentOnce
<1>1. ASSUME RelayInv, LaunchesCover
      PROVE  Relay!OneHandoffPerLaunch /\ Relay!LaunchBoundsHandoffs
  <2> SUFFICES ASSUME NEW m \in Merchants
               PROVE  alone[m] <= launches[m] /\ accepted[m] <= launches[m] * Cardinality(Requests)
    BY RelayCardinality DEF Relay!OneHandoffPerLaunch, Relay!LaunchBoundsHandoffs
  <2>1. alone[m] \in Nat /\ accepted[m] \in Nat /\ launches[m] \in Nat
    BY <1>1 DEF RelayInv, Relay!TypeOK
  <2>2. Solvent(m) /\ Bounded(m) BY <1>1 DEF LaunchesCover
  <2>3. alone[m] <= launches[m] BY <2>1, <2>2 DEF Solvent
  <2>4. Cardinality(Requests) \in Nat /\ Cardinality(Entitled(m)) \in Nat
    <3>1. Entitled(m) \subseteq Requests BY DEF Entitled, Carrying
    <3>. QED BY <3>1, RequestsAreFinite, FS_Subset, FS_CardinalityType
  <2>5. launches[m] * Cardinality(Requests) \in Nat BY <2>1, <2>4
  <2>6. accepted[m] <= launches[m] * Cardinality(Requests)
    BY <2>1, <2>2, <2>4, <2>5 DEF Bounded
  <2>. QED BY <2>3, <2>6
<1>2. ASSUME RelayInv PROVE Relay!DigestsMatchQueue
  <2>1. Cardinality(Waiting) = Len(queue)
    BY <1>2, DistinctCounts DEF RelayInv, QueueSound, Relay!TypeOK, Waiting
  <2>2. queued = Waiting \cup (IF Held THEN {taken} ELSE {}) BY <1>2 DEF RelayInv, QueueSound
  <2>. QED BY <2>1, <2>2, RelayCardinality, Zenon DEF Relay!DigestsMatchQueue, Waiting, Held
<1>3. AgentInv => Agent!OnePaymentPerApproval /\ Agent!RejectedCreatesNothing /\ Agent!CompleteIsVerified
  BY DEF AgentInv, HandoffSound, Unpaid, Agent!TypeOK,
         Agent!OnePaymentPerApproval, Agent!RejectedCreatesNothing, Agent!CompleteIsVerified
<1>4. /\ part = "relay" => RelayInv
      /\ part = "relay" => LaunchesCover
      /\ part = "agent" => AgentInv
      => ConsentIsSpentOnce
  BY <1>1, <1>2, <1>3 DEF ConsentIsSpentOnce
<1>. QED BY RelayInvHolds, LaunchesCoverHolds, AgentInvHolds, <1>4, PTL

-----------------------------------------------------------------------------
(* The workers that search a nonce.                                        *)

\* The nonces one worker tries.
Stride(w) == {n \in Search!Nonces : \E k \in Nat : n = w + k * Count}

\* What a worker has done by the step it is at: every nonce of its stride below its own
\* was without work, and it ends by itself only at the last.
WorkerSound(w) ==
    /\ nonce[w] \in Stride(w)
    /\ \A n \in Stride(w) \cap valid : n >= nonce[w]
    /\ at[w] = "send" => nonce[w] \in valid
    /\ at[w] = "ended" /\ caller # "entered" /\ ~cancelled => Search!LastNonce(w) /\ nonce[w] \notin valid
    /\ at[w] = "cancel" => found # None \/ caller # "selecting"

CallerSound ==
    /\ stopped => cancelled
    /\ caller = "entered" => Search!AllEnded /\ found = None /\ cancelled = stopped
    /\ caller = "selecting" /\ found = None => cancelled = stopped
    /\ caller = "waiting" /\ ~stopped => result \in valid
    /\ caller = "returned" => Search!AllEnded
    /\ Search!FoundOrExhausted

SearchInv ==
    /\ Search!TypeOK
    /\ \A w \in Search!Workers : WorkerSound(w)
    /\ CallerSound

\* Strides take every nonce, and nothing of one lies between a nonce and the next.
LEMMA StridesCover ==
    ASSUME NEW n \in Search!Nonces
    PROVE  \E w \in Search!Workers : n \in Stride(w)
<1> USE LocalAssumption DEF Search!MineWorkersAssumption, Search!Nonces, Search!Workers
<1>1. n \in Nat /\ Count \in Nat /\ Count > 0 OBVIOUS
<1>2. n % Count \in 0..Count - 1 /\ n \div Count \in Nat BY <1>1
<1>3. n = (n % Count) + (n \div Count) * Count BY <1>1
<1>. QED BY <1>2, <1>3 DEF Stride

LEMMA StrideSteps ==
    ASSUME NEW w \in Search!Workers, NEW n \in Stride(w), NEW m \in Stride(w), n < m
    PROVE  n + Count <= m
<1> USE LocalAssumption DEF Search!MineWorkersAssumption, Search!Nonces, Search!Workers
<1>1. PICK k \in Nat : n = w + k * Count BY DEF Stride
<1>2. PICK l \in Nat : m = w + l * Count BY DEF Stride
<1>3. w \in Nat /\ Count \in Nat /\ Count > 0 OBVIOUS
<1>4. k < l
  <2> SUFFICES ASSUME l <= k PROVE FALSE OBVIOUS
  <2>1. l * Count <= k * Count BY <1>3
  <2>. QED BY <1>1, <1>2, <1>3, <2>1
<1>5. (k + 1) * Count <= l * Count BY <1>3, <1>4
<1>6. (k + 1) * Count = k * Count + Count BY <1>3
<1>. QED BY <1>1, <1>2, <1>3, <1>5, <1>6

LEMMA SearchInit == Search!Init => SearchInv
<1> SUFFICES ASSUME Search!Init PROVE SearchInv OBVIOUS
<1> USE LocalAssumption DEF Search!Init, Search!MineWorkersAssumption, Search!Nonces, Search!Workers
<1>1. Search!TypeOK
  <2>1. at \in [Search!Workers -> {"check", "hash", "send", "cancel", "ended"}] BY Zenon
  <2>2. nonce \in [Search!Workers -> Search!Nonces] OBVIOUS
  <2>3. iterations \in [Search!Workers -> 0..CheckEvery - 1] OBVIOUS
  <2>. QED BY <2>1, <2>2, <2>3 DEF Search!TypeOK
<1>2. ASSUME NEW w \in Search!Workers PROVE WorkerSound(w)
  <2>1. w \in Nat /\ w <= MaxNonce /\ w = w + 0 * Count BY <1>2
  <2>2. nonce[w] \in Stride(w) BY <1>2, <2>1 DEF Stride
  <2>3. ASSUME NEW n \in Stride(w) PROVE n >= w
    <3>1. PICK k \in Nat : n = w + k * Count BY <2>3 DEF Stride
    <3>2. k * Count >= 0 OBVIOUS
    <3>. QED BY <2>1, <3>1, <3>2
  <2>. QED BY <1>2, <2>2, <2>3 DEF WorkerSound
<1>3. CallerSound BY DEF CallerSound, Search!AllEnded, Search!FoundOrExhausted
<1>. QED BY <1>1, <1>2, <1>3 DEF SearchInv

\* When all have ended by themselves there was nothing to find.
LEMMA NothingToFind ==
    ASSUME SearchInv, Search!AllEnded, caller = "selecting", ~cancelled
    PROVE  valid = {}
<1> USE LocalAssumption DEF Search!MineWorkersAssumption, SearchInv, Search!TypeOK, Search!Nonces, Search!Workers
<1> SUFFICES ASSUME NEW n \in valid PROVE FALSE OBVIOUS
<1>1. PICK w \in Search!Workers : n \in Stride(w) BY StridesCover
<1>2. /\ nonce[w] \in Stride(w) /\ n >= nonce[w] /\ Search!LastNonce(w) /\ nonce[w] \notin valid
      /\ nonce[w] \in Nat /\ n \in Nat /\ n <= MaxNonce
  BY <1>1 DEF WorkerSound, Search!AllEnded
<1>3. nonce[w] + Count <= n BY <1>1, <1>2, StrideSteps
<1>. QED BY <1>2, <1>3 DEF Search!LastNonce

\* A worker that goes on leaves the others alone.
LEMMA SearchWorks ==
    ASSUME SearchInv, NEW w \in Search!Workers, Search!Work(w)
    PROVE  SearchInv'
<1> USE LocalAssumption DEF Search!MineWorkersAssumption, SearchInv, Search!TypeOK
<1>1. caller \notin {"entered", "returned"}
  BY DEF CallerSound, Search!AllEnded, Search!Work, Search!Check, Search!Hash, Search!Send, Search!CancelOthers
<1>2. CASE Search!Check(w)
  BY <1>1, <1>2 DEF Search!Check, WorkerSound, CallerSound, Search!FoundOrExhausted, Search!LastNonce
<1>3. CASE Search!Hash(w)
  <2> USE <1>3 DEF Search!Hash
  <2>1. CASE nonce' = nonce /\ iterations' = iterations
    BY <1>1, <2>1 DEF WorkerSound, CallerSound, Search!FoundOrExhausted, Search!LastNonce
  <2>2. CASE nonce[w] \notin valid /\ ~Search!LastNonce(w)
    <3> DEFINE next == nonce[w] + Count
    <3>1. nonce' = [nonce EXCEPT ![w] = next] /\ at' = [at EXCEPT ![w] = "check"] BY <2>2
    <3>2. PICK k \in Nat : nonce[w] = w + k * Count BY DEF WorkerSound, Stride
    <3>3. w \in Nat /\ Count \in Nat /\ (k + 1) * Count = k * Count + Count BY DEF Search!Workers
    <3>4. next \in Search!Nonces
      BY <2>2, <3>3 DEF Search!LastNonce, Search!Nonces
    <3>5. next \in Stride(w) BY <3>2, <3>3, <3>4 DEF Stride
    <3>6. \A n \in Stride(w) \cap valid : n >= next
      <4> SUFFICES ASSUME NEW n \in Stride(w) \cap valid PROVE n >= next OBVIOUS
      <4>1. n # nonce[w] /\ n >= nonce[w] /\ nonce[w] \in Stride(w) BY <2>2 DEF WorkerSound
      <4>2. n \in Nat /\ nonce[w] \in Nat BY DEF Stride, Search!Nonces
      <4>. QED BY <4>1, <4>2, StrideSteps
    <3>7. (iterations[w] + 1) % CheckEvery \in 0..CheckEvery - 1 OBVIOUS
    <3>8. Search!TypeOK' BY <2>2, <3>4, <3>7
    <3>9. \A v \in Search!Workers : WorkerSound(v)'
      BY <1>1, <3>1, <3>5, <3>6 DEF WorkerSound, Search!LastNonce, Stride
    <3>. QED BY <1>1, <2>2, <3>8, <3>9 DEF CallerSound, Search!FoundOrExhausted
  <2>. QED BY <2>1, <2>2
<1>4. CASE Search!Send(w)
  <2> USE <1>4 DEF Search!Send
  <2>1. nonce[w] \in valid /\ nonce[w] # None BY DEF WorkerSound, Search!Nonces
  <2>. QED BY <1>1, <2>1 DEF WorkerSound, CallerSound, Search!FoundOrExhausted, Search!LastNonce
<1>5. CASE Search!CancelOthers(w)
  BY <1>1, <1>5 DEF Search!CancelOthers, WorkerSound, CallerSound, Search!FoundOrExhausted, Search!LastNonce
<1>. QED BY <1>2, <1>3, <1>4, <1>5 DEF Search!Work

LEMMA SearchCalls ==
    ASSUME SearchInv, Search!Stop \/ Search!Call
    PROVE  SearchInv'
<1> USE LocalAssumption DEF Search!MineWorkersAssumption, SearchInv, Search!TypeOK, WorkerSound, CallerSound,
        Search!FoundOrExhausted, Search!LastNonce, Search!AllEnded
<1>1. CASE Search!Stop BY <1>1 DEF Search!Stop
<1>2. CASE Search!Start BY <1>2 DEF Search!Start
<1>3. CASE Search!TakeFound BY <1>3 DEF Search!TakeFound
<1>4. CASE Search!Interrupted BY <1>4 DEF Search!Interrupted
<1>5. CASE Search!Done
  <2>1. ~stopped /\ found = None => valid = {} BY <1>5, NothingToFind DEF Search!Done
  <2>. QED BY <1>5, <2>1 DEF Search!Done
<1>6. CASE Search!Return BY <1>6 DEF Search!Return
<1>. QED BY <1>1, <1>2, <1>3, <1>4, <1>5, <1>6 DEF Search!Call

LEMMA SearchInvHolds == LocalSpec => [](part = "search" => SearchInv)
<1>1. LocalInit => SearchInv BY SearchInit DEF LocalInit
<1>2. (part = "search" => SearchInv) /\ [LocalNext]_localVars => (part = "search" => SearchInv)'
  <2> SUFFICES ASSUME part = "search" => SearchInv, [LocalNext]_localVars, part' = "search"
               PROVE  SearchInv'
    OBVIOUS
  <2>1. CASE UNCHANGED localVars
    BY <2>1 DEF localVars, searchVars, SearchInv, Search!TypeOK, WorkerSound, Stride, CallerSound,
                Search!AllEnded, Search!FoundOrExhausted, Search!LastNonce
  <2>2. CASE LocalNext
    BY <2>2, SearchWorks, SearchCalls DEF LocalNext, Moves, Search!Next
  <2>. QED BY <2>1, <2>2
<1>. QED BY <1>1, <1>2, PTL DEF LocalSpec

\* A caller that goes on gets a block when there is one and hears "nonce space exhausted"
\* only of a block without any valid nonce, for any number of workers, and none of them
\* outlives the call (block.go:129).
THEOREM BlockFoundOrExhausted == LocalSpec => []FoundOrExhausted
<1>1. SearchInv => Search!FoundOrExhausted /\ Search!NoWorkerOutlives
  BY DEF SearchInv, CallerSound, Search!NoWorkerOutlives
<1>2. (part = "search" => SearchInv) => FoundOrExhausted BY <1>1 DEF FoundOrExhausted
<1>. QED BY SearchInvHolds, <1>2, PTL

-----------------------------------------------------------------------------
(* The rules of headers.                                                   *)

\* The rules count as everybody does.
LEMMA RulesCardinality == \A S : Rules!Cardinality(S) = Cardinality(S)
BY DEF Rules!Cardinality, Cardinality

LEMMA LeastNumber ==
    ASSUME NEW Q \in SUBSET Nat, Q # {}
    PROVE  \E n \in Q : \A m \in Q : n <= m
<1>1. PICK n \in Q : \A m \in Q : ~(<<m, n>> \in OpToRel(<, Nat))
  BY WFMin, NatLessThanWellFounded
<1>2. \A m \in Q : ~(m < n) BY <1>1 DEF OpToRel
<1>. QED BY <1>2

NotLater(s, t) == {i \in 1..Len(s) : s[i].timestamp <= t}

IsMedian(s, t) ==
    /\ Cardinality(NotLater(s, t)) > Len(s) \div 2
    /\ \A i \in 1..Len(s) :
        s[i].timestamp < t => Cardinality(NotLater(s, s[i].timestamp)) <= Len(s) \div 2

LEMMA MedianIsChosen ==
    ASSUME NEW s, NEW i \in 1..Len(s), IsMedian(s, s[i].timestamp)
    PROVE  \E j \in 1..Len(s) : Rules!Median(s) = s[j].timestamp
<1>1. Rules!Median(s) = CHOOSE t \in {s[j].timestamp : j \in 1..Len(s)} : IsMedian(s, t)
  BY Zenon DEF Rules!Median, IsMedian, NotLater, Rules!Cardinality, Cardinality
<1>2. \E t \in {s[j].timestamp : j \in 1..Len(s)} : IsMedian(s, t) OBVIOUS
<1>3. (CHOOSE t \in {s[j].timestamp : j \in 1..Len(s)} : IsMedian(s, t)) \in {s[j].timestamp : j \in 1..Len(s)}
  BY <1>2, Zenon
<1>. QED BY <1>1, <1>3

\* The timestamp with the fewest before it among those that most do not exceed.
LEMMA MedianExists ==
    ASSUME NEW s \in Seq(Rules!Header), s # <<>>
    PROVE  \E i \in 1..Len(s) : Rules!Median(s) = s[i].timestamp
<1> DEFINE n == Len(s)
           rank[i \in 1..n] == Cardinality(NotLater(s, s[i].timestamp))
<1>1. n \in Nat /\ n > 0 /\ IsFiniteSet(1..n) /\ Cardinality(1..n) = n
  BY FS_Interval
<1>2. \A i \in 1..n : s[i].timestamp \in Int
  <2>1. \A i \in 1..n : s[i] \in Rules!Header OBVIOUS
  <2>. QED BY <2>1 DEF Rules!Header
<1>3. ASSUME NEW i \in 1..n
      PROVE  rank[i] \in 0..n /\ IsFiniteSet(NotLater(s, s[i].timestamp))
  <2>1. NotLater(s, s[i].timestamp) \in SUBSET (1..n) BY DEF NotLater
  <2>. QED BY <1>1, <2>1, FS_Subset, FS_CardinalityType
<1>4. ASSUME NEW i \in 1..n, NEW j \in 1..n, s[i].timestamp < s[j].timestamp
      PROVE  rank[i] < rank[j]
  <2>1. NotLater(s, s[i].timestamp) \in SUBSET NotLater(s, s[j].timestamp) BY <1>2, <1>4 DEF NotLater
  <2>2. j \in NotLater(s, s[j].timestamp) /\ j \notin NotLater(s, s[i].timestamp)
    BY <1>2, <1>4 DEF NotLater
  <2>3. rank[i] <= rank[j] /\ rank[i] # rank[j] BY <1>3, <2>1, <2>2, FS_Subset
  <2>. QED BY <1>3, <2>3
<1>5. PICK top \in 1..n : \A i \in 1..n : rank[i] <= rank[top]
  <2> DEFINE Q == {n - rank[i] : i \in 1..n}
  <2>1. Q \in SUBSET Nat BY <1>1, <1>3
  <2>2. Q # {} BY <1>1
  <2> HIDE DEF Q
  <2>3. PICK q \in Q : \A p \in Q : q <= p BY <2>1, <2>2, LeastNumber
  <2>4. PICK k \in 1..n : q = n - rank[k] BY <2>3 DEF Q
  <2>5. \A i \in 1..n : n - rank[k] <= n - rank[i] BY <2>3, <2>4 DEF Q
  <2> HIDE DEF rank
  <2>6. ASSUME NEW i \in 1..n PROVE rank[i] <= rank[k] BY <1>1, <1>3, <2>5
  <2>. QED BY <2>6
<1>6. rank[top] = n
  <2>1. ASSUME NEW i \in 1..n PROVE s[i].timestamp <= s[top].timestamp
    <3>1. ~(rank[top] < rank[i]) BY <1>3, <1>5
    <3>. QED BY <1>2, <1>4, <3>1
  <2>2. NotLater(s, s[top].timestamp) = 1..n BY <2>1 DEF NotLater
  <2>. QED BY <1>1, <2>2
<1>7. PICK k \in 1..n : rank[k] > n \div 2 /\ \A i \in 1..n : rank[i] > n \div 2 => rank[k] <= rank[i]
  <2> DEFINE Q == {rank[i] : i \in {j \in 1..n : rank[j] > n \div 2}}
  <2>0. (\A i \in 1..n : rank[i] \in Nat) /\ rank[top] > n \div 2 BY <1>1, <1>3, <1>6
  <2> HIDE DEF rank
  <2>1. Q \in SUBSET Nat BY <2>0
  <2>2. Q # {} BY <2>0
  <2> HIDE DEF Q
  <2>3. PICK q \in Q : \A p \in Q : q <= p BY <2>1, <2>2, LeastNumber
  <2>. QED BY <2>3 DEF Q
<1>8. ASSUME NEW i \in 1..n, s[i].timestamp < s[k].timestamp PROVE rank[i] <= n \div 2
  <2>1. rank[i] < rank[k] BY <1>4, <1>8
  <2>. QED BY <1>1, <1>3, <1>7, <2>1
<1>9. IsMedian(s, s[k].timestamp) BY <1>7, <1>8 DEF IsMedian
<1>. QED BY <1>9, MedianIsChosen

LEMMA Periods ==
    /\ MedianBlocks \in Nat /\ MedianBlocks > 0 /\ AdjustmentBlocks \in Nat /\ AdjustmentBlocks > 0
    /\ FirstAdjustment \in Nat /\ AdjustmentBlocks + MedianBlocks <= FirstAdjustment
BY LocalAssumption DEF Rules!ConsensusAssumption

\* l holds the k headers of c after the first d.
Slice(l, c, d, k) ==
    l \in Seq(Rules!Header) /\ Len(l) = k /\ \A i \in 1..k : l[i] = c[d + i]

Fewer(a, b) == IF a <= b THEN a ELSE b

LEMMA LastElements ==
    ASSUME NEW s \in Seq(Rules!Header), NEW n \in Nat
    PROVE  Slice(Rules!LastOf(s, n), s, Len(s) - Fewer(Len(s), n), Fewer(Len(s), n))
<1>1. CASE Len(s) <= n
  BY <1>1 DEF Rules!LastOf, Slice, Fewer
<1>2. CASE ~(Len(s) <= n)
  <2> DEFINE l == SubSeq(s, Len(s) - n + 1, Len(s))
  <2>1. Len(s) \in Nat /\ \A i \in (Len(s) - n + 1)..Len(s) : s[i] \in Rules!Header BY <1>2
  <2>2. /\ l \in Seq(Rules!Header)
        /\ Len(l) = IF Len(s) - n + 1 <= Len(s) THEN Len(s) - (Len(s) - n + 1) + 1 ELSE 0
        /\ \A i \in 1..(Len(s) - (Len(s) - n + 1) + 1) : l[i] = s[Len(s) - n + 1 + i - 1]
    BY <1>2, <2>1, SubSeqProperties
  <2> HIDE DEF l
  <2>3. Len(l) = n /\ \A i \in 1..n : l[i] = s[Len(s) - n + i] BY <2>1, <2>2
  <2>. QED BY <1>2, <2>2, <2>3 DEF Rules!LastOf, Slice, Fewer, l
<1>. QED BY <1>1, <1>2

\* The headers a median is of.
Newest(c, n) == Rules!LastOf(SubSeq(c, 1, n), MedianBlocks)

LEMMA NewestElements ==
    ASSUME NEW c \in Seq(Rules!Header), NEW n \in 1..Len(c)
    PROVE  Slice(Newest(c, n), c, n - Fewer(n, MedianBlocks), Fewer(n, MedianBlocks))
<1> DEFINE p == SubSeq(c, 1, n)
           l == Newest(c, n)
           k == Fewer(n, MedianBlocks)
<1>1. p \in Seq(Rules!Header) /\ Len(p) = n /\ \A i \in 1..n : p[i] = c[i]
  <2>1. \A i \in 1..n : c[i] \in Rules!Header OBVIOUS
  <2>. QED BY <2>1, SubSeqProperties
<1>2. l = Rules!LastOf(p, MedianBlocks) BY DEF Newest
<1>3. k \in 1..n BY Periods DEF Fewer
<1> HIDE DEF p, l, k
<1>4. Slice(l, p, n - k, k)
  <2>1. Slice(Rules!LastOf(p, MedianBlocks), p, Len(p) - Fewer(Len(p), MedianBlocks), Fewer(Len(p), MedianBlocks))
    BY <1>1, Periods, LastElements
  <2>. QED BY <1>1, <1>2, <2>1 DEF k
<1>5. ASSUME NEW i \in 1..k PROVE l[i] = c[n - k + i]
  <2>1. n - k + i \in 1..n BY <1>3
  <2>. QED BY <1>1, <1>4, <2>1 DEF Slice
<1>6. Slice(l, c, n - k, k) BY <1>4, <1>5 DEF Slice
<1>. QED BY <1>6 DEF l, k

\* A window holds what a median at its end, or one period before, is of.
LEMMA SameMedian ==
    ASSUME NEW c \in Seq(Rules!Header), FirstAdjustment < Len(c), NEW a \in {0, AdjustmentBlocks},
           NEW w, w = Rules!Window(c)
    PROVE  /\ Slice(w, c, Len(c) - FirstAdjustment, FirstAdjustment)
           /\ Rules!MedianAt(w, Len(w) - a) = Rules!MedianAt(c, Len(c) - a)
<1>1. Slice(w, c, Len(c) - FirstAdjustment, FirstAdjustment)
  <2>1. Slice(Rules!LastOf(c, FirstAdjustment), c, Len(c) - Fewer(Len(c), FirstAdjustment),
              Fewer(Len(c), FirstAdjustment))
    BY Periods, LastElements
  <2>2. Fewer(Len(c), FirstAdjustment) = FirstAdjustment BY Periods DEF Fewer
  <2>. QED BY <2>1, <2>2 DEF Rules!Window
<1>2. /\ Len(w) = FirstAdjustment /\ w \in Seq(Rules!Header) /\ Len(c) \in Nat
      /\ Len(w) - a \in 1..Len(w) /\ Len(c) - a \in 1..Len(c)
  BY <1>1, Periods DEF Slice
<1>3. Fewer(Len(w) - a, MedianBlocks) = MedianBlocks /\ Fewer(Len(c) - a, MedianBlocks) = MedianBlocks
  BY <1>2, Periods DEF Fewer
<1> DEFINE l == Newest(w, Len(w) - a)
           k == Newest(c, Len(c) - a)
<1>4. Slice(l, w, Len(w) - a - MedianBlocks, MedianBlocks) BY <1>2, <1>3, NewestElements
<1>5. Slice(k, c, Len(c) - a - MedianBlocks, MedianBlocks) BY <1>2, <1>3, NewestElements
<1> HIDE DEF l, k
<1>6. ASSUME NEW i \in 1..MedianBlocks PROVE l[i] = k[i]
  <2> DEFINE j == Len(w) - a - MedianBlocks + i
  <2>1. j \in 1..FirstAdjustment /\ Len(c) - FirstAdjustment + j = Len(c) - a - MedianBlocks + i
    BY <1>2, Periods
  <2>2. l[i] = w[j] BY <1>4 DEF Slice
  <2>3. k[i] = c[Len(c) - a - MedianBlocks + i] BY <1>5 DEF Slice
  <2> HIDE DEF j
  <2>4. w[j] = c[Len(c) - FirstAdjustment + j] BY <1>1, <2>1 DEF Slice
  <2>. QED BY <2>1, <2>2, <2>3, <2>4
<1>7. l = k BY <1>4, <1>5, <1>6, SeqEqual DEF Slice
<1>. QED BY <1>1, <1>7 DEF Rules!MedianAt, Newest, l, k

\* The window ends as the chain does and has its median time.
LEMMA WindowEnds ==
    ASSUME NEW c \in Seq(Rules!Header), c # <<>>, NEW w, w = Rules!Window(c)
    PROVE  /\ w \in Seq(Rules!Header) /\ w # <<>> /\ w[Len(w)] = c[Len(c)]
           /\ Rules!MedianTimePast(w) = Rules!MedianTimePast(c)
<1>1. CASE Len(c) <= FirstAdjustment
  BY <1>1 DEF Rules!Window, Rules!LastOf
<1>2. CASE ~(Len(c) <= FirstAdjustment)
  <2>1. FirstAdjustment < Len(c) /\ Len(c) \in Nat BY <1>2, Periods
  <2>2. /\ Slice(w, c, Len(c) - FirstAdjustment, FirstAdjustment)
        /\ Rules!MedianAt(w, Len(w) - 0) = Rules!MedianAt(c, Len(c) - 0)
    BY <2>1, SameMedian
  <2>3. w \in Seq(Rules!Header) /\ Len(w) = FirstAdjustment /\ Len(w) > 0 BY <2>2, Periods DEF Slice
  <2>4. w[FirstAdjustment] = c[Len(c) - FirstAdjustment + FirstAdjustment] BY <2>2, Periods DEF Slice
  <2>5. Len(w) - 0 = Len(w) /\ Len(c) - 0 = Len(c) /\ Len(c) - FirstAdjustment + FirstAdjustment = Len(c)
    BY <2>1, <2>3, Periods
  <2>6. Rules!MedianTimePast(w) = Rules!MedianTimePast(c) BY <2>2, <2>5 DEF Rules!MedianTimePast
  <2>. QED BY <2>3, <2>4, <2>5, <2>6
<1>. QED BY <1>1, <1>2

\* The median time is that of a header.
LEMMA MedianOfOne ==
    ASSUME NEW c \in Seq(Rules!Header), c # <<>>
    PROVE  \E i \in 1..Len(c) : Rules!MedianTimePast(c) = c[i].timestamp
<1> DEFINE l == Newest(c, Len(c))
           k == Fewer(Len(c), MedianBlocks)
<1>1. Rules!MedianTimePast(c) = Rules!Median(l) BY DEF Rules!MedianTimePast, Rules!MedianAt, Newest
<1>2. Len(c) \in 1..Len(c) /\ k \in 1..Len(c) BY Periods DEF Fewer
<1>3. Slice(l, c, Len(c) - k, k) BY <1>2, NewestElements
<1> HIDE DEF l, k
<1>4. l \in Seq(Rules!Header) /\ l # <<>> BY <1>2, <1>3 DEF Slice
<1>5. PICK i \in 1..Len(l) : Rules!Median(l) = l[i].timestamp BY <1>4, MedianExists
<1>6. Len(c) - k + i \in 1..Len(c) /\ l[i] = c[Len(c) - k + i] BY <1>2, <1>3, <1>5 DEF Slice
<1>. QED BY <1>1, <1>5, <1>6

LEMMA SameDifficulty ==
    ASSUME NEW c \in Seq(Rules!Header), c # <<>>, NEW h, NEW w, w = Rules!Window(c)
    PROVE  Rules!LegacyDifficulty(w, h) = Rules!LegacyDifficulty(c, h)
<1>1. CASE Len(c) <= FirstAdjustment BY <1>1 DEF Rules!Window, Rules!LastOf
<1>2. CASE ~(Len(c) <= FirstAdjustment)
  <2>1. FirstAdjustment < Len(c) BY <1>2, Periods
  <2>2. Rules!MedianAt(w, Len(w) - AdjustmentBlocks) = Rules!MedianAt(c, Len(c) - AdjustmentBlocks)
    BY <2>1, SameMedian
  <2>3. w[Len(w)] = c[Len(c)] /\ Rules!MedianTimePast(w) = Rules!MedianTimePast(c)
    BY WindowEnds
  <2>. QED BY <2>2, <2>3, Zenon DEF Rules!LegacyDifficulty
<1>. QED BY <1>1, <1>2

Difficulties == MinimumDifficulty..MaximumDifficulty

LEMMA ClampBounds ==
    ASSUME NEW d \in Int
    PROVE  Rules!Clamp(d) \in Difficulties
BY LocalAssumption DEF Rules!ConsensusAssumption, Rules!Clamp, Difficulties

LEMMA AsertBounds ==
    ASSUME NEW h \in Int, NEW t \in Int
    PROVE  Rules!AsertDifficulty(h, t) \in Difficulties
<1> DEFINE b == (h - AnchorHeight) * TargetSeconds - (t - AnchorTimestamp)
           q == Rules!RoundedQuotient(b, HalfLife)
<1>1. AnchorHeight \in Int /\ TargetSeconds \in Int /\ AnchorTimestamp \in Int /\ HalfLife \in Nat \ {0}
      /\ AnchorDifficulty \in Int
  BY LocalAssumption DEF Rules!ConsensusAssumption
<1>2. (h - AnchorHeight) * TargetSeconds \in Int BY <1>1
<1>3. b \in Int BY <1>1, <1>2
<1>4. Rules!AsertDifficulty(h, t) = Rules!Clamp(AnchorDifficulty + q)
  BY DEF Rules!AsertDifficulty
<1> HIDE DEF b
<1>5. \A n \in Int : n \div HalfLife \in Int BY <1>1
<1>6. HalfLife \div 2 \in Int BY <1>1
<1>7. \A n \in Int : Rules!Quo(n, HalfLife) \in Int
  <2> TAKE n \in Int
  <2>1. (-n) \div HalfLife \in Int /\ n \div HalfLife \in Int BY <1>5
  <2>2. -((-n) \div HalfLife) \in Int BY <2>1
  <2>. QED BY <2>1, <2>2, Zenon DEF Rules!Quo
<1>8. (IF b < 0 THEN b - HalfLife \div 2 ELSE b + HalfLife \div 2) \in Int BY <1>3, <1>6
<1>9. q \in Int BY <1>7, <1>8 DEF Rules!RoundedQuotient
<1> HIDE DEF q
<1>. QED BY <1>1, <1>4, <1>9, ClampBounds

LEMMA LegacyBounds ==
    ASSUME NEW c \in Seq(Rules!Header), c # <<>>, NEW h
    PROVE  Rules!LegacyDifficulty(c, h) \in Difficulties
<1> DEFINE newest == c[Len(c)].difficulty
<1>1. newest \in Difficulties
  <2>1. c[Len(c)] \in Rules!Header OBVIOUS
  <2>. QED BY <2>1 DEF Rules!Header, Difficulties
<1>2. newest \in Int BY <1>1, LocalAssumption DEF Rules!ConsensusAssumption, Difficulties
<1>3. \A d \in {2, 1} : Rules!Clamp(newest + d) \in Difficulties /\ Rules!Clamp(newest - d) \in Difficulties
  BY <1>2, ClampBounds
<1>4. InitialDifficulty \in Difficulties BY LocalAssumption DEF Rules!ConsensusAssumption, Difficulties
<1>. QED BY <1>1, <1>3, <1>4 DEF Rules!LegacyDifficulty

LEMMA DifficultyBounds ==
    ASSUME NEW c \in Seq(Rules!Header), c # <<>>, NEW h \in Int, NEW t \in Int
    PROVE  Rules!ExpectedDifficultyAt(c, h, t) \in Difficulties
BY AsertBounds, LegacyBounds DEF Rules!ExpectedDifficultyAt

\* No header is further ahead of the clock than the rules let it be, and the candidate was
\* built for this tip.
RulesInv ==
    /\ Rules!TypeOK
    /\ chain # <<>>
    /\ \A i \in 1..Len(chain) : chain[i].timestamp <= now + MaxFuture
    /\ candidate # None => \E t \in Int : t <= now /\ candidate = Rules!Candidate(chain, t)

\* What a candidate that is built at t says.
Stamp(t) == Rules!NextTimestamp(Rules!Window(chain), Rules!NextHeight(chain), t)
Earliest ==
    LET afterMedian == Rules!MedianTimePast(chain) + 1
        afterLast == chain[Len(chain)].timestamp + 1
    IN  IF Rules!Upgraded(Rules!NextHeight(chain)) /\ afterLast > afterMedian THEN afterLast ELSE afterMedian

LEMMA Stamped ==
    ASSUME RulesInv, NEW t \in Int, t <= now
    PROVE  /\ Earliest \in Int /\ Stamp(t) = IF t < Earliest THEN Earliest ELSE t
           /\ Rules!TimestampFollows(Rules!Window(chain), Rules!NextHeight(chain), Stamp(t))
           /\ Stamp(t) <= now + 1 + MaxFuture
           /\ now \in Int /\ MaxFuture \in Nat /\ Rules!NextHeight(chain) \in Int
           /\ Rules!Window(chain) \in Seq(Rules!Header) /\ Rules!Window(chain) # <<>>
<1> DEFINE w == Rules!Window(chain)
           h == Rules!NextHeight(chain)
           m == Rules!MedianTimePast(chain)
           z == chain[Len(chain)].timestamp
<1>1. chain \in Seq(Rules!Header) /\ chain # <<>> /\ Len(chain) \in 1..Len(chain) /\ now \in Int
  BY LocalAssumption DEF RulesInv, Rules!TypeOK, Rules!ConsensusAssumption
<1>2. MaxFuture \in Nat /\ StartHeight \in Nat BY LocalAssumption DEF Rules!ConsensusAssumption
<1>3. w \in Seq(Rules!Header) /\ w # <<>> /\ w[Len(w)] = chain[Len(chain)] /\ Rules!MedianTimePast(w) = m
  BY <1>1, WindowEnds
<1>4. \A i \in 1..Len(chain) : chain[i].timestamp \in Int /\ chain[i].timestamp <= now + MaxFuture
  <2>1. \A i \in 1..Len(chain) : chain[i] \in Rules!Header BY <1>1
  <2>. QED BY <2>1 DEF Rules!Header, RulesInv
<1>5. m \in Int /\ m <= now + MaxFuture
  <2>1. PICK i \in 1..Len(chain) : m = chain[i].timestamp BY <1>1, MedianOfOne
  <2>. QED BY <2>1, <1>4
<1>6. z \in Int /\ z <= now + MaxFuture BY <1>1, <1>4
<1>7. h \in Int BY <1>1, <1>2 DEF Rules!NextHeight
<1> HIDE DEF m, z, h, w
<1>8. Earliest = IF Rules!Upgraded(h) /\ z + 1 > m + 1 THEN z + 1 ELSE m + 1
  BY DEF Earliest, m, z, h
<1>9. Stamp(t) = IF t < Earliest THEN Earliest ELSE t
  BY <1>3, <1>8 DEF Stamp, Rules!NextTimestamp, w, h, z
<1>10. Earliest \in Int /\ Earliest > m /\ (Rules!Upgraded(h) => Earliest > z) /\ Earliest <= now + 1 + MaxFuture
  BY <1>1, <1>2, <1>5, <1>6, <1>8
<1>11. Stamp(t) \in Int /\ Stamp(t) >= Earliest /\ Stamp(t) <= now + 1 + MaxFuture
  BY <1>1, <1>2, <1>9, <1>10
<1>12. Rules!TimestampFollows(w, h, Stamp(t))
  <2>1. Stamp(t) > m /\ (Rules!Upgraded(h) => Stamp(t) > z) BY <1>5, <1>6, <1>10, <1>11
  <2>. QED BY <1>3, <2>1 DEF Rules!TimestampFollows, z
<1>. QED BY <1>1, <1>2, <1>3, <1>7, <1>9, <1>10, <1>11, <1>12 DEF w, h

\* A candidate has the time and the difficulty the rules ask for.
LEMMA CandidateIsValid ==
    ASSUME RulesInv, NEW t \in Int, t <= now
    PROVE  /\ Rules!Candidate(chain, t) \in Rules!Header
           /\ Rules!Candidate(chain, t).timestamp = Stamp(t)
           /\ Rules!ValidHeader(chain, Rules!Candidate(chain, t), now + 1)
<1> DEFINE w == Rules!Window(chain)
           h == Rules!NextHeight(chain)
           d == Rules!ExpectedDifficultyAt(w, h, Stamp(t))
           b == Rules!Candidate(chain, t)
<1>1. b = [timestamp |-> Stamp(t), difficulty |-> d] BY DEF Rules!Candidate, Stamp
<1>2. Stamp(t) \in Int BY Stamped
<1>3. d \in Difficulties BY Stamped, <1>2, DifficultyBounds
<1> HIDE DEF d
<1>4. b \in Rules!Header BY <1>1, <1>2, <1>3 DEF Rules!Header, Difficulties
<1>5. b.timestamp = Stamp(t) /\ b.difficulty = d BY <1>1
<1> HIDE DEF b
<1>6. Rules!ValidHeader(chain, b, now + 1) BY <1>5, Stamped DEF Rules!ValidHeader, d
<1>. QED BY <1>4, <1>5, <1>6 DEF b

LEMMA RulesInit == Rules!Init => RulesInv
<1> SUFFICES ASSUME Rules!Init PROVE RulesInv OBVIOUS
<1>1. /\ FirstHeaders \in Seq(Rules!Header) /\ FirstHeaders # <<>>
      /\ FirstHeaders[Len(FirstHeaders)].timestamp \in 0..MaxTime
      /\ \A i \in 1..Len(FirstHeaders) :
          FirstHeaders[i].timestamp <= FirstHeaders[Len(FirstHeaders)].timestamp + MaxFuture
  BY LocalAssumption DEF Rules!ConsensusAssumption
<1>2. chain = FirstHeaders /\ now = FirstHeaders[Len(FirstHeaders)].timestamp /\ candidate = None
  BY DEF Rules!Init
<1>. QED BY <1>1, <1>2 DEF RulesInv, Rules!TypeOK

\* A valid header can follow.
LEMMA ChainGrows ==
    ASSUME RulesInv, NEW b \in Rules!Header, b.timestamp <= now + MaxFuture,
           chain' = Append(chain, b), candidate' = None, now' = now
    PROVE  RulesInv'
<1>1. chain' \in Seq(Rules!Header) /\ chain' # <<>> /\ Len(chain') = Len(chain) + 1
  BY DEF RulesInv, Rules!TypeOK
<1>2. ASSUME NEW i \in 1..Len(chain') PROVE chain'[i].timestamp <= now' + MaxFuture
  <2>1. CASE i = Len(chain) + 1 BY <2>1 DEF RulesInv, Rules!TypeOK
  <2>2. CASE i # Len(chain) + 1
    <3>1. i \in 1..Len(chain) /\ chain'[i] = chain[i] BY <1>1, <2>2 DEF RulesInv, Rules!TypeOK
    <3>. QED BY <3>1 DEF RulesInv
  <2>. QED BY <2>1, <2>2
<1>. QED BY <1>1, <1>2 DEF RulesInv, Rules!TypeOK

LEMMA RulesStep ==
    ASSUME RulesInv, Rules!Next
    PROVE  RulesInv'
<1>1. now \in Int /\ now \in 0..MaxTime /\ MaxTime \in Nat /\ MaxFuture \in Nat /\ Ticks \subseteq Nat
  BY LocalAssumption DEF RulesInv, Rules!TypeOK, Rules!ConsensusAssumption
<1>2. \A i \in 1..Len(chain) : chain[i].timestamp \in Int
  <2>1. \A i \in 1..Len(chain) : chain[i] \in Rules!Header BY DEF RulesInv, Rules!TypeOK
  <2>. QED BY <2>1 DEF Rules!Header
<1>3. CASE Rules!BuildMiningCandidate \/ Rules!Refresh
  <2>1. chain' = chain /\ now' = now /\ candidate' = Rules!Candidate(chain, now)
    BY <1>3 DEF Rules!BuildMiningCandidate, Rules!Refresh
  <2>2. candidate' \in Rules!Header BY <1>1, <2>1, CandidateIsValid
  <2>3. candidate' # None => \E t \in Int : t <= now' /\ candidate' = Rules!Candidate(chain', t)
    BY <1>1, <2>1
  <2>. QED BY <2>1, <2>2, <2>3 DEF RulesInv, Rules!TypeOK
<1>4. CASE Rules!CommitMinedBlock
  <2> USE <1>4 DEF Rules!CommitMinedBlock
  <2>1. CASE Rules!ValidHeader(chain, candidate, now)
    <3>1. candidate \in Rules!Header BY DEF RulesInv, Rules!TypeOK
    <3>2. candidate.timestamp <= now + MaxFuture BY <2>1 DEF Rules!ValidHeader
    <3>. QED BY <2>1, <3>1, <3>2, ChainGrows
  <2>2. CASE ~Rules!ValidHeader(chain, candidate, now) BY <2>2 DEF RulesInv, Rules!TypeOK
  <2>. QED BY <2>1, <2>2
<1>5. ASSUME NEW d \in Ticks, Rules!Tick(d) PROVE RulesInv'
  <2>1. now' = now + d /\ now' \in 0..MaxTime /\ chain' = chain /\ candidate' = candidate
    BY <1>1, <1>5 DEF Rules!Tick
  <2>2. d \in Nat BY <1>1
  <2>3. \A i \in 1..Len(chain') : chain'[i].timestamp <= now' + MaxFuture
    <3>0. chain \in Seq(Rules!Header) BY DEF RulesInv, Rules!TypeOK
    <3>1. \A i \in 1..Len(chain) : chain[i].timestamp \in Int
      <4> TAKE i \in 1..Len(chain)
      <4>1. chain[i] \in Rules!Header BY <3>0
      <4> QED BY <4>1 DEF Rules!Header
    <3>2. \A i \in 1..Len(chain) : chain[i].timestamp <= now + MaxFuture BY DEF RulesInv
    <3>3. now \in Int /\ MaxFuture \in Int BY <1>1, <1>2
    <3>4. \A t \in Int : t <= now + MaxFuture => t <= now' + MaxFuture BY <2>1, <2>2, <3>3
    <3> QED BY <2>1, <3>1, <3>2, <3>4, Zenon
  <2>4. candidate' # None => \E t \in Int : t <= now' /\ candidate' = Rules!Candidate(chain', t)
    BY <1>1, <2>1, <2>2 DEF RulesInv
  <2>. QED BY <2>1, <2>3, <2>4 DEF RulesInv, Rules!TypeOK
<1>6. ASSUME NEW t \in (Rules!MedianTimePast(chain) - 1)..(now + MaxFuture), Rules!AcceptBlock(t) PROVE RulesInv'
  <2> DEFINE d == Rules!ExpectedDifficultyAt(Rules!Window(chain), Rules!NextHeight(chain), t)
             b == [timestamp |-> t, difficulty |-> d]
  <2>1. t \in Int /\ t <= now + MaxFuture
    <3>1. PICK i \in 1..Len(chain) : Rules!MedianTimePast(chain) = chain[i].timestamp
      BY MedianOfOne DEF RulesInv, Rules!TypeOK
    <3>. QED BY <1>1, <1>2, <1>6, <3>1
  <2>2. d \in Difficulties BY <1>1, <2>1, Stamped, DifficultyBounds
  <2>3. chain' = Append(chain, b) /\ candidate' = None /\ now' = now BY <1>6 DEF Rules!AcceptBlock
  <2> HIDE DEF d
  <2>4. b \in Rules!Header /\ b.timestamp = t BY <2>1, <2>2 DEF Rules!Header, Difficulties
  <2> HIDE DEF b
  <2>. QED BY <2>1, <2>3, <2>4, ChainGrows
<1>. QED BY <1>3, <1>4, <1>5, <1>6 DEF Rules!Next

LEMMA RulesInvHolds == LocalSpec => [](part = "rules" => RulesInv)
<1>1. LocalInit => RulesInv BY RulesInit DEF LocalInit
<1>2. (part = "rules" => RulesInv) /\ [LocalNext]_localVars => (part = "rules" => RulesInv)'
  <2> SUFFICES ASSUME part = "rules" => RulesInv, [LocalNext]_localVars, part' = "rules"
               PROVE  RulesInv'
    OBVIOUS
  <2>1. CASE UNCHANGED localVars
    BY <2>1 DEF localVars, ruleVars, RulesInv, Rules!TypeOK
  <2>2. CASE LocalNext
    BY <2>2, RulesStep DEF LocalNext, Moves
  <2>. QED BY <2>1, <2>2
<1>. QED BY <1>1, <1>2, PTL DEF LocalSpec

LEMMA WindowSuffices ==
    ASSUME RulesInv
    PROVE  Rules!WindowIsEnough
<1> DEFINE w == Rules!Window(chain)
           h == Rules!NextHeight(chain)
<1>1. chain \in Seq(Rules!Header) /\ chain # <<>> BY DEF RulesInv, Rules!TypeOK
<1>2. w[Len(w)] = chain[Len(chain)] /\ Rules!MedianTimePast(w) = Rules!MedianTimePast(chain)
  BY <1>1, WindowEnds
<1>3. Rules!LegacyDifficulty(w, h) = Rules!LegacyDifficulty(chain, h) BY <1>1, SameDifficulty
<1> HIDE DEF w
<1>4. ASSUME NEW t
      PROVE  /\ Rules!TimestampFollows(w, h, t) <=> Rules!TimestampFollows(chain, h, t)
             /\ Rules!ExpectedDifficultyAt(w, h, t) = Rules!ExpectedDifficultyAt(chain, h, t)
  BY <1>2, <1>3 DEF Rules!TimestampFollows, Rules!ExpectedDifficultyAt
<1>. QED BY <1>4 DEF Rules!WindowIsEnough, w

\* A candidate of an earlier second and one of this have the same time unless the clock has
\* passed that of the first.
LEMMA RefreshIsExact ==
    ASSUME RulesInv
    PROVE  Rules!RefreshMeansEasier
<1> SUFFICES ASSUME candidate # None, Rules!Upgraded(Rules!NextHeight(chain))
             PROVE  Rules!NeedsRefresh(candidate, now) <=> Rules!Candidate(chain, now).difficulty < candidate.difficulty
  BY DEF Rules!RefreshMeansEasier
<1> DEFINE h == Rules!NextHeight(chain)
           later == IF now > candidate.timestamp THEN now ELSE candidate.timestamp
<1>1. PICK t \in Int : t <= now /\ candidate = Rules!Candidate(chain, t) BY DEF RulesInv
<1>2. now \in Int /\ h \in Int /\ Earliest \in Int
  BY <1>1, Stamped
<1>3. candidate.timestamp = IF t < Earliest THEN Earliest ELSE t
  BY <1>1, CandidateIsValid, Stamped
<1>4. Stamp(now) = IF now < Earliest THEN Earliest ELSE now BY <1>2, Stamped
<1>5. later = Stamp(now) BY <1>1, <1>2, <1>3, <1>4
<1>6. Rules!Candidate(chain, now).difficulty = Rules!AsertDifficulty(h, Stamp(now))
  BY DEF Rules!Candidate, Stamp, Rules!ExpectedDifficultyAt
<1>7. Rules!AsertDifficulty(h, Stamp(now)) \in Difficulties BY <1>2, <1>4, AsertBounds
<1>8. candidate \in Rules!Header BY <1>1, CandidateIsValid
<1>9. candidate.difficulty \in Difficulties BY <1>8 DEF Rules!Header, Difficulties
<1>10. Rules!NeedsRefresh(candidate, now) <=>
         candidate.difficulty > MinimumDifficulty /\ Rules!AsertDifficulty(h, Stamp(now)) < candidate.difficulty
  BY <1>5 DEF Rules!NeedsRefresh
<1> HIDE DEF h, later
<1>. QED BY <1>6, <1>7, <1>9, <1>10, LocalAssumption DEF Rules!ConsensusAssumption, Difficulties

\* For any chain and any numbers of the consensus: the newest headers are enough to judge the
\* next one, the miner's candidate is valid in a second at the latest, and it is given up
\* exactly when a new one is easier (block.go:151, chain.go:390, service.go:903).
THEOREM HeadersAgreed == LocalSpec => []HeadersAreAgreed
<1>1. ASSUME RulesInv PROVE Rules!MinedBlockIsValid
  BY <1>1, CandidateIsValid DEF RulesInv, Rules!MinedBlockIsValid
<1>2. (part = "rules" => RulesInv) => HeadersAreAgreed
  BY <1>1, WindowSuffices, RefreshIsExact DEF HeadersAreAgreed
<1>. QED BY RulesInvHolds, <1>2, PTL

-----------------------------------------------------------------------------
(* The computer as a whole.                                                *)

\* The parts share no state: what Local does to a directory is what Session does.
LEMMA SessionIsPart == LocalSpec => Spec
<1>1. LocalInit => Init BY DEF LocalInit
<1>2. [LocalNext]_localVars => [Next]_vars
  <2>1. CASE UNCHANGED localVars BY <2>1 DEF localVars, sessionVars, vars, database, files
  <2>2. CASE LocalNext BY <2>2 DEF LocalNext, sessionVars, vars, database, files
  <2>. QED BY <2>1, <2>2
<1>. QED BY <1>1, <1>2, PTL DEF LocalSpec, Spec

\* Every part of a computer holds values of its types (app.go, service.go).
THEOREM LocalTypesHold == LocalSpec => []LocalTypeOK
<1>1. WalletsInv => Vault!TypeOK
  BY DEF WalletsInv, Types, Disk, Node, OpState, ConfirmState, ExportState, Wallet, Replacing, Removing,
         Vault!TypeOK
<1>2. /\ TypeOK
      /\ part = "rules" => RulesInv
      /\ part = "search" => SearchInv
      /\ part = "keys" => WalletsInv
      /\ part = "relay" => RelayInv
      /\ part = "agent" => AgentInv
      /\ part = "update" => UpdateInv
      /\ part = "helper" => HelperInv
      => LocalTypeOK
  BY <1>1 DEF LocalTypeOK, RulesInv, SearchInv, RelayInv, AgentInv, UpdateInv, HelperInv
<1>. QED BY <1>2, SessionIsPart, SessionTypeOK, RulesInvHolds, SearchInvHolds, WalletsInvHolds, RelayInvHolds,
            AgentInvHolds, UpdateInvHolds, HelperInvHolds, PTL

\* No key is lost and no confirmation is false, and the local agent leaves another profile
\* active than the user's own only with a payment that shows an error or ended with the process,
\* for any handoffs, refused switches and interruptions (wallet_profiles.go:58, agent.go:289).
THEOREM KeysStaySafe == LocalSpec => []KeysAreSafe
<1>1. WalletsInv => Vault!NoKeyLost /\ Vault!ConfirmedIsSecured /\ Vault!JobPaysActiveWallet
  BY DEF WalletsInv
<1>2. ASSUME AgentInv PROVE Agent!LossIsShown
  <2> SUFFICES ASSUME directory = None, active # Original
               PROVE  \E h \in Handoffs : /\ previous[h] = Original /\ agentStep[h] = "ended"
                                         /\ stage[h] \in {"error", "gone"}
    BY DEF Agent!LossIsShown
  <2>1. PICK h \in Handoffs : Accountable(h) BY <1>2 DEF AgentInv, WalletSound
  <2>2. h # None BY LocalAssumption DEF Agent!LocalAgentAssumption
  <2>. QED BY <2>1, <2>2 DEF Accountable
<1>3. (part = "keys" => WalletsInv) /\ (part = "agent" => AgentInv) => KeysAreSafe
  BY <1>1, <1>2 DEF KeysAreSafe
<1>. QED BY <1>3, WalletsInvHolds, AgentInvHolds, PTL
=============================================================================
