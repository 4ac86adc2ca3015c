------------------------------- MODULE Wallets -------------------------------
(***************************************************************************)
(* The wallets of a node (internal/node/wallet_actions.go,                 *)
(* wallet_profiles.go, wallet_store.go): the active vault wallet.vault, a  *)
(* protected profile of each wallet, the markers that say its recovery was *)
(* confirmed, and the plaintext wallet.json of older versions.  A vault is *)
(* written to a temporary file and renamed, a marker is truncated and      *)
(* rewritten; the node may crash between any two files, and any write may  *)
(* fail.                                                                   *)
(*                                                                         *)
(* op is the holder of walletMutationMu; from its step "profile" on it     *)
(* holds s.mu as well, unless it removes a wallet.  confirming is another  *)
(* holder of s.mu: the confirmation of a recovery, which writes files too. *)
(***************************************************************************)
EXTENDS Integers, FiniteSets

CONSTANTS Addresses,
          LegacyAddress,   \* of the wallet.json an older version left
          None,
          MaxChanges,      \* bound of the model: replacements in one run of the node
          MaxCrashes       \* bound of the model

WalletsAssumption ==
    /\ LegacyAddress \in Addresses /\ None \notin Addresses
    /\ MaxChanges \in Nat /\ MaxCrashes \in Nat

VARIABLES disk,        \* the data directory
          node,        \* s.wallet, s.walletGeneration, s.walletNeedsBackup
          op, confirming,
          export,      \* ExportWalletBackup
          migration,   \* the next step of MigrateLegacyWallet
          job,         \* the wallet a mining job pays
          secured,     \* history: the wallets whose phrase or backup file the user has
          ever,        \* history: the wallets that existed
          used,        \* history: the wallets the node ran with
          crashes

vars == <<disk, node, op, confirming, export, migration, job, secured, ever, used, crashes>>

Stopped == [open |-> FALSE, wallet |-> None, generation |-> 0, needsBackup |-> FALSE]
NoOp == [pc |-> "none", wallet |-> None, confirmed |-> FALSE]
NoExport == [pc |-> "none", wallet |-> None, generation |-> 0]
NoConfirm == [pc |-> "none", wallet |-> None]

TypeOK ==
    /\ disk \in [vault : Addresses \cup {None}, profiles : SUBSET Addresses, markers : SUBSET Addresses,
                 marker : Addresses \cup {None}, legacy : {None, LegacyAddress}, database : BOOLEAN]
    /\ node \in [open : BOOLEAN, wallet : Addresses \cup {None}, generation : 0..MaxChanges, needsBackup : BOOLEAN]
    /\ op.pc \in {"none", "begin", "profile", "vault", "marker1", "marker2", "remove1", "remove2", "remove3"}
    /\ confirming.pc \in {"none", "marker1", "marker2"} /\ export.pc \in {"none", "write", "confirm"}
    /\ migration \in 0..4 /\ job \in Addresses \cup {None}
    /\ secured \subseteq Addresses /\ ever \subseteq Addresses /\ used \subseteq ever

\* walletRecoveryConfirmed: the profile's marker, or the one of older versions.
Confirmed(a) == a \in disk.markers \/ disk.marker = a

Init ==
    /\ \E legacy \in {None, LegacyAddress} :
          /\ disk = [vault |-> None, profiles |-> {}, markers |-> {}, marker |-> None,
                     legacy |-> legacy, database |-> legacy # None]
          /\ ever = {legacy} \ {None} /\ used = ever
    /\ node = Stopped /\ op = NoOp /\ confirming = NoConfirm /\ export = NoExport
    /\ migration = 0 /\ job = None /\ secured = {} /\ crashes = 0

\* loadWalletMaterial where nothing is found.  The start goes on with the vault, or
\* fails here and finds it the next time.
StartFresh(a) ==
    /\ ~node.open /\ migration = 0
    /\ disk.vault = None /\ disk.legacy = None /\ ~disk.database
    /\ a \notin ever
    /\ disk' = [disk EXCEPT !.vault = a]
    /\ ever' = ever \cup {a}
    /\ UNCHANGED <<node, op, confirming, export, migration, job, secured, used, crashes>>

\* loadWalletMaterial of the vault, ensureWalletProfile, and the ledger is opened.
StartExisting ==
    /\ ~node.open /\ migration = 0
    /\ disk.vault # None /\ disk.legacy = None
    /\ disk' = [disk EXCEPT !.profiles = @ \cup {disk.vault}, !.database = TRUE,
                            !.markers = IF disk.marker = disk.vault THEN @ \cup {disk.vault} ELSE @]
    /\ node' = [open |-> TRUE, wallet |-> disk.vault, generation |-> 0, needsBackup |-> ~Confirmed(disk.vault)]
    /\ used' = used \cup {disk.vault}
    /\ UNCHANGED <<op, confirming, export, migration, job, secured, ever, crashes>>

\* A writer at step pc may have truncated its marker, the rest is as it was.
Truncated(writer) ==
    CASE writer.pc = "marker1" -> [disk EXCEPT !.markers = @ \ {writer.wallet}]
      [] writer.pc = "marker2" -> [disk EXCEPT !.marker = None]
      [] OTHER -> disk

\* Only one of the two can be writing a marker.
Crash ==
    /\ node.open /\ crashes < MaxCrashes
    /\ crashes' = crashes + 1
    /\ disk' \in {disk, Truncated(confirming)} \cup (IF op.confirmed THEN {Truncated(op)} ELSE {})
    /\ node' = Stopped /\ op' = NoOp /\ confirming' = NoConfirm /\ export' = NoExport /\ job' = None
    /\ UNCHANGED <<migration, secured, ever, used>>
-----------------------------------------------------------------------------
(* MigrateLegacyWallet, on a stopped node and again from the start after a *)
(* crash: the backup, the vault, the markers, and only then wallet.json.   *)

Migrate ==
    LET a == LegacyAddress
    IN  /\ ~node.open /\ disk.legacy = a /\ disk.vault \in {None, a}
        /\ migration' = (migration + 1) % 5
        /\ \/ migration = 0 /\ secured' = secured \cup {a} /\ disk' = disk
           \/ migration = 1 /\ disk' = [disk EXCEPT !.vault = a] /\ secured' = secured
           \/ migration = 2 /\ disk' = [disk EXCEPT !.markers = @ \cup {a}] /\ secured' = secured
           \/ migration = 3 /\ disk' = [disk EXCEPT !.marker = a] /\ secured' = secured
           \/ migration = 4 /\ disk' = [disk EXCEPT !.legacy = None] /\ secured' = secured
        /\ UNCHANGED <<node, op, confirming, export, job, ever, used, crashes>>

\* A step fails or the command is killed, perhaps with a marker half written.
MigrationFails ==
    LET writing == CASE migration = 2 -> "marker1" [] migration = 3 -> "marker2" [] OTHER -> "none"
    IN  /\ migration > 0
        /\ migration' = 0
        /\ disk' \in {disk, Truncated([pc |-> writing, wallet |-> LegacyAddress])}
        /\ UNCHANGED <<node, op, confirming, export, job, secured, ever, used, crashes>>
-----------------------------------------------------------------------------
(* replaceWallet, for a new, restored or chosen wallet.                    *)

Begin(a, confirmed) ==
    /\ node.open /\ op.pc = "none" /\ node.generation < MaxChanges
    /\ op' = [pc |-> "begin", wallet |-> a, confirmed |-> confirmed]
    /\ UNCHANGED <<disk, node, confirming, export, migration, job, secured, used, crashes>>

\* vault.NewMnemonic: the wallet exists only in memory yet.
CreateWallet(a) == a \notin ever /\ Begin(a, FALSE) /\ ever' = ever

RestoreWalletMnemonic(a) == a \in secured /\ Begin(a, FALSE) /\ ever' = ever
RestoreWalletBackup(a) == a \in secured /\ Begin(a, TRUE) /\ ever' = ever
SwitchWallet(a) == a \in disk.profiles /\ Begin(a, Confirmed(a)) /\ ever' = ever

Refused == job # None \/ node.needsBackup

\* s.mu is taken.  "stop mining before restoring a wallet", "secure the current wallet".
EnterReplace ==
    /\ op.pc = "begin" /\ confirming.pc = "none"
    /\ op' = IF Refused THEN NoOp ELSE [op EXCEPT !.pc = "profile"]
    /\ UNCHANGED <<disk, node, confirming, export, migration, job, secured, ever, used, crashes>>

\* A failed write may have replaced the file all the same.
SaveProfile(ok) ==
    /\ op.pc = "profile"
    /\ disk' \in {[disk EXCEPT !.profiles = @ \cup {op.wallet}]} \cup (IF ok THEN {} ELSE {disk})
    /\ ever' = IF disk' = disk THEN ever ELSE ever \cup {op.wallet}
    /\ op' = IF ok THEN [op EXCEPT !.pc = "vault"] ELSE NoOp
    /\ UNCHANGED <<node, confirming, export, migration, job, secured, used, crashes>>

\* The wallet in memory follows.
SaveVault(ok) ==
    /\ op.pc = "vault"
    /\ disk' \in {[disk EXCEPT !.vault = op.wallet]} \cup (IF ok THEN {} ELSE {disk})
    /\ IF ok
       THEN /\ node' = [node EXCEPT !.wallet = op.wallet, !.generation = @ + 1, !.needsBackup = ~op.confirmed]
            /\ op' = [op EXCEPT !.pc = "marker1"]
            /\ used' = used \cup {op.wallet}
       ELSE UNCHANGED <<node, used>> /\ op' = NoOp
    /\ UNCHANGED <<confirming, export, migration, job, secured, ever, crashes>>

\* writeWalletRecoveryMarker: a failure may come before, between or after the
\* truncation and the write.
Written(writer) ==
    IF writer.pc = "marker1" THEN [disk EXCEPT !.markers = @ \cup {writer.wallet}]
    ELSE [disk EXCEPT !.marker = writer.wallet]
MarkerOutcomes(writer, ok) ==
    IF ok THEN {Written(writer)} ELSE {Written(writer), Truncated(writer), disk}

\* markWalletRecoveryConfirmed, whose failure asks for another backup, or
\* removeWalletRecoveryMarker, whose failure is ignored.
ReplaceMarker(ok) ==
    /\ op.pc \in {"marker1", "marker2"}
    /\ IF op.confirmed THEN disk' \in MarkerOutcomes(op, ok)
       ELSE disk' = IF ok /\ (op.pc = "marker1" \/ disk.marker = op.wallet) THEN Truncated(op) ELSE disk
    /\ node' = IF op.confirmed /\ ~ok THEN [node EXCEPT !.needsBackup = TRUE] ELSE node
    /\ op' = IF ok /\ op.pc = "marker1" THEN [op EXCEPT !.pc = "marker2"] ELSE NoOp
    /\ UNCHANGED <<confirming, export, migration, job, secured, ever, used, crashes>>
-----------------------------------------------------------------------------
(* RemoveWallet.                                                           *)

BeginRemove(a) ==
    /\ node.open /\ op.pc = "none" /\ confirming.pc = "none"
    /\ a # node.wallet /\ Confirmed(a) /\ a \in disk.profiles
    /\ op' = [pc |-> "remove1", wallet |-> a, confirmed |-> FALSE]
    /\ UNCHANGED <<disk, node, confirming, export, migration, job, secured, ever, used, crashes>>

\* The profile, its marker, and the older marker if that named this wallet when it
\* was read, before the first of the two was removed.
RemoveStep(ok) ==
    LET a == op.wallet
    IN  /\ op.pc \in {"remove1", "remove2", "remove3"}
        /\ disk' = CASE ~ok -> disk
                     [] ok /\ op.pc = "remove1" -> [disk EXCEPT !.profiles = @ \ {a}]
                     [] ok /\ op.pc = "remove2" -> [disk EXCEPT !.markers = @ \ {a}]
                     [] ok /\ op.pc = "remove3" -> [disk EXCEPT !.marker = None]
        /\ op' = CASE ok /\ op.pc = "remove1" -> [op EXCEPT !.pc = "remove2"]
                   [] ok /\ op.pc = "remove2" /\ disk.marker = a -> [op EXCEPT !.pc = "remove3"]
                   [] OTHER -> NoOp
        /\ UNCHANGED <<node, confirming, export, migration, job, secured, ever, used, crashes>>
-----------------------------------------------------------------------------
(* Confirmations.                                                          *)

Locked == op.pc \in {"profile", "vault", "marker1", "marker2"} \/ confirming.pc # "none"

\* The user has noted the phrase the desktop shows in its dialog.
ConfirmWalletRecovery ==
    /\ node.open /\ ~Locked /\ node.needsBackup /\ node.wallet # LegacyAddress
    /\ secured' = secured \cup {node.wallet}
    /\ confirming' = [pc |-> "marker1", wallet |-> node.wallet]
    /\ UNCHANGED <<disk, node, op, export, migration, job, ever, used, crashes>>

ExportWalletBackup ==
    /\ node.open /\ ~Locked /\ export.pc = "none"
    /\ export' = [pc |-> "write", wallet |-> node.wallet, generation |-> node.generation]
    /\ UNCHANGED <<disk, node, op, confirming, migration, job, secured, ever, used, crashes>>

\* Without s.mu: the wallet may change meanwhile.
ExportWrites(ok) ==
    /\ export.pc = "write"
    /\ secured' = IF ok THEN secured \cup {export.wallet} ELSE secured
    /\ export' = IF ok THEN [export EXCEPT !.pc = "confirm"] ELSE NoExport
    /\ UNCHANGED <<disk, node, op, confirming, migration, job, ever, used, crashes>>

\* confirmWalletRecoveryLocked, or ErrWalletChangedDuringBackup.
Confirms == export.generation = node.generation /\ export.wallet = node.wallet

ExportConfirms ==
    /\ export.pc = "confirm" /\ ~Locked
    /\ export' = NoExport
    /\ confirming' = IF Confirms THEN [pc |-> "marker1", wallet |-> export.wallet] ELSE confirming
    /\ UNCHANGED <<disk, node, op, migration, job, secured, ever, used, crashes>>

ConfirmStep(ok) ==
    /\ confirming.pc # "none"
    /\ disk' \in MarkerOutcomes(confirming, ok)
    /\ confirming' = IF ok /\ confirming.pc = "marker1" THEN [confirming EXCEPT !.pc = "marker2"] ELSE NoConfirm
    /\ node' = IF ok /\ confirming.pc = "marker2" THEN [node EXCEPT !.needsBackup = FALSE] ELSE node
    /\ UNCHANGED <<op, export, migration, job, secured, ever, used, crashes>>

StartJob ==
    /\ node.open /\ ~Locked /\ job = None
    /\ job' = node.wallet
    /\ UNCHANGED <<disk, node, op, confirming, export, migration, secured, ever, used, crashes>>

EndJob ==
    /\ job # None
    /\ job' = None
    /\ UNCHANGED <<disk, node, op, confirming, export, migration, secured, ever, used, crashes>>

Next ==
    \/ StartExisting \/ Crash \/ Migrate \/ MigrationFails
    \/ EnterReplace \/ ConfirmWalletRecovery \/ ExportWalletBackup \/ ExportConfirms \/ StartJob \/ EndJob
    \/ \E a \in Addresses : \/ StartFresh(a) \/ CreateWallet(a) \/ RestoreWalletMnemonic(a)
                            \/ RestoreWalletBackup(a) \/ SwitchWallet(a) \/ BeginRemove(a)
    \/ \E ok \in BOOLEAN : \/ SaveProfile(ok) \/ SaveVault(ok) \/ ReplaceMarker(ok)
                           \/ RemoveStep(ok) \/ ExportWrites(ok) \/ ConfirmStep(ok)

Spec == Init /\ [][Next]_vars
-----------------------------------------------------------------------------
\* Whatever is interrupted or fails, the key of every wallet that existed is in a
\* file of the data directory, unless its user has the phrase or a backup.
NoKeyLost ==
    \A a \in ever \ secured : a \in disk.profiles \/ disk.vault = a \/ disk.legacy = a

\* A marker, and a cleared warning, are only ever true of a wallet whose user has
\* the phrase or a backup: they allow the node to replace or to remove it.
ConfirmedIsSecured ==
    /\ \A a \in Addresses : Confirmed(a) => a \in secured
    /\ node.open /\ ~node.needsBackup => node.wallet \in secured

\* "Switching is blocked while mining": a mining job pays the active wallet.
JobPaysActiveWallet == job # None => job = node.wallet
=============================================================================
