---------------------------- MODULE WalletsProofs ----------------------------
(***************************************************************************)
(* No key is lost and no confirmation is false, for every set of wallets,  *)
(* every number of replacements and crashes, and every write that fails.   *)
(* That the keys are kept needs to know what the confirmations mean,       *)
(* because a confirmed wallet may be removed, and the confirmations need   *)
(* to know that the active wallet stays while one is written.              *)
(***************************************************************************)
EXTENDS Local, TLAPS

Wallet == Addresses \cup {None}

Replacing == {"profile", "vault", "marker1", "marker2"}
Removing == {"remove1", "remove2", "remove3"}

Disk == [vault : Wallet, profiles : SUBSET Addresses, markers : SUBSET Addresses,
         marker : Wallet, legacy : {None, LegacyAddress}, database : BOOLEAN]

Node == [open : BOOLEAN, wallet : Wallet, generation : 0..MaxChanges, needsBackup : BOOLEAN]

OpState == [pc : {"none", "begin"} \cup Replacing \cup Removing, wallet : Wallet,
            confirmed : BOOLEAN]

ConfirmState == [pc : {"none", "marker1", "marker2"}, wallet : Wallet]

ExportState == [pc : {"none", "write", "confirm"}, wallet : Wallet, generation : 0..MaxChanges]

Types ==
    /\ disk \in Disk
    /\ node \in Node
    /\ op \in OpState /\ confirming \in ConfirmState /\ export \in ExportState
    /\ migration \in 0..4 /\ job \in Wallet
    /\ secured \subseteq Addresses /\ ever \subseteq Addresses /\ used \subseteq ever

\* What the writers of files know between their steps.
OpInv ==
    /\ op.pc # "none" => op.wallet \in Addresses /\ node.open
    /\ op.pc \in {"begin", "profile", "vault"} => node.generation < MaxChanges
    /\ op.pc \in {"profile", "vault"} => job = None
    /\ op.pc = "vault" => op.wallet \in disk.profiles
    /\ op.pc \in Removing \/ op.confirmed => op.wallet \in secured

ConfirmInv ==
    /\ confirming.pc # "none" =>
          /\ node.open /\ confirming.wallet = node.wallet /\ confirming.wallet \in secured
          /\ op.pc \notin Replacing
    /\ export.pc # "none" => node.open /\ export.wallet \in Addresses
    /\ export.pc = "confirm" => export.wallet \in secured

\* The vault may be overwritten because its wallet has a profile of its own.
FilesInv ==
    /\ node.open => node.wallet \in Addresses /\ disk.vault \in disk.profiles \cup secured
    /\ job # None => node.open
    /\ disk.profiles \subseteq ever /\ disk.vault \in ever \cup {None}
    /\ disk.legacy # None => LegacyAddress \in ever
    /\ migration > 0 => LegacyAddress \in secured

WalletsInv ==
    /\ Types /\ OpInv /\ ConfirmInv /\ FilesInv
    /\ Vault!NoKeyLost /\ Vault!ConfirmedIsSecured /\ Vault!JobPaysActiveWallet

-----------------------------------------------------------------------------

\* A new vault fills an empty place.
LEMMA StartFreshStep ==
    ASSUME Vault!WalletsAssumption, WalletsInv, NEW a \in Addresses, Vault!StartFresh(a)
    PROVE  WalletsInv'
<1> USE DEF Vault!WalletsAssumption, WalletsInv, Vault!StartFresh, Types, Disk, Node, OpState, ConfirmState,
            ExportState, Wallet, Replacing, Removing
<1>1. Types'
    BY DEF OpInv, ConfirmInv, FilesInv
<1>2. OpInv'
    BY DEF OpInv, ConfirmInv, FilesInv, Vault!ConfirmedIsSecured, Vault!Confirmed
<1>3. ConfirmInv'
    BY DEF OpInv, ConfirmInv, FilesInv
<1>4. FilesInv'
    BY DEF OpInv, ConfirmInv, FilesInv
<1>5. Vault!NoKeyLost'
    BY DEF OpInv, FilesInv, Vault!NoKeyLost
<1>6. Vault!ConfirmedIsSecured'
    BY DEF OpInv, ConfirmInv, FilesInv, Vault!ConfirmedIsSecured, Vault!Confirmed
<1>7. Vault!JobPaysActiveWallet'
    BY DEF OpInv, ConfirmInv, FilesInv, Vault!JobPaysActiveWallet
<1> QED BY <1>1, <1>2, <1>3, <1>4, <1>5, <1>6, <1>7

\* The vault's wallet has a profile before the node runs with it.
LEMMA StartExistingStep ==
    ASSUME Vault!WalletsAssumption, WalletsInv, Vault!StartExisting
    PROVE  WalletsInv'
<1> USE DEF Vault!WalletsAssumption, WalletsInv, Vault!StartExisting, Types, Disk, Node, OpState,
            ConfirmState, ExportState, Wallet, Replacing, Removing
<1>1. Types'
  <2>disk. disk' \in Disk
      BY DEF OpInv, ConfirmInv, FilesInv
  <2>node. node' \in Node
      BY DEF OpInv, ConfirmInv, FilesInv
  <2>op. op' \in OpState
      BY DEF OpInv, ConfirmInv, FilesInv
  <2>writers. confirming' \in ConfirmState /\ export' \in ExportState
      BY DEF OpInv, ConfirmInv, FilesInv
  <2>counters. migration' \in 0..4 /\ job' \in Wallet
      BY DEF OpInv, ConfirmInv, FilesInv
  <2>keys. secured' \subseteq Addresses /\ ever' \subseteq Addresses /\ used' \subseteq ever'
      BY DEF OpInv, ConfirmInv, FilesInv
  <2> QED BY <2>disk, <2>node, <2>op, <2>writers, <2>counters, <2>keys
<1>2. OpInv'
    BY DEF OpInv, ConfirmInv, FilesInv, Vault!ConfirmedIsSecured, Vault!Confirmed
<1>3. ConfirmInv'
    BY DEF OpInv, ConfirmInv, FilesInv
<1>4. FilesInv'
    BY DEF OpInv, ConfirmInv, FilesInv
<1>5. Vault!NoKeyLost'
    BY DEF OpInv, FilesInv, Vault!NoKeyLost
<1>6. Vault!ConfirmedIsSecured'
    BY DEF OpInv, ConfirmInv, FilesInv, Vault!ConfirmedIsSecured, Vault!Confirmed
<1>7. Vault!JobPaysActiveWallet'
    BY DEF OpInv, ConfirmInv, FilesInv, Vault!JobPaysActiveWallet
<1> QED BY <1>1, <1>2, <1>3, <1>4, <1>5, <1>6, <1>7

\* A crash may truncate a marker and forgets what was in memory.
LEMMA CrashStep ==
    ASSUME Vault!WalletsAssumption, WalletsInv, Vault!Crash
    PROVE  WalletsInv'
<1> USE DEF Vault!WalletsAssumption, WalletsInv, Vault!Crash, Vault!Truncated, Vault!Stopped, Vault!NoOp, Vault!NoConfirm, Vault!NoExport,
            Types, Disk, Node, OpState, ConfirmState, ExportState, Wallet, Replacing, Removing
<1>1. Types'
    BY DEF OpInv, ConfirmInv, FilesInv
<1>2. OpInv'
    BY DEF OpInv, ConfirmInv, FilesInv, Vault!ConfirmedIsSecured, Vault!Confirmed
<1>3. ConfirmInv'
    BY DEF OpInv, ConfirmInv, FilesInv
<1>4. FilesInv'
    BY DEF OpInv, ConfirmInv, FilesInv
<1>5. Vault!NoKeyLost'
    BY DEF OpInv, FilesInv, Vault!NoKeyLost
<1>6. Vault!ConfirmedIsSecured'
    BY DEF OpInv, ConfirmInv, FilesInv, Vault!ConfirmedIsSecured, Vault!Confirmed
<1>7. Vault!JobPaysActiveWallet'
    BY DEF OpInv, ConfirmInv, FilesInv, Vault!JobPaysActiveWallet
<1> QED BY <1>1, <1>2, <1>3, <1>4, <1>5, <1>6, <1>7

\* The backup is the first step of the migration, so its user has the key from then on.
LEMMA MigrateStep ==
    ASSUME Vault!WalletsAssumption, WalletsInv, Vault!Migrate
    PROVE  WalletsInv'
<1> USE DEF Vault!WalletsAssumption, WalletsInv, Vault!Migrate, Types, Disk, Node, OpState, ConfirmState,
            ExportState, Wallet, Replacing, Removing
<1>1. Types'
    BY DEF OpInv, ConfirmInv, FilesInv
<1>2. OpInv'
    BY DEF OpInv, ConfirmInv, FilesInv, Vault!ConfirmedIsSecured, Vault!Confirmed
<1>3. ConfirmInv'
    BY DEF OpInv, ConfirmInv, FilesInv
<1>4. FilesInv'
    BY DEF OpInv, ConfirmInv, FilesInv
<1>5. Vault!NoKeyLost'
    BY DEF OpInv, FilesInv, Vault!NoKeyLost
<1>6. Vault!ConfirmedIsSecured'
    BY DEF OpInv, ConfirmInv, FilesInv, Vault!ConfirmedIsSecured, Vault!Confirmed
<1>7. Vault!JobPaysActiveWallet'
    BY DEF OpInv, ConfirmInv, FilesInv, Vault!JobPaysActiveWallet
<1> QED BY <1>1, <1>2, <1>3, <1>4, <1>5, <1>6, <1>7

\* A failed migration may truncate a marker, and begins again with the backup.
LEMMA MigrationFailsStep ==
    ASSUME Vault!WalletsAssumption, WalletsInv, Vault!MigrationFails
    PROVE  WalletsInv'
<1> USE DEF Vault!WalletsAssumption, WalletsInv, Vault!MigrationFails, Vault!Truncated, Types, Disk, Node,
            OpState, ConfirmState, ExportState, Wallet, Replacing, Removing
<1>1. Types'
    BY DEF OpInv, ConfirmInv, FilesInv
<1>2. OpInv'
    BY DEF OpInv, ConfirmInv, FilesInv, Vault!ConfirmedIsSecured, Vault!Confirmed
<1>3. ConfirmInv'
    BY DEF OpInv, ConfirmInv, FilesInv
<1>4. FilesInv'
    BY DEF OpInv, ConfirmInv, FilesInv
<1>5. Vault!NoKeyLost'
    BY DEF OpInv, FilesInv, Vault!NoKeyLost
<1>6. Vault!ConfirmedIsSecured'
    BY DEF OpInv, ConfirmInv, FilesInv, Vault!ConfirmedIsSecured, Vault!Confirmed
<1>7. Vault!JobPaysActiveWallet'
    BY DEF OpInv, ConfirmInv, FilesInv, Vault!JobPaysActiveWallet
<1> QED BY <1>1, <1>2, <1>3, <1>4, <1>5, <1>6, <1>7

\* A replacement counts as confirmed only for a wallet whose user has the key.
LEMMA BeginStep ==
    ASSUME Vault!WalletsAssumption, WalletsInv, NEW a \in Addresses,
           Vault!CreateWallet(a) \/ Vault!RestoreWalletMnemonic(a) \/ Vault!RestoreWalletBackup(a) \/ Vault!SwitchWallet(a)
    PROVE  WalletsInv'
<1>0. PICK confirmed \in BOOLEAN :
         Vault!Begin(a, confirmed) /\ ever' = ever /\ (confirmed => a \in secured)
    BY DEF WalletsInv, Vault!CreateWallet, Vault!RestoreWalletMnemonic, Vault!RestoreWalletBackup, Vault!SwitchWallet,
           Vault!ConfirmedIsSecured, Vault!Confirmed
<1> USE <1>0 DEF Vault!WalletsAssumption, WalletsInv, Vault!Begin, Types, Disk, Node, OpState, ConfirmState,
                 ExportState, Wallet, Replacing, Removing
<1>1. Types'
    BY DEF OpInv, ConfirmInv, FilesInv
<1>2. OpInv'
    BY DEF OpInv, ConfirmInv, FilesInv, Vault!ConfirmedIsSecured, Vault!Confirmed
<1>3. ConfirmInv'
    BY DEF OpInv, ConfirmInv, FilesInv
<1>4. FilesInv'
    BY DEF OpInv, ConfirmInv, FilesInv
<1>5. Vault!NoKeyLost'
    BY DEF OpInv, FilesInv, Vault!NoKeyLost
<1>6. Vault!ConfirmedIsSecured'
    BY DEF OpInv, ConfirmInv, FilesInv, Vault!ConfirmedIsSecured, Vault!Confirmed
<1>7. Vault!JobPaysActiveWallet'
    BY DEF OpInv, ConfirmInv, FilesInv, Vault!JobPaysActiveWallet
<1> QED BY <1>1, <1>2, <1>3, <1>4, <1>5, <1>6, <1>7

\* The wallet is replaced only where nothing mines to it and its user has the key.
LEMMA EnterStep ==
    ASSUME Vault!WalletsAssumption, WalletsInv, Vault!EnterReplace
    PROVE  WalletsInv'
<1> USE DEF Vault!WalletsAssumption, WalletsInv, Vault!EnterReplace, Vault!Refused, Vault!NoOp, Types, Disk, Node,
            OpState, ConfirmState, ExportState, Wallet, Replacing, Removing
<1>1. Types'
    BY DEF OpInv, ConfirmInv, FilesInv
<1>2. OpInv'
    BY DEF OpInv, ConfirmInv, FilesInv, Vault!ConfirmedIsSecured, Vault!Confirmed
<1>3. ConfirmInv'
    BY DEF OpInv, ConfirmInv, FilesInv
<1>4. FilesInv'
    BY DEF OpInv, ConfirmInv, FilesInv
<1>5. Vault!NoKeyLost'
    BY DEF OpInv, FilesInv, Vault!NoKeyLost
<1>6. Vault!ConfirmedIsSecured'
    BY DEF OpInv, ConfirmInv, FilesInv, Vault!ConfirmedIsSecured, Vault!Confirmed
<1>7. Vault!JobPaysActiveWallet'
    BY DEF OpInv, ConfirmInv, FilesInv, Vault!JobPaysActiveWallet
<1> QED BY <1>1, <1>2, <1>3, <1>4, <1>5, <1>6, <1>7

\* The new wallet exists once its profile may have been written.
LEMMA ProfileStep ==
    ASSUME Vault!WalletsAssumption, WalletsInv, NEW ok \in BOOLEAN, Vault!SaveProfile(ok)
    PROVE  WalletsInv'
<1> USE DEF Vault!WalletsAssumption, WalletsInv, Vault!SaveProfile, Vault!NoOp, Types, Disk, Node, OpState,
            ConfirmState, ExportState, Wallet, Replacing, Removing
<1>1. Types'
    BY DEF OpInv, ConfirmInv, FilesInv
<1>2. OpInv'
    BY DEF OpInv, ConfirmInv, FilesInv, Vault!ConfirmedIsSecured, Vault!Confirmed
<1>3. ConfirmInv'
    BY DEF OpInv, ConfirmInv, FilesInv
<1>4. FilesInv'
    BY DEF OpInv, ConfirmInv, FilesInv
<1>5. Vault!NoKeyLost'
    BY DEF OpInv, FilesInv, Vault!NoKeyLost
<1>6. Vault!ConfirmedIsSecured'
    BY DEF OpInv, ConfirmInv, FilesInv, Vault!ConfirmedIsSecured, Vault!Confirmed
<1>7. Vault!JobPaysActiveWallet'
    BY DEF OpInv, ConfirmInv, FilesInv, Vault!JobPaysActiveWallet
<1> QED BY <1>1, <1>2, <1>3, <1>4, <1>5, <1>6, <1>7

\* The wallet that the vault held before has a profile or is secured.
LEMMA VaultStep ==
    ASSUME Vault!WalletsAssumption, WalletsInv, NEW ok \in BOOLEAN, Vault!SaveVault(ok)
    PROVE  WalletsInv'
<1> USE DEF Vault!WalletsAssumption, WalletsInv, Vault!SaveVault, Vault!NoOp, Types, Disk, Node, OpState,
            ConfirmState, ExportState, Wallet, Replacing, Removing
<1>1. Types'
  <2>disk. disk' \in Disk
      BY DEF OpInv, ConfirmInv, FilesInv
  <2>node. node' \in Node
    <3>1. CASE ok
      <4>1. /\ node.generation \in 0..MaxChanges /\ node.generation < MaxChanges
            /\ op.wallet \in Wallet
          BY DEF OpInv
      <4>2. node' = [node EXCEPT !.wallet = op.wallet, !.generation = @ + 1,
                                 !.needsBackup = ~op.confirmed]
          BY <3>1
      <4>3. node.generation + 1 \in 0..MaxChanges
          BY <4>1
      <4>4. (~op.confirmed) \in BOOLEAN
          OBVIOUS
      <4> QED BY <4>1, <4>2, <4>3, <4>4
    <3>2. CASE ~ok BY <3>2 DEF OpInv
    <3> QED BY <3>1, <3>2
  <2>op. op' \in OpState
    <3>1. Vault!NoOp \in OpState /\ [op EXCEPT !.pc = "marker1"] \in OpState
        OBVIOUS
    <3>2. op' \in {Vault!NoOp, [op EXCEPT !.pc = "marker1"]}
        OBVIOUS
    <3> QED BY <3>1, <3>2
  <2>writers. confirming' \in ConfirmState /\ export' \in ExportState
      BY DEF OpInv, ConfirmInv, FilesInv
  <2>counters. migration' \in 0..4 /\ job' \in Wallet
      BY DEF OpInv, ConfirmInv, FilesInv
  <2>keys. secured' \subseteq Addresses /\ ever' \subseteq Addresses /\ used' \subseteq ever'
      BY DEF OpInv, ConfirmInv, FilesInv
  <2> QED BY <2>disk, <2>node, <2>op, <2>writers, <2>counters, <2>keys
<1>2. OpInv'
  <2>1. CASE ok
    <3>1. /\ op'.pc = "marker1" /\ op'.wallet = op.wallet /\ op'.confirmed = op.confirmed
          /\ node'.open = node.open /\ secured' = secured
        BY <2>1
    <3> QED BY <3>1 DEF OpInv
  <2>2. CASE ~ok BY <2>2 DEF OpInv
  <2> QED BY <2>1, <2>2
<1>3. ConfirmInv'
    BY ZenonT(60) DEF OpInv, ConfirmInv, FilesInv
<1>4. FilesInv'
    BY ZenonT(60) DEF OpInv, ConfirmInv, FilesInv
<1>5. Vault!NoKeyLost'
    BY DEF OpInv, FilesInv, Vault!NoKeyLost
<1>6. Vault!ConfirmedIsSecured'
    BY ZenonT(60) DEF OpInv, ConfirmInv, FilesInv, Vault!ConfirmedIsSecured, Vault!Confirmed
<1>7. Vault!JobPaysActiveWallet'
    BY DEF OpInv, ConfirmInv, FilesInv, Vault!JobPaysActiveWallet
<1> QED BY <1>1, <1>2, <1>3, <1>4, <1>5, <1>6, <1>7

\* Markers are written for confirmed wallets only, and may be lost.
LEMMA MarkerStep ==
    ASSUME Vault!WalletsAssumption, WalletsInv, NEW ok \in BOOLEAN, Vault!ReplaceMarker(ok)
    PROVE  WalletsInv'
<1> USE DEF Vault!WalletsAssumption, WalletsInv, Vault!ReplaceMarker, Vault!MarkerOutcomes, Vault!Written, Vault!Truncated,
            Vault!NoOp, Types, Disk, Node, OpState, ConfirmState, ExportState, Wallet, Replacing,
            Removing
<1>1. Types'
  <2>disk. disk' \in Disk
      BY DEF OpInv, ConfirmInv, FilesInv
  <2>node. node' \in Node
      BY DEF OpInv, ConfirmInv, FilesInv
  <2>op. op' \in OpState
      BY DEF OpInv, ConfirmInv, FilesInv
  <2>writers. confirming' \in ConfirmState /\ export' \in ExportState
      BY DEF OpInv, ConfirmInv, FilesInv
  <2>counters. migration' \in 0..4 /\ job' \in Wallet
      BY DEF OpInv, ConfirmInv, FilesInv
  <2>keys. secured' \subseteq Addresses /\ ever' \subseteq Addresses /\ used' \subseteq ever'
      BY DEF OpInv, ConfirmInv, FilesInv
  <2> QED BY <2>disk, <2>node, <2>op, <2>writers, <2>counters, <2>keys
<1>2. OpInv'
    BY DEF OpInv, ConfirmInv, FilesInv, Vault!ConfirmedIsSecured, Vault!Confirmed
<1>3. ConfirmInv'
    BY DEF OpInv, ConfirmInv, FilesInv
<1>4. FilesInv'
    BY DEF OpInv, ConfirmInv, FilesInv
<1>5. Vault!NoKeyLost'
    BY DEF OpInv, FilesInv, Vault!NoKeyLost
<1>6. Vault!ConfirmedIsSecured'
    BY DEF OpInv, ConfirmInv, FilesInv, Vault!ConfirmedIsSecured, Vault!Confirmed
<1>7. Vault!JobPaysActiveWallet'
    BY DEF OpInv, ConfirmInv, FilesInv, Vault!JobPaysActiveWallet
<1> QED BY <1>1, <1>2, <1>3, <1>4, <1>5, <1>6, <1>7

\* Only a wallet whose user has the key is removed.
LEMMA BeginRemoveStep ==
    ASSUME Vault!WalletsAssumption, WalletsInv, NEW a \in Addresses, Vault!BeginRemove(a)
    PROVE  WalletsInv'
<1> USE DEF Vault!WalletsAssumption, WalletsInv, Vault!BeginRemove, Types, Disk, Node, OpState,
            ConfirmState, ExportState, Wallet, Replacing, Removing
<1>1. Types'
    BY DEF OpInv, ConfirmInv, FilesInv
<1>2. OpInv'
    BY DEF OpInv, ConfirmInv, FilesInv, Vault!ConfirmedIsSecured, Vault!Confirmed
<1>3. ConfirmInv'
    BY DEF OpInv, ConfirmInv, FilesInv
<1>4. FilesInv'
    BY DEF OpInv, ConfirmInv, FilesInv
<1>5. Vault!NoKeyLost'
    BY DEF OpInv, FilesInv, Vault!NoKeyLost
<1>6. Vault!ConfirmedIsSecured'
    BY DEF OpInv, ConfirmInv, FilesInv, Vault!ConfirmedIsSecured, Vault!Confirmed
<1>7. Vault!JobPaysActiveWallet'
    BY DEF OpInv, ConfirmInv, FilesInv, Vault!JobPaysActiveWallet
<1> QED BY <1>1, <1>2, <1>3, <1>4, <1>5, <1>6, <1>7

\* Files of a secured wallet go.
LEMMA RemovalStep ==
    ASSUME Vault!WalletsAssumption, WalletsInv, NEW ok \in BOOLEAN, Vault!RemoveStep(ok)
    PROVE  WalletsInv'
<1> USE DEF Vault!WalletsAssumption, WalletsInv, Vault!RemoveStep, Vault!NoOp, Types, Disk, Node, OpState,
            ConfirmState, ExportState, Wallet, Replacing, Removing
<1>1. Types'
    BY DEF OpInv, ConfirmInv, FilesInv
<1>2. OpInv'
    BY DEF OpInv, ConfirmInv, FilesInv, Vault!ConfirmedIsSecured, Vault!Confirmed
<1>3. ConfirmInv'
    BY DEF OpInv, ConfirmInv, FilesInv
<1>4. FilesInv'
    BY DEF OpInv, ConfirmInv, FilesInv
<1>5. Vault!NoKeyLost'
    BY DEF OpInv, FilesInv, Vault!NoKeyLost
<1>6. Vault!ConfirmedIsSecured'
    BY DEF OpInv, ConfirmInv, FilesInv, Vault!ConfirmedIsSecured, Vault!Confirmed
<1>7. Vault!JobPaysActiveWallet'
    BY DEF OpInv, ConfirmInv, FilesInv, Vault!JobPaysActiveWallet
<1> QED BY <1>1, <1>2, <1>3, <1>4, <1>5, <1>6, <1>7

\* A confirmation begins for the active wallet, whose key the user now has.
LEMMA ConfirmationStep ==
    ASSUME Vault!WalletsAssumption, WalletsInv,
           Vault!ConfirmWalletRecovery \/ Vault!ExportWalletBackup \/ Vault!ExportConfirms
    PROVE  WalletsInv'
<1> USE DEF Vault!WalletsAssumption, WalletsInv, Vault!ConfirmWalletRecovery, Vault!ExportWalletBackup,
            Vault!ExportConfirms, Vault!Confirms, Vault!Locked, Vault!NoExport, Types, Disk, Node, OpState,
            ConfirmState, ExportState, Wallet, Replacing, Removing
<1>1. Types'
  <2>disk. disk' \in Disk
      BY DEF OpInv, ConfirmInv, FilesInv
  <2>node. node' \in Node
      BY DEF OpInv, ConfirmInv, FilesInv
  <2>op. op' \in OpState
      BY DEF OpInv, ConfirmInv, FilesInv
  <2>writers. confirming' \in ConfirmState /\ export' \in ExportState
      BY DEF OpInv, ConfirmInv, FilesInv
  <2>counters. migration' \in 0..4 /\ job' \in Wallet
      BY DEF OpInv, ConfirmInv, FilesInv
  <2>keys. secured' \subseteq Addresses /\ ever' \subseteq Addresses /\ used' \subseteq ever'
      BY DEF OpInv, ConfirmInv, FilesInv
  <2> QED BY <2>disk, <2>node, <2>op, <2>writers, <2>counters, <2>keys
<1>2. OpInv'
    BY DEF OpInv, ConfirmInv, FilesInv, Vault!ConfirmedIsSecured, Vault!Confirmed
<1>3. ConfirmInv'
  <2>1. CASE Vault!ConfirmWalletRecovery BY <2>1 DEF OpInv, ConfirmInv, FilesInv
  <2>2. CASE Vault!ExportWalletBackup BY <2>2 DEF OpInv, ConfirmInv, FilesInv
  <2>3. CASE Vault!ExportConfirms
    <3>1. /\ UNCHANGED <<node, op, secured>> /\ export'.pc = "none" /\ op.pc \notin Replacing
          /\ export.wallet \in secured
        BY <2>3 DEF ConfirmInv
    <3>2. CASE Vault!Confirms
      <4>1. /\ confirming' = [pc |-> "marker1", wallet |-> export.wallet]
            /\ export.wallet = node.wallet
          BY <2>3, <3>2
      <4>2. node.open
          BY <2>3, <3>2 DEF FilesInv, ConfirmInv
      <4> QED BY <3>1, <4>1, <4>2 DEF ConfirmInv
    <3>3. CASE ~Vault!Confirms
      <4>1. confirming' = confirming
          BY <2>3, <3>3
      <4> QED BY <3>1, <4>1 DEF ConfirmInv
    <3> QED BY <3>2, <3>3
  <2> QED BY <2>1, <2>2, <2>3
<1>4. FilesInv'
    BY DEF OpInv, ConfirmInv, FilesInv
<1>5. Vault!NoKeyLost'
    BY DEF OpInv, FilesInv, Vault!NoKeyLost
<1>6. Vault!ConfirmedIsSecured'
    BY DEF OpInv, ConfirmInv, FilesInv, Vault!ConfirmedIsSecured, Vault!Confirmed
<1>7. Vault!JobPaysActiveWallet'
    BY DEF OpInv, ConfirmInv, FilesInv, Vault!JobPaysActiveWallet
<1> QED BY <1>1, <1>2, <1>3, <1>4, <1>5, <1>6, <1>7

\* A backup file secures its wallet, which may not be the active one any more.
LEMMA ExportStep ==
    ASSUME Vault!WalletsAssumption, WalletsInv, NEW ok \in BOOLEAN, Vault!ExportWrites(ok)
    PROVE  WalletsInv'
<1> USE DEF Vault!WalletsAssumption, WalletsInv, Vault!ExportWrites, Vault!NoExport, Types, Disk, Node, OpState,
            ConfirmState, ExportState, Wallet, Replacing, Removing
<1>1. Types'
    BY DEF OpInv, ConfirmInv, FilesInv
<1>2. OpInv'
    BY DEF OpInv, ConfirmInv, FilesInv, Vault!ConfirmedIsSecured, Vault!Confirmed
<1>3. ConfirmInv'
    BY DEF OpInv, ConfirmInv, FilesInv
<1>4. FilesInv'
    BY DEF OpInv, ConfirmInv, FilesInv
<1>5. Vault!NoKeyLost'
    BY DEF OpInv, FilesInv, Vault!NoKeyLost
<1>6. Vault!ConfirmedIsSecured'
    BY DEF OpInv, ConfirmInv, FilesInv, Vault!ConfirmedIsSecured, Vault!Confirmed
<1>7. Vault!JobPaysActiveWallet'
    BY DEF OpInv, ConfirmInv, FilesInv, Vault!JobPaysActiveWallet
<1> QED BY <1>1, <1>2, <1>3, <1>4, <1>5, <1>6, <1>7

\* The active wallet cannot change before the confirmation ends.
LEMMA ConfirmMarkerStep ==
    ASSUME Vault!WalletsAssumption, WalletsInv, NEW ok \in BOOLEAN, Vault!ConfirmStep(ok)
    PROVE  WalletsInv'
<1> USE DEF Vault!WalletsAssumption, WalletsInv, Vault!ConfirmStep, Vault!MarkerOutcomes, Vault!Written, Vault!Truncated,
            Vault!NoConfirm, Types, Disk, Node, OpState, ConfirmState, ExportState, Wallet, Replacing,
            Removing
<1>1. Types'
  <2>disk. disk' \in Disk
      BY DEF OpInv, ConfirmInv, FilesInv
  <2>node. node' \in Node
      BY DEF OpInv, ConfirmInv, FilesInv
  <2>op. op' \in OpState
      BY DEF OpInv, ConfirmInv, FilesInv
  <2>writers. confirming' \in ConfirmState /\ export' \in ExportState
      BY DEF OpInv, ConfirmInv, FilesInv
  <2>counters. migration' \in 0..4 /\ job' \in Wallet
      BY DEF OpInv, ConfirmInv, FilesInv
  <2>keys. secured' \subseteq Addresses /\ ever' \subseteq Addresses /\ used' \subseteq ever'
      BY DEF OpInv, ConfirmInv, FilesInv
  <2> QED BY <2>disk, <2>node, <2>op, <2>writers, <2>counters, <2>keys
<1>2. OpInv'
    BY DEF OpInv, ConfirmInv, FilesInv, Vault!ConfirmedIsSecured, Vault!Confirmed
<1>3. ConfirmInv'
    BY DEF OpInv, ConfirmInv, FilesInv
<1>4. FilesInv'
    BY DEF OpInv, ConfirmInv, FilesInv
<1>5. Vault!NoKeyLost'
    BY DEF OpInv, FilesInv, Vault!NoKeyLost
<1>6. Vault!ConfirmedIsSecured'
    BY DEF OpInv, ConfirmInv, FilesInv, Vault!ConfirmedIsSecured, Vault!Confirmed
<1>7. Vault!JobPaysActiveWallet'
    BY DEF OpInv, ConfirmInv, FilesInv, Vault!JobPaysActiveWallet
<1> QED BY <1>1, <1>2, <1>3, <1>4, <1>5, <1>6, <1>7

\* A job begins with the active wallet.
LEMMA JobStep ==
    ASSUME Vault!WalletsAssumption, WalletsInv, Vault!StartJob \/ Vault!EndJob
    PROVE  WalletsInv'
<1> USE DEF Vault!WalletsAssumption, WalletsInv, Vault!StartJob, Vault!EndJob, Vault!Locked, Types, Disk, Node, OpState,
            ConfirmState, ExportState, Wallet, Replacing, Removing
<1>1. Types'
    BY DEF OpInv, ConfirmInv, FilesInv
<1>2. OpInv'
    BY DEF OpInv, ConfirmInv, FilesInv, Vault!ConfirmedIsSecured, Vault!Confirmed
<1>3. ConfirmInv'
    BY DEF OpInv, ConfirmInv, FilesInv
<1>4. FilesInv'
    BY DEF OpInv, ConfirmInv, FilesInv
<1>5. Vault!NoKeyLost'
    BY DEF OpInv, FilesInv, Vault!NoKeyLost
<1>6. Vault!ConfirmedIsSecured'
    BY DEF OpInv, ConfirmInv, FilesInv, Vault!ConfirmedIsSecured, Vault!Confirmed
<1>7. Vault!JobPaysActiveWallet'
    BY DEF OpInv, ConfirmInv, FilesInv, Vault!JobPaysActiveWallet
<1> QED BY <1>1, <1>2, <1>3, <1>4, <1>5, <1>6, <1>7

-----------------------------------------------------------------------------
LEMMA WalletsInit ==
    ASSUME Vault!WalletsAssumption, Vault!Init
    PROVE  WalletsInv
<1> USE DEF Vault!WalletsAssumption, Vault!Init, Vault!Stopped, Vault!NoOp, Vault!NoExport, Vault!NoConfirm,
            Types, Disk, Node, OpState, ConfirmState, ExportState, Wallet, Replacing, Removing
<1>1. Types
    OBVIOUS
<1>2. OpInv /\ ConfirmInv /\ FilesInv
    BY DEF OpInv, ConfirmInv, FilesInv
<1>3. Vault!NoKeyLost /\ Vault!ConfirmedIsSecured /\ Vault!JobPaysActiveWallet
    BY DEF Vault!NoKeyLost, Vault!ConfirmedIsSecured, Vault!Confirmed, Vault!JobPaysActiveWallet
<1> QED BY <1>1, <1>2, <1>3 DEF WalletsInv

LEMMA WalletsStep ==
    ASSUME Vault!WalletsAssumption, WalletsInv, Vault!Next
    PROVE  WalletsInv'
<1>1. CASE \E a \in Addresses :
              \/ Vault!StartFresh(a) \/ Vault!CreateWallet(a) \/ Vault!RestoreWalletMnemonic(a)
              \/ Vault!RestoreWalletBackup(a) \/ Vault!SwitchWallet(a) \/ Vault!BeginRemove(a)
    BY <1>1, StartFreshStep, BeginStep, BeginRemoveStep
<1>2. CASE \E ok \in BOOLEAN :
              \/ Vault!SaveProfile(ok) \/ Vault!SaveVault(ok) \/ Vault!ReplaceMarker(ok)
              \/ Vault!RemoveStep(ok) \/ Vault!ExportWrites(ok) \/ Vault!ConfirmStep(ok)
    BY <1>2, ProfileStep, VaultStep, MarkerStep, RemovalStep, ExportStep, ConfirmMarkerStep
<1> QED BY <1>1, <1>2, StartExistingStep, CrashStep, MigrateStep, MigrationFailsStep,
           EnterStep, ConfirmationStep, JobStep DEF Vault!Next

LEMMA WalletsInvHolds == LocalSpec => [](part = "keys" => WalletsInv)
<1>1. Vault!WalletsAssumption
    BY LocalAssumption
<1>2. LocalInit => WalletsInv
    BY <1>1, WalletsInit DEF LocalInit
<1>3. (part = "keys" => WalletsInv) /\ [LocalNext]_localVars => (part = "keys" => WalletsInv)'
  <2> SUFFICES ASSUME part = "keys" => WalletsInv, [LocalNext]_localVars, part' = "keys"
               PROVE  WalletsInv'
      OBVIOUS
  <2>1. CASE UNCHANGED localVars
      BY <2>1 DEF localVars, keyVars, WalletsInv, Types, OpInv, ConfirmInv, FilesInv, Vault!NoKeyLost,
                  Vault!ConfirmedIsSecured, Vault!Confirmed, Vault!JobPaysActiveWallet
  <2>2. CASE LocalNext
      BY <1>1, <2>2, WalletsStep DEF LocalNext, Moves
  <2> QED BY <2>1, <2>2
<1> QED BY <1>2, <1>3, PTL DEF LocalSpec

\* Whatever is created, restored, chosen, removed or migrated, and wherever a
\* write fails or the node dies, the key of every wallet that ever existed is
\* in a file of the data directory, or its user has the phrase or a backup
\* (replaceWallet, RemoveWallet, MigrateLegacyWallet).
THEOREM KeysAreKept == LocalSpec => [](part = "keys" => Vault!NoKeyLost)
<1>1. WalletsInv => Vault!NoKeyLost
    BY DEF WalletsInv
<1> QED BY <1>1, WalletsInvHolds, PTL

\* A recovery marker, and a warning that was cleared, are true: the user of
\* that wallet has its phrase or a backup, even where the wallet is replaced
\* between the backup and its confirmation (confirmWalletRecoveryLocked).
THEOREM ConfirmationsAreTrue == LocalSpec => [](part = "keys" => Vault!ConfirmedIsSecured)
<1>1. WalletsInv => Vault!ConfirmedIsSecured
    BY DEF WalletsInv
<1> QED BY <1>1, WalletsInvHolds, PTL

\* No wallet is replaced while a job pays it (StartMining, replaceWallet).
THEOREM JobsPayTheActiveWallet == LocalSpec => [](part = "keys" => Vault!JobPaysActiveWallet)
<1>1. WalletsInv => Vault!JobPaysActiveWallet
    BY DEF WalletsInv
<1> QED BY <1>1, WalletsInvHolds, PTL
=============================================================================
