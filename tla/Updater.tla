------------------------------- MODULE Updater -------------------------------
(***************************************************************************)
(* The in-app update (internal/updater/client.go, InstallUpdate of         *)
(* app.go): the artifact of the newest release is fetched from untrusted   *)
(* mirrors and from GitHub in turn, into one partial file that every       *)
(* source and every later attempt resumes, and runs once its SHA-256 is    *)
(* the one GitHub publishes.                                               *)
(*                                                                         *)
(* The artifact is Size pieces.  A file is a sequence of pieces, "good"    *)
(* when the piece is the artifact's at that place.                         *)
(***************************************************************************)
EXTENDS Integers, Sequences, FiniteSets

CONSTANTS Sources,       \* the sequence of sources, the mirrors before GitHub
          Calls,         \* concurrent calls of InstallUpdate
          Size, MaxBytes,
          Pieces,        \* how many pieces each source serves
          Wrong,         \* the sources that serve other bytes
          Unreliable,    \* the sources whose requests may fail
          Flaky,         \* the sources whose answers may break off
          MaxCrashes     \* bound of the model

SourceSet == {Sources[i] : i \in 1..Len(Sources)}

UpdaterAssumption ==
    /\ Sources \in Seq(SourceSet) /\ Sources # <<>>
    /\ MaxBytes \in Nat /\ Size \in 1..MaxBytes
    /\ Pieces \in [SourceSet -> Nat \ {0}]
    /\ \A s \in SourceSet \ Wrong : Pieces[s] = Size
    /\ MaxCrashes \in Nat

VARIABLES updating,      \* a.updating
          closing,       \* "none", "quitting" (within the second before Quit), "closed"
          call,          \* where each call of InstallUpdate is
          partial, destination,   \* the files of the update cache, empty when missing
          launched,      \* history: what was handed to the installer
          crashes

vars == <<updating, closing, call, partial, destination, launched, crashes>>

Idle == [pc |-> "none", source |-> 0, attempt |-> 0, known |-> FALSE]
Artifact == [i \in 1..Size |-> "good"]
File == UNION {[1..n -> {"good", "bad"}] : n \in 0..(MaxBytes + 1)}

TypeOK ==
    /\ updating \in BOOLEAN /\ closing \in {"none", "quitting", "closed"}
    /\ call \in [Calls -> [pc : {"none", "latest", "checksum", "cached", "request", "stream", "verify",
                                 "promote1", "promote2", "launch"},
                           source : 0..Len(Sources), attempt : 0..1, known : BOOLEAN]]
    /\ partial \in File /\ destination \in File /\ launched \subseteq File
    /\ crashes \in 0..MaxCrashes

Init ==
    /\ updating = FALSE /\ closing = "none" /\ call = [c \in Calls |-> Idle]
    /\ partial = <<>> /\ destination \in {<<>>, <<"bad">>}
    /\ launched = {} /\ crashes = 0

At(c, pc) == closing # "closed" /\ call[c].pc = pc
Goto(c, pc) == call' = [call EXCEPT ![c].pc = pc] /\ UNCHANGED updating
End(c) == call' = [call EXCEPT ![c] = Idle] /\ updating' = FALSE

MayInstall == ~updating

InstallUpdate(c) ==
    /\ closing # "closed" /\ call[c] = Idle /\ MayInstall
    /\ updating' = TRUE
    /\ call' = [call EXCEPT ![c].pc = "latest"]
    /\ UNCHANGED <<closing, partial, destination, launched, crashes>>

\* latest and checksumForArtifact, each with its retries, and the steps that may fail
\* without a trace: nothing newer, no checksum, a file in use.
Metadata(c) ==
    /\ At(c, "latest") \/ At(c, "checksum")
    /\ Goto(c, IF call[c].pc = "latest" THEN "checksum" ELSE "cached")
    /\ UNCHANGED <<closing, partial, destination, launched, crashes>>

Fails(c) ==
    /\ \E pc \in {"latest", "checksum", "promote1", "promote2"} : At(c, pc)
    /\ End(c)
    /\ UNCHANGED <<closing, partial, destination, launched, crashes>>

\* A verified file of an earlier attempt, whole or waiting for its rename.
Cached(c) ==
    /\ At(c, "cached")
    /\ IF destination = Artifact THEN Goto(c, "launch")
       ELSE IF partial = Artifact THEN Goto(c, "promote1")
       ELSE call' = [call EXCEPT ![c] = [Idle EXCEPT !.pc = "request", !.source = 1]] /\ UNCHANGED updating
    /\ UNCHANGED <<closing, partial, destination, launched, crashes>>

NextSource(c) ==
    IF call[c].source = Len(Sources) THEN End(c)
    ELSE /\ call' = [call EXCEPT ![c] = [Idle EXCEPT !.pc = "request", !.source = call[c].source + 1]]
         /\ UNCHANGED updating
-----------------------------------------------------------------------------
(* downloadSource.                                                         *)

Source(c) == Sources[call[c].source]
Resumed == IF Len(partial) > MaxBytes THEN <<>> ELSE partial

RequestFails(c) ==
    /\ At(c, "request") /\ Source(c) \in Unreliable
    /\ partial' = Resumed
    /\ NextSource(c)
    /\ UNCHANGED <<closing, destination, launched, crashes>>

\* 416: the file starts over, once.
NotSatisfiable(c) ==
    /\ At(c, "request") /\ Resumed # <<>> /\ Len(Resumed) >= Pieces[Source(c)]
    /\ partial' = <<>>
    /\ IF call[c].attempt = 1 THEN NextSource(c)
       ELSE call' = [call EXCEPT ![c].attempt = 1] /\ UNCHANGED updating
    /\ UNCHANGED <<closing, destination, launched, crashes>>

\* 206: the rest is appended to what is there, whoever sent it.
Continued(c) ==
    /\ At(c, "request") /\ Len(Resumed) \in 1..(Pieces[Source(c)] - 1)
    /\ partial' = Resumed
    /\ IF Pieces[Source(c)] > MaxBytes THEN NextSource(c)
       ELSE call' = [call EXCEPT ![c].pc = "stream", ![c].known = TRUE] /\ UNCHANGED updating
    /\ UNCHANGED <<closing, destination, launched, crashes>>

\* 200, with its length or without: no range was asked for, or the source ignores it.
Whole(c, known) ==
    /\ At(c, "request")
    /\ IF known /\ Pieces[Source(c)] > MaxBytes
       THEN partial' = Resumed /\ NextSource(c)
       ELSE /\ partial' = <<>>
            /\ call' = [call EXCEPT ![c].pc = "stream", ![c].known = known] /\ UNCHANGED updating
    /\ UNCHANGED <<closing, destination, launched, crashes>>

\* io.LimitReader: one piece more than an artifact may have tells that it is too long.
Served(c) == IF Pieces[Source(c)] > MaxBytes + 1 THEN MaxBytes + 1 ELSE Pieces[Source(c)]

Write(c) ==
    /\ At(c, "stream") /\ Len(partial) < Served(c)
    /\ partial' = Append(partial, IF Source(c) \in Wrong THEN "bad" ELSE "good")
    /\ Goto(c, "stream")
    /\ UNCHANGED <<closing, destination, launched, crashes>>

BreaksOff(c) ==
    /\ At(c, "stream") /\ Source(c) \in Flaky
    /\ NextSource(c)
    /\ UNCHANGED <<closing, partial, destination, launched, crashes>>

Written(c) ==
    /\ At(c, "stream") /\ Len(partial) >= Served(c)
    /\ IF Len(partial) > MaxBytes THEN NextSource(c) ELSE Goto(c, "verify")
    /\ UNCHANGED <<closing, partial, destination, launched, crashes>>

Verified == partial = Artifact

\* os.Truncate of what failed verification.
Verify(c) ==
    /\ At(c, "verify")
    /\ partial' = IF Verified THEN partial ELSE <<>>
    /\ IF Verified THEN Goto(c, "promote1") ELSE NextSource(c)
    /\ UNCHANGED <<closing, destination, launched, crashes>>

\* promoteDownloadedArtifact: the older file is removed, the partial one renamed.
Promote(c) ==
    /\ \/ At(c, "promote1") /\ destination' = <<>> /\ Goto(c, "promote2") /\ UNCHANGED partial
       \/ At(c, "promote2") /\ destination' = partial /\ partial' = <<>> /\ Goto(c, "launch")
    /\ UNCHANGED <<closing, launched, crashes>>

\* LaunchInstaller, which the user may refuse.
Launch(c, ok) ==
    /\ At(c, "launch")
    /\ launched' = launched \cup {destination}
    /\ closing' = IF ok THEN "quitting" ELSE closing
    /\ End(c)
    /\ UNCHANGED <<partial, destination, crashes>>

Quit ==
    /\ closing = "quitting"
    /\ closing' = "closed"
    /\ UNCHANGED <<updating, call, partial, destination, launched, crashes>>

\* The application is killed and started again.
Crash ==
    /\ closing = "none" /\ crashes < MaxCrashes
    /\ crashes' = crashes + 1
    /\ call' = [c \in Calls |-> Idle] /\ updating' = FALSE
    /\ UNCHANGED <<closing, partial, destination, launched>>

Works(c) ==
    \/ Metadata(c) \/ Cached(c) \/ NotSatisfiable(c) \/ Continued(c) \/ Whole(c, TRUE)
    \/ Write(c) \/ Written(c) \/ Verify(c) \/ Promote(c) \/ Launch(c, TRUE)

Next ==
    \/ Quit \/ Crash
    \/ \E c \in Calls : \/ InstallUpdate(c) \/ Metadata(c) \/ Fails(c) \/ Cached(c)
                        \/ RequestFails(c) \/ NotSatisfiable(c) \/ Continued(c) \/ Write(c) \/ BreaksOff(c)
                        \/ Written(c) \/ Verify(c) \/ Promote(c)
                        \/ \E known \in BOOLEAN : Whole(c, known)
                        \/ \E ok \in BOOLEAN : Launch(c, ok)

Spec == Init /\ [][Next]_vars
-----------------------------------------------------------------------------
\* "Promoted only after SHA-256 matches": whatever the sources serve, two calls share
\* or a crash leaves, only the published artifact is handed to the installer.
OnlyVerifiedRuns == launched \subseteq {Artifact}
=============================================================================
