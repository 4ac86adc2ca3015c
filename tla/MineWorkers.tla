------------------------------ MODULE MineWorkers ------------------------------
(***************************************************************************)
(* MineBlockWithWorkers (internal/core/block.go): workers share the nonces *)
(* of one block by strides and look now and then whether they are still    *)
(* wanted; the first to find work hands it over through a channel that     *)
(* holds one block, and the caller leaves only when all have ended.        *)
(***************************************************************************)
EXTENDS Integers, FiniteSets

CONSTANTS Count,        \* the number of workers, which is the stride
          MaxNonce,     \* the largest nonce, math.MaxUint64
          CheckEvery,   \* iterations between two looks at the context
          None, Cancelled, Exhausted

MineWorkersAssumption ==
    /\ Count \in Nat \ {0} /\ MaxNonce \in Nat /\ Count <= MaxNonce
    /\ CheckEvery \in Nat \ {0}
    /\ None # Cancelled /\ None # Exhausted /\ Cancelled # Exhausted
    /\ {None, Cancelled, Exhausted} \cap (0..MaxNonce) = {}

VARIABLES valid,       \* the nonces with enough work: what the header fixes
          at,          \* what each worker does
          nonce,       \* the nonce each worker is at
          iterations,  \* counted up to CheckEvery
          found,       \* the block in the channel
          cancelled,   \* the context of the workers has ended
          stopped,     \* the caller's context has ended
          caller,      \* where MineBlockWithWorkers is
          result       \* what it returns

vars == <<valid, at, nonce, iterations, found, cancelled, stopped, caller, result>>

Workers == 0..Count - 1
Nonces == 0..MaxNonce

TypeOK ==
    /\ valid \subseteq Nonces
    /\ at \in [Workers -> {"check", "hash", "send", "cancel", "ended"}]
    /\ nonce \in [Workers -> Nonces]
    /\ iterations \in [Workers -> 0..CheckEvery - 1]
    /\ found \in valid \cup {None}
    /\ cancelled \in BOOLEAN /\ stopped \in BOOLEAN
    /\ caller \in {"entered", "selecting", "waiting", "returned"}
    /\ result \in valid \cup {None, Cancelled, Exhausted}

Init ==
    /\ valid \in SUBSET Nonces
    /\ at = [w \in Workers |-> "ended"] /\ nonce = [w \in Workers |-> w]
    /\ iterations = [w \in Workers |-> 0]
    /\ found = None /\ cancelled = FALSE /\ stopped = FALSE
    /\ caller = "entered" /\ result = None

\* A context that has ended starts nothing.
Start ==
    /\ caller = "entered"
    /\ \/ /\ stopped
          /\ caller' = "returned" /\ result' = Cancelled
          /\ UNCHANGED at
       \/ /\ ~stopped
          /\ caller' = "selecting" /\ at' = [w \in Workers |-> "check"]
          /\ UNCHANGED result
    /\ UNCHANGED <<valid, nonce, iterations, found, cancelled, stopped>>

\* The caller's context ends, and the one of the workers with it.
Stop ==
    /\ ~stopped
    /\ stopped' = TRUE /\ cancelled' = TRUE
    /\ UNCHANGED <<valid, at, nonce, iterations, found, caller, result>>
-----------------------------------------------------------------------------
Check(w) ==
    /\ at[w] = "check"
    /\ at' = [at EXCEPT ![w] = IF iterations[w] = 0 /\ cancelled THEN "ended" ELSE "hash"]
    /\ UNCHANGED <<valid, nonce, iterations, found, cancelled, stopped, caller, result>>

\* The next nonce would not fit.
LastNonce(w) == nonce[w] > MaxNonce - Count

Hash(w) ==
    /\ at[w] = "hash"
    /\ \/ /\ nonce[w] \in valid
          /\ at' = [at EXCEPT ![w] = "send"]
          /\ UNCHANGED <<nonce, iterations>>
       \/ /\ nonce[w] \notin valid /\ LastNonce(w)
          /\ at' = [at EXCEPT ![w] = "ended"]
          /\ UNCHANGED <<nonce, iterations>>
       \/ /\ nonce[w] \notin valid /\ ~LastNonce(w)
          /\ at' = [at EXCEPT ![w] = "check"]
          /\ nonce' = [nonce EXCEPT ![w] = @ + Count]
          /\ iterations' = [iterations EXCEPT ![w] = (@ + 1) % CheckEvery]
    /\ UNCHANGED <<valid, found, cancelled, stopped, caller, result>>

\* Either can be chosen when both are possible.
Send(w) ==
    /\ at[w] = "send"
    /\ \/ found = None /\ found' = nonce[w] /\ at' = [at EXCEPT ![w] = "cancel"]
       \/ cancelled /\ at' = [at EXCEPT ![w] = "ended"] /\ UNCHANGED found
    /\ UNCHANGED <<valid, nonce, iterations, cancelled, stopped, caller, result>>

CancelOthers(w) ==
    /\ at[w] = "cancel"
    /\ cancelled' = TRUE /\ at' = [at EXCEPT ![w] = "ended"]
    /\ UNCHANGED <<valid, nonce, iterations, found, stopped, caller, result>>
-----------------------------------------------------------------------------
AllEnded == \A w \in Workers : at[w] = "ended"

TakeFound ==
    /\ caller = "selecting" /\ found # None
    /\ result' = found /\ found' = None
    /\ cancelled' = TRUE /\ caller' = "waiting"
    /\ UNCHANGED <<valid, at, nonce, iterations, stopped>>

Interrupted ==
    /\ caller = "selecting" /\ stopped
    /\ result' = Cancelled /\ cancelled' = TRUE /\ caller' = "waiting"
    /\ UNCHANGED <<valid, at, nonce, iterations, found, stopped>>

\* Mutant: the channel is not looked at again.
DoneForgetsFound ==
    /\ caller = "selecting" /\ AllEnded
    /\ result' = IF stopped THEN Cancelled ELSE Exhausted
    /\ caller' = "returned" /\ cancelled' = TRUE
    /\ UNCHANGED <<valid, at, nonce, iterations, found, stopped>>

\* All have ended before the caller took anything: a block may still be in the channel.
Done ==
    /\ caller = "selecting" /\ AllEnded
    /\ result' = CASE found # None -> found
                   [] found = None /\ stopped -> Cancelled
                   [] found = None /\ ~stopped -> Exhausted
    /\ found' = None
    /\ caller' = "returned" /\ cancelled' = TRUE
    /\ UNCHANGED <<valid, at, nonce, iterations, stopped>>

Return ==
    /\ caller = "waiting" /\ AllEnded
    /\ caller' = "returned"
    /\ UNCHANGED <<valid, at, nonce, iterations, found, cancelled, stopped, result>>

Work(w) == Check(w) \/ Hash(w) \/ Send(w) \/ CancelOthers(w)
Call == Start \/ TakeFound \/ Interrupted \/ Done \/ Return
Next == Stop \/ Call \/ \E w \in Workers : Work(w)

Spec == Init /\ [][Next]_vars
-----------------------------------------------------------------------------
\* A caller whose context goes on gets a block when there is one, and hears "nonce space
\* exhausted" only of a block without any valid nonce, whoever ended last and whatever
\* the others had handed over.
FoundOrExhausted ==
    caller = "returned" /\ ~stopped => IF valid = {} THEN result = Exhausted ELSE result \in valid

\* When the call returns no worker of it runs any more: the next candidate never
\* competes with the last one's workers.
NoWorkerOutlives == caller = "returned" => AllEnded
=============================================================================
