----------------------------- MODULE StateFile -----------------------------
(***************************************************************************)
(* The state file of the container (container.py, _set_state_value and     *)
(* _load_state): one JSON object that the scheduler, the backup thread and *)
(* the request handlers read and rewrite as a whole.  A writer holds       *)
(* STATE_LOCK, reads the file, changes one key, writes a temporary file    *)
(* and renames it over the old one.                                        *)
(*                                                                         *)
(* A file is absent (NoFile), damaged (opened for writing and not yet, or  *)
(* not completely, written), or holds a map.  What the rename has put in   *)
(* place survives the process; the loss of the machine is not modelled.    *)
(***************************************************************************)
CONSTANTS
    Threads, Keys, Values, Missing, NoKey,      \* as in KeyValueStore
    NoThread,       \* "nobody holds STATE_LOCK"
    NoFile, Damaged

Maps == [Keys -> Values \cup {Missing}]
EmptyMap == [k \in Keys |-> Missing]

ASSUME StateAssumption ==
    /\ Missing \notin Values /\ NoKey \notin Keys
    /\ NoThread \notin Threads
    /\ NoFile \notin Maps /\ Damaged \notin Maps /\ NoFile # Damaged

VARIABLES
    file,           \* scheduler-state.json
    tmp,            \* scheduler-state.tmp
    lock,           \* the holder of STATE_LOCK
    pc,             \* [Threads -> where the call is]
    key, val,       \* [Threads -> the arguments of the call]
    state           \* [Threads -> its local variable `state`]

locals == <<key, val, state>>
vars == <<file, tmp, lock, pc, locals>>

Files == Maps \cup {NoFile, Damaged}

TypeOK ==
    /\ file \in Files /\ tmp \in Files
    /\ lock \in Threads \cup {NoThread}
    /\ pc \in [Threads -> {"idle", "lock", "read", "open", "write", "replace",
                           "unlock"}]
    /\ key \in [Threads -> Keys \cup {NoKey}]
    /\ val \in [Threads -> Values \cup {Missing}]
    /\ state \in [Threads -> Maps]

Init ==
    /\ file \in Maps \cup {NoFile}
    /\ tmp = NoFile
    /\ lock = NoThread
    /\ pc = [t \in Threads |-> "idle"]
    /\ key = [t \in Threads |-> NoKey]
    /\ val = [t \in Threads |-> Missing]
    /\ state = [t \in Threads |-> EmptyMap]

\* A missing file and one that is not JSON read as {}.
Parsed(contents) == IF contents \in Maps THEN contents ELSE EmptyMap

Goto(t, from, to) == pc[t] = from /\ pc' = [pc EXCEPT ![t] = to]

\* Back to the caller, whose local variables are gone.
Back(t) ==
    /\ pc' = [pc EXCEPT ![t] = "idle"]
    /\ key' = [key EXCEPT ![t] = NoKey]
    /\ val' = [val EXCEPT ![t] = Missing]
    /\ state' = [state EXCEPT ![t] = EmptyMap]

-----------------------------------------------------------------------------
Call(t, k, v) ==
    /\ Goto(t, "idle", "lock")
    /\ key' = [key EXCEPT ![t] = k]
    /\ val' = [val EXCEPT ![t] = v]
    /\ UNCHANGED <<file, tmp, lock, state>>

\* For mutation: the lock is not waited for.
DontWait(t) ==
    /\ Goto(t, "lock", "read")
    /\ lock' = t
    /\ UNCHANGED <<file, tmp, locals>>

Acquire(t) ==
    /\ Goto(t, "lock", "read")
    /\ lock = NoThread
    /\ lock' = t
    /\ UNCHANGED <<file, tmp, locals>>

\* _load_state_unlocked, and `state[key] = value` where there is a key.
Read(t) ==
    /\ Goto(t, "read", IF key[t] = NoKey THEN "unlock" ELSE "open")
    /\ state' = [state EXCEPT ![t] =
                    IF key[t] = NoKey THEN Parsed(file)
                    ELSE [Parsed(file) EXCEPT ![key[t]] = val[t]]]
    /\ UNCHANGED <<file, tmp, lock, key, val>>

\* For mutation: the state file itself is opened for writing.
TruncateFile(t) ==
    /\ Goto(t, "open", "write")
    /\ file' = Damaged
    /\ UNCHANGED <<tmp, lock, locals>>

OpenTemporary(t) ==
    /\ Goto(t, "open", "write")
    /\ tmp' = Damaged
    /\ UNCHANGED <<file, lock, locals>>

WriteTemporary(t) ==
    /\ Goto(t, "write", "replace")
    /\ tmp' = state[t]
    /\ UNCHANGED <<file, lock, locals>>

Replace(t) ==
    /\ tmp # NoFile
    /\ Goto(t, "replace", "unlock")
    /\ file' = tmp /\ tmp' = NoFile
    /\ UNCHANGED <<lock, locals>>

Unlock(t) ==
    /\ pc[t] = "unlock"
    /\ lock' = NoThread
    /\ Back(t)
    /\ UNCHANGED <<file, tmp>>

\* For mutation: acquire() and release() in place of `with`.
RaiseHolding(t) ==
    /\ pc[t] \in {"read", "open", "write", "replace"}
    /\ Back(t)
    /\ UNCHANGED <<file, tmp, lock>>

\* The file cannot be read, the disk is full, the rename is refused: `with`
\* gives the lock back.
Raise(t) ==
    /\ pc[t] \in {"read", "open", "write", "replace"}
    /\ lock' = NoThread
    /\ Back(t)
    /\ UNCHANGED <<file, tmp>>

ProcessDies ==
    /\ lock' = NoThread
    /\ pc' = [t \in Threads |-> "idle"]
    /\ key' = [t \in Threads |-> NoKey]
    /\ val' = [t \in Threads |-> Missing]
    /\ state' = [t \in Threads |-> EmptyMap]
    /\ UNCHANGED <<file, tmp>>

-----------------------------------------------------------------------------
SetStateValue(t) == \E k \in Keys, v \in Values : Call(t, k, v)

LoadState(t) == Call(t, NoKey, Missing)

\* What goes on under the lock; none of it waits for another thread.
HolderStep(t) ==
    \/ Read(t) \/ OpenTemporary(t) \/ WriteTemporary(t) \/ Replace(t)
    \/ Unlock(t) \/ Raise(t)

Next ==
    \/ \E t \in Threads :
        SetStateValue(t) \/ LoadState(t) \/ Acquire(t) \/ HolderStep(t)
    \/ ProcessDies

Spec == Init /\ [][Next]_vars

\* Threads are scheduled and the disk answers.
FairSpec == Spec /\ \A t \in Threads : WF_vars(HolderStep(t))

-----------------------------------------------------------------------------
\* A call has taken effect once a load has read the file, and once a writer
\* has renamed its temporary file.
Phase(t) ==
    CASE pc[t] = "idle"   -> "idle"
      [] pc[t] = "unlock" -> "applied"
      [] OTHER            -> "called"

Answer(t) ==
    IF pc[t] = "unlock" /\ key[t] = NoKey THEN state[t] ELSE EmptyMap

Store == INSTANCE KeyValueStore WITH
    store  <- Parsed(file),
    phase  <- [t \in Threads |-> Phase(t)],
    answer <- [t \in Threads |-> Answer(t)]

\* container.py:129-152: the file behaves as one map that every call changes
\* or reads at one instant: no write is lost to another one, a load sees
\* every write that returned before it began and no half of any, and a call
\* that raises or dies with the process leaves the whole old state or the
\* whole new one.
ActsAsStore == Store!Spec

\* STATE_LOCK comes free again and again, whatever raises under it.
LockComesFree == []<>(lock = NoThread)
=============================================================================
