--------------------------- MODULE KeyValueStore ---------------------------
(***************************************************************************)
(* What the threads of the container may expect of the state file: every   *)
(* call takes effect at one instant between its start and its return, or   *)
(* raises without effect; the death of the process ends the calls in       *)
(* progress and loses no value.  Coordinator writes the file this way.     *)
(***************************************************************************)
CONSTANTS
    Threads,
    Keys,           \* daily, weekly, ..., last_run, rclone_test
    Values,
    Missing,        \* the key is not in the file
    NoKey           \* the "key" of a call that loads the whole state

VARIABLES
    store,          \* [Keys -> Values \cup {Missing}]
    phase,          \* [Threads -> idle, called, applied]
    key, val,       \* [Threads -> the arguments of the call]
    answer          \* [Threads -> what a load has returned]

vars == <<store, phase, key, val, answer>>

Maps == [Keys -> Values \cup {Missing}]
EmptyMap == [k \in Keys |-> Missing]

Init ==
    /\ store \in Maps
    /\ phase = [t \in Threads |-> "idle"]
    /\ key = [t \in Threads |-> NoKey]
    /\ val = [t \in Threads |-> Missing]
    /\ answer = [t \in Threads |-> EmptyMap]

Call(t, k, v) ==
    /\ phase[t] = "idle"
    /\ phase' = [phase EXCEPT ![t] = "called"]
    /\ key' = [key EXCEPT ![t] = k]
    /\ val' = [val EXCEPT ![t] = v]
    /\ UNCHANGED <<store, answer>>

Set(t) ==
    /\ phase[t] = "called" /\ key[t] # NoKey
    /\ store' = [store EXCEPT ![key[t]] = val[t]]
    /\ phase' = [phase EXCEPT ![t] = "applied"]
    /\ UNCHANGED <<key, val, answer>>

Load(t) ==
    /\ phase[t] = "called" /\ key[t] = NoKey
    /\ answer' = [answer EXCEPT ![t] = store]
    /\ phase' = [phase EXCEPT ![t] = "applied"]
    /\ UNCHANGED <<store, key, val>>

\* The call is over; its arguments and its answer are the caller's.
Leave(t) ==
    /\ phase' = [phase EXCEPT ![t] = "idle"]
    /\ key' = [key EXCEPT ![t] = NoKey]
    /\ val' = [val EXCEPT ![t] = Missing]
    /\ answer' = [answer EXCEPT ![t] = EmptyMap]
    /\ UNCHANGED store

Return(t) == phase[t] = "applied" /\ Leave(t)

Raise(t) == phase[t] = "called" /\ Leave(t)

ProcessDies ==
    /\ phase' = [t \in Threads |-> "idle"]
    /\ key' = [t \in Threads |-> NoKey]
    /\ val' = [t \in Threads |-> Missing]
    /\ answer' = [t \in Threads |-> EmptyMap]
    /\ UNCHANGED store

Next ==
    \/ \E t \in Threads :
        \/ \E k \in Keys, v \in Values : Call(t, k, v)
        \/ Call(t, NoKey, Missing)
        \/ Set(t) \/ Load(t) \/ Return(t) \/ Raise(t)
    \/ ProcessDies

Spec == Init /\ [][Next]_vars
=============================================================================
