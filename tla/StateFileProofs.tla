-------------------------- MODULE StateFileProofs --------------------------
(***************************************************************************)
(* The state file acts as a store whose calls take effect at one instant,  *)
(* for any number of threads, any keys and any values.                     *)
(***************************************************************************)
EXTENDS StateFile, TLAPS

Inside == {"read", "open", "write", "replace", "unlock"}

\* A thread is between taking STATE_LOCK and giving it back only as its holder.
LockHeld == \A t \in Threads : pc[t] \in Inside => lock = t

\* What a writer is about to write is the file with its own key changed.
UpToDate ==
    \A t \in Threads : pc[t] \in {"open", "write", "replace"} =>
        /\ key[t] \in Keys
        /\ state[t] = [Parsed(file) EXCEPT ![key[t]] = val[t]]

\* What a writer renames is what it has written.
TmpWritten == \A t \in Threads : pc[t] = "replace" => tmp = state[t]

Inv == TypeOK /\ LockHeld /\ UpToDate /\ TmpWritten

LEMMA ParsedMap == \A f \in Files : Parsed(f) \in Maps
BY StateAssumption DEF Parsed, Files, Maps, EmptyMap

LEMMA ParsedOfMap == \A m \in Maps : Parsed(m) = m
BY DEF Parsed

LEMMA EmptyIsMap == EmptyMap \in Maps
BY DEF EmptyMap, Maps

LEMMA Updated ==
    \A m \in Maps, k \in Keys, v \in Values \cup {Missing} :
        [m EXCEPT ![k] = v] \in Maps
BY DEF Maps

LEMMA InvInit == Init => Inv
BY EmptyIsMap DEF Init, Inv, TypeOK, LockHeld, UpToDate, TmpWritten, Inside, Files

LEMMA InvStep == Inv /\ [Next]_vars => Inv'
<1> SUFFICES ASSUME Inv, [Next]_vars PROVE Inv'
    OBVIOUS
<1> USE StateAssumption
    DEF Inv, TypeOK, LockHeld, UpToDate, TmpWritten, Inside, Goto
<1>1. ASSUME NEW t \in Threads, NEW k \in Keys \cup {NoKey},
             NEW v \in Values \cup {Missing}, Call(t, k, v)
      PROVE  Inv'
      BY <1>1 DEF Call
<1>2. ASSUME NEW t \in Threads, Acquire(t) PROVE Inv'
  <2>1. \A u \in Threads : pc[u] \notin Inside
        BY <1>2 DEF Acquire
  <2>2. TypeOK'
        BY <1>2 DEF Acquire, locals
  <2>3. LockHeld'
        BY <1>2, <2>1 DEF Acquire, locals
  <2>4. UpToDate' /\ TmpWritten'
        BY <1>2, <2>1 DEF Acquire, locals
  <2>5. QED
        BY <2>2, <2>3, <2>4
<1>3. ASSUME NEW t \in Threads, Read(t) PROVE Inv'
  <2>1. state' \in [Threads -> Maps]
        BY <1>3, ParsedMap, Updated DEF Read
  <2>2. TypeOK'
        BY <1>3, <2>1 DEF Read
  <2>3. UpToDate'
        BY <1>3 DEF Read
  <2>4. QED
        BY <1>3, <2>2, <2>3 DEF Read
<1>4. ASSUME NEW t \in Threads, OpenTemporary(t) PROVE Inv'
  <2>1. \A u \in Threads : u # t => pc[u] \notin Inside
        BY <1>4 DEF OpenTemporary
  <2>2. TypeOK'
        BY <1>4 DEF OpenTemporary, locals, Files
  <2>3. LockHeld' /\ UpToDate' /\ TmpWritten'
        BY <1>4, <2>1 DEF OpenTemporary, locals
  <2>4. QED
        BY <2>2, <2>3
<1>5. ASSUME NEW t \in Threads, WriteTemporary(t) PROVE Inv'
  <2>1. \A u \in Threads : u # t => pc[u] \notin Inside
        BY <1>5 DEF WriteTemporary
  <2>2. TypeOK'
        BY <1>5 DEF WriteTemporary, locals, Files
  <2>3. LockHeld' /\ UpToDate' /\ TmpWritten'
        BY <1>5, <2>1 DEF WriteTemporary, locals
  <2>4. QED
        BY <2>2, <2>3
<1>6. ASSUME NEW t \in Threads, Replace(t) PROVE Inv'
  <2>1. \A u \in Threads : u # t => pc[u] \notin Inside
        BY <1>6 DEF Replace
  <2>2. UpToDate' /\ TmpWritten'
        BY <1>6, <2>1 DEF Replace
  <2>3. TypeOK'
        BY <1>6 DEF Replace, locals, Files
  <2>4. LockHeld'
        BY <1>6 DEF Replace, locals
  <2>5. QED
        BY <2>2, <2>3, <2>4
<1>7. ASSUME NEW t \in Threads, Unlock(t) PROVE Inv'
      BY <1>7, EmptyIsMap DEF Unlock, Back
<1>8. ASSUME NEW t \in Threads, Raise(t) PROVE Inv'
      BY <1>8, EmptyIsMap DEF Raise, Back
<1>9. CASE ProcessDies
      BY <1>9, EmptyIsMap DEF ProcessDies
<1>10. CASE UNCHANGED vars
      BY <1>10 DEF vars, locals
<1>11. QED
      BY <1>1, <1>2, <1>3, <1>4, <1>5, <1>6, <1>7, <1>8, <1>9, <1>10
      DEF Next, SetStateValue, LoadState, HolderStep

\* The state file, its temporary file and the threads keep their types.
THEOREM TypeCorrect == Spec => []TypeOK
<1>1. Inv => TypeOK
      BY DEF Inv
<1>2. QED
      BY InvInit, InvStep, <1>1, PTL DEF Spec

-----------------------------------------------------------------------------
(* Every step is a step of the store, or none.                             *)

PhaseBar == [t \in Threads |-> Phase(t)]
AnswerBar == [t \in Threads |-> Answer(t)]

LEMMA StoreInit == Init => Store!Init
<1> SUFFICES ASSUME Init PROVE Store!Init
    OBVIOUS
<1>1. Parsed(file) \in Maps
      BY ParsedMap DEF Init, Files
<1>2. \A t \in Threads : Phase(t) = "idle" /\ Answer(t) = EmptyMap
      BY DEF Init, Phase, Answer
<1>3. QED
      BY <1>1, <1>2 DEF Init, Store!Init, Store!Maps, Store!EmptyMap, Maps, EmptyMap

LEMMA StoreStep == Inv /\ [Next]_vars => [Store!Next]_Store!vars
<1> SUFFICES ASSUME Inv, [Next]_vars PROVE [Store!Next]_Store!vars
    OBVIOUS
<1> USE StateAssumption DEF Inv, TypeOK, Goto
<1>1. ASSUME NEW t \in Threads, NEW k \in Keys \cup {NoKey},
             NEW v \in Values \cup {Missing}, Call(t, k, v)
      PROVE  Store!Call(t, k, v)
      BY <1>1 DEF Call, Store!Call, Phase, Answer
<1>2. ASSUME NEW t \in Threads, Acquire(t) PROVE UNCHANGED Store!vars
      BY <1>2 DEF Acquire, Store!vars, locals, Phase, Answer
<1>3. ASSUME NEW t \in Threads, Read(t)
      PROVE  Store!Load(t) \/ UNCHANGED Store!vars
  <2>1. CASE key[t] = NoKey
        BY <1>3, <2>1 DEF Read, Store!Load, Phase, Answer
  <2>2. CASE key[t] # NoKey
        BY <1>3, <2>2 DEF Read, Store!vars, Phase, Answer
  <2>3. QED
        BY <2>1, <2>2
<1>4. ASSUME NEW t \in Threads, OpenTemporary(t) PROVE UNCHANGED Store!vars
      BY <1>4 DEF OpenTemporary, Store!vars, locals, Phase, Answer
<1>5. ASSUME NEW t \in Threads, WriteTemporary(t) PROVE UNCHANGED Store!vars
      BY <1>5 DEF WriteTemporary, Store!vars, locals, Phase, Answer
<1>6. ASSUME NEW t \in Threads, Replace(t) PROVE Store!Set(t)
  <2>1. key[t] # NoKey /\ file' = [Parsed(file) EXCEPT ![key[t]] = val[t]]
        BY <1>6 DEF Replace, UpToDate, TmpWritten
  <2>2. Parsed(file)' = [Parsed(file) EXCEPT ![key[t]] = val[t]]
    <3>1. file' \in Maps
          BY <1>6 DEF Replace, TmpWritten
    <3>2. QED
          BY <2>1, <3>1, ParsedOfMap DEF Parsed
  <2>3. QED
        BY <1>6, <2>1, <2>2 DEF Replace, Store!Set, locals, Phase, Answer
<1>7. ASSUME NEW t \in Threads, Unlock(t) PROVE Store!Return(t)
      BY <1>7 DEF Unlock, Back, Store!Return, Store!Leave, Store!EmptyMap, EmptyMap, Phase, Answer
<1>8. ASSUME NEW t \in Threads, Raise(t) PROVE Store!Raise(t)
      BY <1>8 DEF Raise, Back, Store!Raise, Store!Leave, Store!EmptyMap, EmptyMap, Phase, Answer
<1>9. ASSUME ProcessDies PROVE Store!ProcessDies
  <2>1. \A t \in Threads : Phase(t)' = "idle" /\ Answer(t)' = EmptyMap
        BY <1>9 DEF ProcessDies, Phase, Answer
  <2>2. PhaseBar' = [t \in Threads |-> "idle"]
        BY <2>1 DEF PhaseBar
  <2>3. AnswerBar' = [t \in Threads |-> EmptyMap]
        BY <2>1 DEF AnswerBar
  <2>4. QED
        BY <1>9, <2>2, <2>3
        DEF ProcessDies, Store!ProcessDies, Store!EmptyMap, EmptyMap, PhaseBar, AnswerBar
<1>10. CASE UNCHANGED vars
      BY <1>10 DEF vars, locals, Store!vars, Phase, Answer
<1>11. QED
      BY <1>1, <1>2, <1>3, <1>4, <1>5, <1>6, <1>7, <1>8, <1>9, <1>10
      DEF Next, SetStateValue, LoadState, HolderStep, Store!Next

\* The state file implements the store: no write is lost, no load sees half a
\* write, and neither an exception nor the death of the process damages it.
THEOREM ImplementsStore == Spec => ActsAsStore
BY InvInit, InvStep, StoreInit, StoreStep, PTL DEF Spec, ActsAsStore, Store!Spec
=============================================================================
