---------------------------- MODULE StorageGate ----------------------------
(***************************************************************************)
(* MicroscopeStorageGate: the Kotlin lock that keeps destructive storage   *)
(* work apart from session transitions.  Each action is one critical       *)
(* section of its ReentrantLock; a guard that is false is a wait on the    *)
(* condition storageFinished.                                              *)
(***************************************************************************)
EXTENDS Integers

VARIABLES
  sessionTransitions,      \* transitions that have begun and not ended
  activeSession,           \* what the last transition to end reported
  storageOperationActive   \* a storage operation owns the gate

gateVars == <<sessionTransitions, activeSession, storageOperationActive>>

GateTypeOK ==
  /\ sessionTransitions \in Nat
  /\ activeSession \in BOOLEAN
  /\ storageOperationActive \in BOOLEAN

GateInit ==
  /\ sessionTransitions = 0
  /\ activeSession = FALSE
  /\ storageOperationActive = FALSE

\* mutant: a transition does not wait for a running storage operation
BeginWithoutWaiting ==
  /\ sessionTransitions' = sessionTransitions + 1
  /\ UNCHANGED <<activeSession, storageOperationActive>>

BeginSessionTransition ==
  /\ ~storageOperationActive
  /\ sessionTransitions' = sessionTransitions + 1
  /\ UNCHANGED <<activeSession, storageOperationActive>>

EndSessionTransition(hasActiveSession) ==
  /\ sessionTransitions > 0
  /\ sessionTransitions' = sessionTransitions - 1
  /\ activeSession' = hasActiveSession
  /\ UNCHANGED storageOperationActive

StorageBusy == activeSession \/ sessionTransitions > 0 \/ storageOperationActive

\* runStorageIfIdle, before and after the operation it runs
BeginStorage ==
  /\ ~StorageBusy
  /\ storageOperationActive' = TRUE
  /\ UNCHANGED <<sessionTransitions, activeSession>>

\* mutant: the flag is not reset when the operation ends
EndStorageForgets == UNCHANGED gateVars

EndStorage ==
  /\ storageOperationActive' = FALSE
  /\ UNCHANGED <<sessionTransitions, activeSession>>
=============================================================================
