------------------------- MODULE SessionStore_proofs -------------------------
(***************************************************************************)
(* What the transactions of SessionStore guarantee for every set of keys   *)
(* and actors, whatever order they are called in: the database, not the    *)
(* in-process lock, is the authority.                                      *)
(***************************************************************************)
EXTENDS SessionStore, TLAPS

\* The conjunction is inductive: OneUnresolved and the absence of completed
\* operations in a created session are what TransitionToActive relies on.
StoreInv ==
    /\ StoreTypeOK
    /\ Interlock
    /\ OneUnresolved
    /\ ActiveOwnership
    /\ CompletedIntentTerminal
    /\ LeaseOwned
    /\ OperationStateValid

\* Every initial state satisfies the store invariant.
LEMMA StoreInitInv == StoreInit => StoreInv
  BY NoneAssumption DEF StoreInit, StoreInv, StoreTypeOK, Interlock, OneUnresolved,
     ActiveOwnership, CompletedIntentTerminal, LeaseOwned, OperationStateValid,
     StartUnresolved, Unresolved, UnfinishedStatuses, OpStatuses, Statuses, Terminal

\* A start transaction moves one operation row; a completed row appears only
\* together with an active session.
LEMMA StartTransactions ==
  ASSUME StoreInv, NEW k \in Keys,
         \/ BeginStartOperation(k)
         \/ TransitionToActive(k)
         \/ \E c \in Actors : \/ ClaimStartCompensation(k, c)
                              \/ CompleteStartCompensation(k, c)
                              \/ FailStartCompensation(k, c)
  PROVE  StoreInv'
<1> USE NoneAssumption DEF StoreInv, StoreTypeOK, Interlock, OneUnresolved,
        ActiveOwnership, CompletedIntentTerminal, LeaseOwned, OperationStateValid,
        StartUnresolved, Unresolved, UnfinishedStatuses, OpStatuses, Statuses, Terminal
<1>1. CASE BeginStartOperation(k)
  BY <1>1 DEF BeginStartOperation
<1>2. CASE TransitionToActive(k)
  BY <1>2 DEF TransitionToActive
<1>3. ASSUME NEW c \in Actors, ClaimStartCompensation(k, c)
      PROVE  StoreInv'
  BY <1>3 DEF ClaimStartCompensation
<1>4. ASSUME NEW c \in Actors, CompleteStartCompensation(k, c)
      PROVE  StoreInv'
  BY <1>4 DEF CompleteStartCompensation, ClaimHolds, Completable
<1>5. ASSUME NEW c \in Actors, FailStartCompensation(k, c)
      PROVE  StoreInv'
  BY <1>5 DEF FailStartCompensation, ClaimHolds, Failable
<1> QED BY <1>1, <1>2, <1>3, <1>4, <1>5

\* End transactions leave the operation rows alone.
LEMMA EndTransactions ==
  ASSUME StoreInv,
         \/ \E a \in Actors : \/ SaveEndIntent(a)
                              \/ ClaimPendingEndIntent(a)
                              \/ RetryClaimedEndIntent(a)
                              \/ CompleteClaimedEndIntent(a)
         \/ CompleteEndIntent
         \/ \E expected \in {"created", "active"} : TransitionToEnded(expected)
         \/ TransitionToFailed
         \/ LeaseExpires
  PROVE  StoreInv'
<1> USE NoneAssumption DEF StoreInv, StoreTypeOK, Interlock, OneUnresolved,
        ActiveOwnership, CompletedIntentTerminal, LeaseOwned, OperationStateValid,
        StartUnresolved, Unresolved, UnfinishedStatuses, OpStatuses, Statuses, Terminal
<1>1. ASSUME NEW a \in Actors, SaveEndIntent(a)
      PROVE  StoreInv'
  BY <1>1 DEF SaveEndIntent
<1>2. ASSUME NEW a \in Actors, ClaimPendingEndIntent(a)
      PROVE  StoreInv'
  BY <1>2 DEF ClaimPendingEndIntent
<1>3. ASSUME NEW a \in Actors, RetryClaimedEndIntent(a)
      PROVE  StoreInv'
  BY <1>3 DEF RetryClaimedEndIntent
<1>4. ASSUME NEW a \in Actors, CompleteClaimedEndIntent(a)
      PROVE  StoreInv'
  BY <1>4 DEF CompleteClaimedEndIntent
<1>5. CASE CompleteEndIntent
  BY <1>5 DEF CompleteEndIntent
<1>6. ASSUME NEW expected \in {"created", "active"}, TransitionToEnded(expected)
      PROVE  StoreInv'
  BY <1>6 DEF TransitionToEnded
<1>7. CASE TransitionToFailed
  BY <1>7 DEF TransitionToFailed
<1>8. CASE LeaseExpires
  BY <1>8 DEF LeaseExpires
<1> QED BY <1>1, <1>2, <1>3, <1>4, <1>5, <1>6, <1>7, <1>8

\* A step that leaves the store alone keeps its invariant.
LEMMA StoreStutter == StoreInv /\ UNCHANGED storeVars => StoreInv'
  BY DEF storeVars, StoreInv, StoreTypeOK, Interlock, OneUnresolved,
     ActiveOwnership, CompletedIntentTerminal, LeaseOwned, OperationStateValid,
     StartUnresolved, Unresolved

\* Every operation of the store keeps its invariant.
LEMMA StoreStep == StoreInv /\ [StoreNext]_storeVars => StoreInv'
  BY StartTransactions, EndTransactions, StoreStutter DEF StoreNext

\* The store invariant is inductive.
LEMMA StoreInvariant == StoreSpec => []StoreInv
  BY StoreInitInv, StoreStep, PTL DEF StoreSpec

\* The rows always hold values of their columns.
THEOREM StoreTypeCorrect == StoreSpec => []StoreTypeOK
  BY StoreInvariant, PTL DEF StoreInv

\* The start/end interlock of BeginStartOperation and SaveEndIntent.
THEOREM InterlockHolds == StoreSpec => []Interlock
  BY StoreInvariant, PTL DEF StoreInv

\* Exactly one operation activates a session, at most one is ever unresolved.
THEOREM OwnershipHolds == StoreSpec => [](OneUnresolved /\ ActiveOwnership)
  BY StoreInvariant, PTL DEF StoreInv

\* Completed end intents belong to terminal sessions; leases to open intents.
THEOREM IntentHolds == StoreSpec => [](CompletedIntentTerminal /\ LeaseOwned)
  BY StoreInvariant, PTL DEF StoreInv

\* No transaction ever violates the CHECK constraint on operation rows.
THEOREM OperationStateHolds == StoreSpec => []OperationStateValid
  BY StoreInvariant, PTL DEF StoreInv

-----------------------------------------------------------------------------
\* The action of Settled, by name.
SettledAction ==
    /\ status \in Terminal => status' = status
    /\ intent = "done" => intent' = "done"
    /\ \A k \in Keys :
        /\ opStatus[k] \in {"completed", "compensated"} => opStatus'[k] = opStatus[k]
        /\ opClaim[k] # None => opClaim'[k] = opClaim[k]

\* The claim of a pending row is NULL (OperationStateValid), so granting one
\* overwrites nobody's; the other transactions do not write it.
LEMMA SettledStep == StoreInv /\ [StoreNext]_storeVars => [SettledAction]_storeVars
<1> SUFFICES ASSUME StoreInv, StoreNext PROVE SettledAction
  OBVIOUS
<1> USE DEF SettledAction, StoreInv, StoreTypeOK, OperationStateValid, Terminal
<1>1. ASSUME NEW k \in Keys,
             \/ BeginStartOperation(k) \/ TransitionToActive(k)
             \/ \E c \in Actors : \/ ClaimStartCompensation(k, c)
                                  \/ CompleteStartCompensation(k, c)
                                  \/ FailStartCompensation(k, c)
      PROVE  SettledAction
  BY <1>1 DEF BeginStartOperation, TransitionToActive, ClaimStartCompensation,
     CompleteStartCompensation, FailStartCompensation, ClaimHolds, Completable, Failable
<1>2. CASE \/ \E a \in Actors : \/ SaveEndIntent(a) \/ ClaimPendingEndIntent(a)
                                 \/ RetryClaimedEndIntent(a)
                                 \/ CompleteClaimedEndIntent(a)
           \/ CompleteEndIntent
  BY <1>2 DEF SaveEndIntent, ClaimPendingEndIntent, RetryClaimedEndIntent,
     CompleteClaimedEndIntent, CompleteEndIntent
<1>3. CASE \/ \E expected \in {"created", "active"} : TransitionToEnded(expected)
           \/ TransitionToFailed \/ LeaseExpires
  BY <1>3 DEF TransitionToEnded, TransitionToFailed, LeaseExpires
<1> QED BY <1>1, <1>2, <1>3 DEF StoreNext

\* Terminal sessions, finished operations, completed intents and claim holders
\* never change again.
THEOREM SettledForGood == StoreSpec => Settled
<1>1. StoreInv /\ [StoreNext]_storeVars =>
        [ /\ status \in Terminal => status' = status
          /\ intent = "done" => intent' = "done"
          /\ \A k \in Keys :
              /\ opStatus[k] \in {"completed", "compensated"} =>
                  opStatus'[k] = opStatus[k]
              /\ opClaim[k] # None => opClaim'[k] = opClaim[k]
        ]_storeVars
  BY SettledStep DEF SettledAction
<1> QED BY <1>1, StoreInvariant, PTL DEF StoreSpec, Settled
=============================================================================
