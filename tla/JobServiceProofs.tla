-------------------------- MODULE JobServiceProofs ---------------------------
(***************************************************************************)
(* The store of Jobs and the executions of the Host stay consistent for any *)
(* number of Jobs, attempts, keys and limits, with or without store faults. *)
(***************************************************************************)
EXTENDS JobService, FiniteSetTheorems, TLAPS

\* What the tables alone do not say: a task that has not returned is one of the
\* current attempt, that attempt was claimed for it, and a Job that was never
\* requested has no history.
Started ==
    \A j \in Jobs :
        /\ Live(j) =>
            running[j] = current[j] /\ CurrentState(j) \notin {"none", "reserved"}
        /\ intent[j] = "none" => current[j] = 1

Records == TypeOK /\ RecordsAgree /\ OneWorkerPerAttempt

IInv == Records /\ Started /\ KeyExcludes

------------------------------------------------------------------------------
\* Keys

\* A Job gives up its key and its task freely, and may end uncertain only by
\* giving up a pending intent.
LEMMA KeysReleased ==
    ASSUME KeyExcludes,
           \A k \in Jobs : intent'[k] = "pending" => intent[k] = "pending",
           \A k \in Jobs : Uncertain(k)' => Uncertain(k) \/ intent[k] = "pending",
           \A k \in Jobs : Live(k)' => Live(k)
    PROVE  KeyExcludes'
  BY DEF KeyExcludes, SameKey

\* A Job that finds its key free may claim it.
LEMMA KeyClaimed ==
    ASSUME KeyExcludes, NEW j \in Jobs, KeyFree(j),
           \A k \in Jobs : k # j /\ intent'[k] = "pending" => intent[k] = "pending",
           \A k \in Jobs : Uncertain(k)' => Uncertain(k),
           \A k \in Jobs : Live(k)' => Live(k)
    PROVE  KeyExcludes'
  BY DEF KeyExcludes, SameKey, KeyFree, HoldsKey

\* Nothing that decides about uncertainty changes.
LEMMA UncertainSame ==
    ASSUME attempt' = attempt, reconciled' = reconciled, NEW k \in Jobs
    PROVE  Uncertain(k)' <=> Uncertain(k)
  BY Zenon DEF Uncertain, Numbers

\* An update of one attempt makes no Job uncertain, except its own if it is set
\* to "unknown".
LEMMA UncertainAfterSet ==
    ASSUME TypeOK, NEW j \in Jobs, NEW n \in Numbers(j), NEW s,
           attempt' = [attempt EXCEPT ![j][n] = s], reconciled' = reconciled
    PROVE  \A k \in Jobs : Uncertain(k)' => Uncertain(k) \/ (k = j /\ s = "unknown")
<1> SUFFICES ASSUME NEW k \in Jobs, Uncertain(k)'
             PROVE  Uncertain(k) \/ (k = j /\ s = "unknown")
  OBVIOUS
<1>1. PICK m \in Numbers(k) : attempt'[k][m] = "unknown" /\ <<k, m>> \notin reconciled
  BY Zenon DEF Uncertain, Numbers
<1>2. CASE attempt[k][m] = "unknown"
  BY <1>1, <1>2, Zenon DEF Uncertain
<1>3. CASE attempt[k][m] # "unknown"
  BY <1>1, <1>3 DEF TypeOK
<1> QED  BY <1>2, <1>3

------------------------------------------------------------------------------
\* Operations on the store

\* A new attempt is reserved on top of known failures, or as the first.
LEMMA AttemptInserted ==
    ASSUME IInv, NEW j \in Jobs, NEW n \in Numbers(j),
           InsertAttempt(j, n), KeyFree(j), ~Live(j),
           \/ intent[j] = "none" /\ n = 1
           \/ intent[j] = "failed" /\ n = current[j] + 1,
           UNCHANGED <<open, closed, acked, input, result, reconciled, executions>>
    PROVE  IInv'
<1> USE LimitsAssumption DEF IInv, Records, InsertAttempt, SetIntent, CurrentState, executions
<1>1. TypeOK'
  BY DEF TypeOK, AttemptStates, Numbers
<1>2. /\ current' = [current EXCEPT ![j] = n] /\ intent' = [intent EXCEPT ![j] = "pending"]
      /\ attempt' = [attempt EXCEPT ![j][n] = "reserved"]
  OBVIOUS
<1>3. attempt[j][n] = "none" /\ n >= current[j] /\ \A m \in Numbers(j) : m < n => attempt[j][m] = "failed"
  BY DEF TypeOK, RecordsAgree, Agrees, Started, Numbers
<1>4. RecordsAgree'
  <2> SUFFICES ASSUME NEW k \in Jobs
               PROVE  /\ Agrees(intent'[k], attempt'[k][current'[k]])
                      /\ \A m \in Numbers(k) :
                          /\ m < current'[k] => attempt'[k][m] = "failed"
                          /\ m > current'[k] => attempt'[k][m] = "none"
                          /\ attempt'[k][m] = "completed" <=> result[k][m] # NoResult
                      /\ k \in acked => intent'[k] = "completed"
    BY DEF RecordsAgree, TypeOK
  <2>1. CASE k = j
    BY <1>2, <1>3, <2>1 DEF TypeOK, RecordsAgree, Agrees, Numbers
  <2>2. CASE k # j
    BY <1>2, <2>2 DEF TypeOK, RecordsAgree
  <2> QED  BY <2>1, <2>2
<1>5. OneWorkerPerAttempt'
  <2> SUFFICES ASSUME NEW k \in Jobs, NEW m \in Numbers(k)
               PROVE  /\ workers[k][m] <= 1
                      /\ attempt'[k][m] \in {"none", "reserved"} => workers[k][m] = 0
                      /\ attempt'[k][m] \in {"dispatched", "completed", "failed", "unknown"}
                            => workers[k][m] = 1
    BY DEF OneWorkerPerAttempt
  <2>1. attempt'[k][m] = attempt[k][m] \/ (k = j /\ m = n /\ attempt'[k][m] = "reserved")
    BY <1>2 DEF TypeOK
  <2> QED  BY <1>3, <2>1 DEF OneWorkerPerAttempt
<1>6. Started'
  BY <1>2 DEF TypeOK, Started, Live
<1>7. KeyExcludes'
  <2>1. \A k \in Jobs : Uncertain(k)' => Uncertain(k)
    <3>1. \A k \in Jobs : Uncertain(k)' => Uncertain(k) \/ (k = j /\ "reserved" = "unknown")
      <4> HIDE DEF IInv, Records, InsertAttempt
      <4>1. TypeOK /\ reconciled' = reconciled
        BY DEF IInv, Records
      <4> QED  BY <1>2, <4>1, UncertainAfterSet, Zenon
    <3> QED  BY <3>1
  <2>2. \A k \in Jobs : Live(k)' => Live(k)
    BY DEF Live
  <2>3. \A k \in Jobs : k # j /\ intent'[k] = "pending" => intent[k] = "pending"
    BY <1>2 DEF TypeOK
  <2> QED  BY <2>1, <2>2, <2>3, KeyClaimed
<1> QED  BY <1>1, <1>4, <1>5, <1>6, <1>7

\* A Job that was never requested has no task and no attempt.
LEMMA RequestStep == ASSUME IInv, NEW j \in Jobs, Request(j) PROVE IInv'
<1>1. 1 \in Numbers(j)
  BY LimitsAssumption DEF Numbers
<1>2. ~Live(j)
  BY DEF Request, IInv, Records, RecordsAgree, Agrees, Started, CurrentState
<1> QED  BY <1>1, <1>2, AttemptInserted DEF Request

\* A retry follows a known failure whose task has returned.
LEMMA RetryStep == ASSUME IInv, NEW j \in Jobs, Retry(j) PROVE IInv'
<1>1. current[j] + 1 \in Numbers(j)
  BY LimitsAssumption DEF Numbers, Retry, IInv, Records, TypeOK
<1> QED  BY <1>1, AttemptInserted DEF Retry

\* The current attempt ends without a result: it was claimed, or the Job is
\* cancelled, and no task gets ahead of the record.
LEMMA AttemptSettled ==
    ASSUME IInv, NEW j \in Jobs, NEW s \in {"failed", "unknown", "cancelled"},
           SetTerminal(j, s),
           \/ intent[j] = "pending" /\ CurrentState(j) = "dispatched"
           \/ intent[j] \in {"pending", "failed"} /\ s = "cancelled",
           \A k \in Jobs : Live(k)' => Live(k),
           UNCHANGED <<current, acked, result, reconciled, running, workers>>
    PROVE  /\ intent' \in [Jobs -> {"none", "pending", "completed", "failed", "unknown", "cancelled"}]
           /\ DOMAIN attempt' = Jobs
           /\ \A k \in Jobs : attempt'[k] \in [Numbers(k) -> AttemptStates]
           /\ RecordsAgree' /\ OneWorkerPerAttempt' /\ Started' /\ KeyExcludes'
<1> DEFINE n == current[j]
<1>1. /\ intent' = [intent EXCEPT ![j] = s] /\ attempt' = [attempt EXCEPT ![j][n] = s]
      /\ n \in Numbers(j) /\ TypeOK /\ reconciled' = reconciled
  BY DEF SetTerminal, SetIntent, SetCurrent, IInv, Records, TypeOK
<1>2. /\ intent' \in [Jobs -> {"none", "pending", "completed", "failed", "unknown", "cancelled"}]
      /\ DOMAIN attempt' = Jobs
      /\ \A k \in Jobs : attempt'[k] \in [Numbers(k) -> AttemptStates]
  BY <1>1 DEF TypeOK, AttemptStates
<1>3. \A k \in Jobs : \A m \in Numbers(k) :
        attempt'[k][m] = attempt[k][m] \/ (k = j /\ m = n /\ attempt'[k][m] = s)
  BY <1>1 DEF TypeOK
<1>4. attempt'[j][n] = s /\ result[j][n] = NoResult /\ j \notin acked
  BY <1>1 DEF IInv, Records, TypeOK, RecordsAgree, Agrees, CurrentState
<1>5. RecordsAgree'
  <2> SUFFICES ASSUME NEW k \in Jobs
               PROVE  /\ Agrees(intent'[k], attempt'[k][current[k]])
                      /\ \A m \in Numbers(k) :
                          /\ m < current[k] => attempt'[k][m] = "failed"
                          /\ m > current[k] => attempt'[k][m] = "none"
                          /\ attempt'[k][m] = "completed" <=> result[k][m] # NoResult
                      /\ k \in acked => intent'[k] = "completed"
    BY <1>1 DEF RecordsAgree, CurrentState, TypeOK
  <2>1. CASE k = j
    BY <1>1, <1>3, <1>4, <2>1 DEF IInv, Records, TypeOK, RecordsAgree, Agrees, Numbers
  <2>2. CASE k # j
    BY <1>1, <2>2 DEF IInv, Records, TypeOK, RecordsAgree, CurrentState
  <2> QED  BY <2>1, <2>2
<1>6. OneWorkerPerAttempt'
  <2>1. s # "cancelled" => workers[j][n] = 1
    BY <1>1 DEF IInv, Records, OneWorkerPerAttempt, CurrentState
  <2> QED  BY <1>3, <2>1 DEF IInv, Records, OneWorkerPerAttempt
<1>7. Started'
  BY <1>1, <1>3, <1>4 DEF IInv, Records, Started, TypeOK, CurrentState
<1>8. KeyExcludes'
  <2>1. \A k \in Jobs : Uncertain(k)' => Uncertain(k) \/ (k = j /\ s = "unknown")
    <3> HIDE DEF n
    <3> QED  BY <1>1, UncertainAfterSet, Zenon
  <2>2. \A k \in Jobs : Uncertain(k)' => Uncertain(k) \/ intent[k] = "pending"
    BY <2>1
  <2>3. \A k \in Jobs : intent'[k] = "pending" => intent[k] = "pending"
    BY <1>1 DEF TypeOK
  <2> QED  BY <2>2, <2>3, KeysReleased DEF IInv
<1> QED  BY <1>2, <1>5, <1>6, <1>7, <1>8

\* The tables stay as they are and no task appears.
LEMMA StoreUntouched ==
    ASSUME IInv, UNCHANGED <<intent, current, attempt, result, reconciled, running, workers>>,
           \A k \in Jobs : Live(k)' => Live(k),
           \A k \in acked' : k \in Jobs /\ intent[k] = "completed"
    PROVE  RecordsAgree' /\ OneWorkerPerAttempt' /\ Started' /\ KeyExcludes'
<1>1. RecordsAgree' /\ OneWorkerPerAttempt' /\ Started'
  BY DEF IInv, Records, RecordsAgree, OneWorkerPerAttempt, Started, CurrentState
<1>2. \A k \in Jobs : Uncertain(k)' => Uncertain(k)
  <2> SUFFICES ASSUME NEW k \in Jobs PROVE Uncertain(k)' => Uncertain(k)
    OBVIOUS
  <2> attempt' = attempt /\ reconciled' = reconciled
    OBVIOUS
  <2> QED  BY UncertainSame, Zenon
<1>3. KeyExcludes'
  BY <1>2, KeysReleased DEF IInv
<1> QED  BY <1>1, <1>3

\* Only a completed Job is acknowledged.
LEMMA AcknowledgeStep == ASSUME IInv, NEW j \in Jobs, Acknowledge(j) PROVE IInv'
<1>1. TypeOK'
  BY DEF IInv, Records, TypeOK, Acknowledge, stored, executions
<1>2. RecordsAgree' /\ OneWorkerPerAttempt' /\ Started' /\ KeyExcludes'
  BY StoreUntouched DEF Acknowledge, stored, executions, Live, IInv, Records, TypeOK, RecordsAgree
<1> QED  BY <1>1, <1>2 DEF IInv, Records

\* Retiring an input changes no outcome.
LEMMA ReclaimInputStep == ASSUME IInv, NEW j \in Jobs, NEW d \in Retirements, ReclaimInput(j, d) PROVE IInv'
<1>1. TypeOK'
  BY DEF IInv, Records, TypeOK, ReclaimInput, stored, executions
<1>2. RecordsAgree' /\ OneWorkerPerAttempt' /\ Started' /\ KeyExcludes'
  BY StoreUntouched DEF ReclaimInput, stored, executions, Live, IInv, Records, TypeOK, RecordsAgree
<1> QED  BY <1>1, <1>2 DEF IInv, Records

\* A reconciliation only makes Jobs less uncertain.
LEMMA ReconcileStep == ASSUME IInv, NEW j \in Jobs, Reconcile(j) PROVE IInv'
<1>1. TypeOK'
  BY DEF IInv, Records, TypeOK, Reconcile, executions
<1>2. RecordsAgree' /\ OneWorkerPerAttempt' /\ Started'
  BY DEF IInv, Records, RecordsAgree, OneWorkerPerAttempt, Started, CurrentState, Live,
         Reconcile, executions
<1>3. KeyExcludes'
  <2>1. attempt' = attempt /\ reconciled \subseteq reconciled'
    BY DEF Reconcile
  <2>2. \A k \in Jobs : Uncertain(k)' => Uncertain(k)
    BY <2>1, Zenon DEF Uncertain, Numbers
  <2>3. \A k \in Jobs : Live(k)' => Live(k)
    BY DEF Reconcile, executions, Live
  <2> QED  BY <2>2, <2>3, KeysReleased DEF IInv, Reconcile
<1> QED  BY <1>1, <1>2, <1>3 DEF IInv, Records

\* A cancellation ends a pending or failed Job, relabels the intent of an unknown
\* one, and leaves a completed one alone.
LEMMA CancelStep == ASSUME IInv, NEW j \in Jobs, Cancel(j) PROVE IInv'
<1>0. \A k \in Jobs : Live(k)' => Live(k)
  BY DEF Cancel, Live
<1>1. CASE intent[j] = "unknown" /\ SetIntent(j, "cancelled") /\ UNCHANGED attempt
  <2>1. TypeOK'
    BY <1>1 DEF IInv, Records, TypeOK, Cancel, SetIntent
  <2>2. RecordsAgree' /\ OneWorkerPerAttempt' /\ Started'
    BY <1>1 DEF IInv, Records, TypeOK, RecordsAgree, Agrees, OneWorkerPerAttempt, Started,
                CurrentState, Live, Cancel, SetIntent
  <2>3. KeyExcludes'
    <3>1. \A k \in Jobs : Uncertain(k)' => Uncertain(k)
      <4> attempt' = attempt /\ reconciled' = reconciled
        BY <1>1 DEF Cancel
      <4> QED  BY UncertainSame, Zenon
    <3>2. \A k \in Jobs : intent'[k] = "pending" => intent[k] = "pending"
      BY <1>1 DEF SetIntent, IInv, Records, TypeOK
    <3> QED  BY <1>0, <3>1, <3>2, KeysReleased DEF IInv
  <2> QED  BY <2>1, <2>2, <2>3 DEF IInv, Records
<1>2. CASE intent[j] \in {"completed", "cancelled"} /\ UNCHANGED <<intent, attempt>>
  <2>1. TypeOK'
    BY <1>2 DEF IInv, Records, TypeOK, Cancel
  <2>2. RecordsAgree' /\ OneWorkerPerAttempt' /\ Started' /\ KeyExcludes'
    BY <1>0, <1>2, StoreUntouched DEF Cancel, IInv, Records, TypeOK, RecordsAgree
  <2> QED  BY <2>1, <2>2 DEF IInv, Records
<1>3. CASE intent[j] \in {"pending", "failed"} /\ SetTerminal(j, "cancelled")
  <2>1. /\ intent' \in [Jobs -> {"none", "pending", "completed", "failed", "unknown", "cancelled"}]
        /\ DOMAIN attempt' = Jobs
        /\ \A k \in Jobs : attempt'[k] \in [Numbers(k) -> AttemptStates]
        /\ RecordsAgree' /\ OneWorkerPerAttempt' /\ Started' /\ KeyExcludes'
    BY <1>0, <1>3, AttemptSettled DEF Cancel
  <2>2. TypeOK'
    BY <2>1 DEF IInv, Records, TypeOK, Cancel
  <2> QED  BY <2>1, <2>2 DEF IInv, Records
<1> QED  BY <1>1, <1>2, <1>3 DEF Cancel

\* A result is accepted for the attempt that is dispatched, together with the
\* success it proves.
LEMMA SubmitStep == ASSUME IInv, NEW j \in Jobs, NEW r \in Results, Submit(j, r) PROVE IInv'
<1> USE DEF Submit, SetTerminal, SetIntent, SetCurrent, CurrentState, executions, IInv, Records
<1>1. TypeOK'
  BY DEF TypeOK, AttemptStates
<1>2. RecordsAgree'
  <2> SUFFICES ASSUME NEW k \in Jobs
               PROVE  /\ Agrees(intent'[k], attempt'[k][current[k]])
                      /\ \A m \in Numbers(k) :
                          /\ m < current[k] => attempt'[k][m] = "failed"
                          /\ m > current[k] => attempt'[k][m] = "none"
                          /\ attempt'[k][m] = "completed" <=> result'[k][m] # NoResult
                      /\ k \in acked => intent'[k] = "completed"
    BY DEF RecordsAgree, TypeOK
  <2>1. CASE k = j
    <3>1. /\ intent'[j] = "completed" /\ attempt'[j][current[j]] = "completed"
          /\ result'[j][current[j]] = r /\ r # NoResult /\ current[j] \in Numbers(j)
      BY ResultsAssumption DEF TypeOK
    <3>2. \A m \in Numbers(j) : m # current[j] =>
            attempt'[j][m] = attempt[j][m] /\ result'[j][m] = result[j][m]
      BY DEF TypeOK
    <3> HIDE DEF Submit
    <3>3. \A m \in Numbers(j) :
            /\ m < current[j] => attempt'[j][m] = "failed"
            /\ m > current[j] => attempt'[j][m] = "none"
      BY <3>1, <3>2, LimitsAssumption DEF RecordsAgree, Numbers
    <3>4. \A m \in Numbers(j) : attempt'[j][m] = "completed" <=> result'[j][m] # NoResult
      BY <3>1, <3>2 DEF RecordsAgree
    <3> QED  BY <2>1, <3>1, <3>3, <3>4 DEF Agrees
  <2>2. CASE k # j
    BY <2>2 DEF TypeOK, RecordsAgree
  <2> QED  BY <2>1, <2>2
<1>3. OneWorkerPerAttempt'
  BY DEF TypeOK, OneWorkerPerAttempt
<1>4. Started'
  BY DEF TypeOK, Started, Live
<1>5. KeyExcludes'
  <2>1. \A k \in Jobs : Uncertain(k)' => Uncertain(k) \/ (k = j /\ "completed" = "unknown")
    <3>1. /\ TypeOK /\ reconciled' = reconciled /\ current[j] \in Numbers(j)
          /\ attempt' = [attempt EXCEPT ![j][current[j]] = "completed"]
      BY DEF TypeOK
    <3> HIDE DEF Submit, SetTerminal, SetIntent, SetCurrent, IInv, Records
    <3> QED  BY <3>1, UncertainAfterSet, Zenon
  <2>2. \A k \in Jobs : Uncertain(k)' => Uncertain(k)
    BY <2>1
  <2>3. \A k \in Jobs : (Live(k)' => Live(k)) /\ (intent'[k] = "pending" => intent[k] = "pending")
    BY DEF Live, TypeOK
  <2> HIDE DEF Submit
  <2> QED  BY <2>2, <2>3, KeysReleased
<1> QED  BY <1>1, <1>2, <1>3, <1>4, <1>5

------------------------------------------------------------------------------
\* Executions

\* A start claims a reserved attempt that has no Worker yet, on a free key.
LEMMA SpawnStep == ASSUME IInv, NEW j \in Jobs, Start(j), Spawn(j) PROVE IInv'
<1> USE DEF Start, Spawn, Pruned, SetCurrent, CurrentState, IInv, Records
<1>1. TypeOK'
  BY DEF TypeOK, AttemptStates
<1>2. /\ intent[j] = "pending" /\ attempt[j][current[j]] = "reserved" /\ ~Live(j)
      /\ \A k \in Jobs : SameKey(j, k) => ~Live(k)
  BY DEF Dispatchable, Startable
<1>3. \A k \in Jobs : k # j /\ Live(k)' => Live(k)
  BY DEF Live, TypeOK
<1>4. RecordsAgree'
  BY <1>2 DEF TypeOK, RecordsAgree, Agrees, Numbers
<1>5. OneWorkerPerAttempt'
  BY <1>2 DEF TypeOK, OneWorkerPerAttempt
<1>6. Started'
  <2> SUFFICES ASSUME NEW k \in Jobs
               PROVE  /\ Live(k)' => /\ running'[k] = current[k]
                                     /\ attempt'[k][current[k]] \notin {"none", "reserved"}
                      /\ intent[k] = "none" => current[k] = 1
    BY DEF Started
  <2>1. CASE k = j
    BY <1>2, <2>1 DEF TypeOK, Started
  <2>2. CASE k # j
    BY <1>3, <2>2 DEF TypeOK, Started
  <2> QED  BY <2>1, <2>2
<1>7. KeyExcludes'
  <2>1. \A k \in Jobs : Uncertain(k)' => Uncertain(k) \/ (k = j /\ "dispatched" = "unknown")
    <3>1. /\ TypeOK /\ reconciled' = reconciled /\ current[j] \in Numbers(j)
          /\ attempt' = [attempt EXCEPT ![j][current[j]] = "dispatched"]
      BY DEF TypeOK
    <3> HIDE DEF Start, Spawn, IInv, Records
    <3> QED  BY <3>1, UncertainAfterSet, Zenon
  <2>2. \A k \in Jobs : Uncertain(k)' => Uncertain(k)
    BY <2>1
  <2> HIDE DEF Spawn
  <2> QED  BY <1>2, <1>3, <2>2 DEF KeyExcludes, SameKey
<1> QED  BY <1>1, <1>4, <1>5, <1>6, <1>7

\* A refused start forgets only executions that have returned.
LEMMA RefuseStartStep == ASSUME IInv, NEW j \in Jobs, Start(j), RefuseStart(j) PROVE IInv'
<1>1. TypeOK'
  BY DEF IInv, Records, TypeOK, Start, RefuseStart, Pruned
<1>2. \A k \in Jobs : Live(k)' => Live(k)
  BY DEF Live, RefuseStart, Pruned, IInv, Records, TypeOK
<1>3. RecordsAgree' /\ OneWorkerPerAttempt' /\ Started' /\ KeyExcludes'
  BY <1>2, StoreUntouched DEF Start, RefuseStart, IInv, Records, TypeOK, RecordsAgree
<1> QED  BY <1>1, <1>3 DEF IInv, Records

\* How the end of a task is recorded, whatever becomes of the task itself.
LEMMA FinishRecorded ==
    ASSUME IInv, NEW j \in Jobs, NEW s \in {"failed", "unknown"}, Live(j),
           FinishIfPending(j, s) \/ FinishFails(j),
           \A k \in Jobs : Live(k)' => Live(k),
           UNCHANGED <<current, acked, result, reconciled, running, workers>>
    PROVE  /\ intent' \in [Jobs -> {"none", "pending", "completed", "failed", "unknown", "cancelled"}]
           /\ DOMAIN attempt' = Jobs
           /\ \A k \in Jobs : attempt'[k] \in [Numbers(k) -> AttemptStates]
           /\ RecordsAgree' /\ OneWorkerPerAttempt' /\ Started' /\ KeyExcludes'
<1>1. CASE intent[j] = "pending" /\ SetTerminal(j, s)
  <2>1. CurrentState(j) = "dispatched"
    BY <1>1 DEF IInv, Records, Started, RecordsAgree, Agrees
  <2> QED  BY <1>1, <2>1, AttemptSettled
<1>2. CASE UNCHANGED <<intent, attempt>>
  <2>1. RecordsAgree' /\ OneWorkerPerAttempt' /\ Started' /\ KeyExcludes'
    BY <1>2, StoreUntouched DEF IInv, Records, TypeOK, RecordsAgree
  <2> QED  BY <1>2, <2>1 DEF IInv, Records, TypeOK
<1> QED  BY <1>1, <1>2 DEF FinishIfPending, FinishFails

\* A run that returns settles its own attempt or none.
LEMMA RunEndsStep == ASSUME IInv, NEW j \in Jobs, RunEnds(j) PROVE IInv'
<1>1. PICK s \in {"failed", "unknown"} : FinishIfPending(j, s) \/ FinishFails(j)
  BY DEF RunEnds
<1>2. \A k \in Jobs : Live(k)' => Live(k)
  BY DEF RunEnds, SetPhase, Live, IInv, Records, TypeOK
<1>3. /\ intent' \in [Jobs -> {"none", "pending", "completed", "failed", "unknown", "cancelled"}]
      /\ DOMAIN attempt' = Jobs
      /\ \A k \in Jobs : attempt'[k] \in [Numbers(k) -> AttemptStates]
      /\ RecordsAgree' /\ OneWorkerPerAttempt' /\ Started' /\ KeyExcludes'
  BY <1>1, <1>2, FinishRecorded DEF RunEnds, SetPhase, Live
<1>4. TypeOK'
  BY <1>3 DEF RunEnds, SetPhase, IInv, Records, TypeOK
<1> QED  BY <1>3, <1>4 DEF IInv, Records

\* An interrupted run settles its own attempt or none.
LEMMA InterruptStep == ASSUME IInv, NEW j \in Jobs, Interrupt(j) PROVE IInv'
<1>1. PICK s \in {"failed", "unknown"} : FinishIfPending(j, s) \/ FinishFails(j)
  BY DEF Interrupt
<1>2. \A k \in Jobs : Live(k)' => Live(k)
  BY DEF Interrupt, SetPhase, Live, IInv, Records, TypeOK
<1>3. /\ intent' \in [Jobs -> {"none", "pending", "completed", "failed", "unknown", "cancelled"}]
      /\ DOMAIN attempt' = Jobs
      /\ \A k \in Jobs : attempt'[k] \in [Numbers(k) -> AttemptStates]
      /\ RecordsAgree' /\ OneWorkerPerAttempt' /\ Started' /\ KeyExcludes'
  BY <1>1, <1>2, FinishRecorded DEF Interrupt, SetPhase, Live
<1>4. TypeOK'
  BY <1>3 DEF Interrupt, SetPhase, IInv, Records, TypeOK
<1> QED  BY <1>3, <1>4 DEF IInv, Records

\* The end of a grace period is not visible in the store.
LEMMA StopEndsStep == ASSUME IInv, NEW j \in Jobs, StopEnds(j) PROVE IInv'
<1>1. TypeOK'
  BY DEF IInv, Records, TypeOK, StopEnds, SetPhase, stored
<1>2. RecordsAgree' /\ OneWorkerPerAttempt' /\ Started' /\ KeyExcludes'
  BY StoreUntouched DEF StopEnds, SetPhase, stored, Live, IInv, Records, TypeOK, RecordsAgree
<1> QED  BY <1>1, <1>2 DEF IInv, Records

\* Nor is the return of a task.
LEMMA TaskReturnsStep == ASSUME IInv, NEW j \in Jobs, TaskReturns(j) PROVE IInv'
<1>1. TypeOK'
  BY DEF IInv, Records, TypeOK, TaskReturns, SetPhase, stored
<1>2. RecordsAgree' /\ OneWorkerPerAttempt' /\ Started' /\ KeyExcludes'
  BY StoreUntouched DEF TaskReturns, SetPhase, stored, Live, IInv, Records, TypeOK, RecordsAgree
<1> QED  BY <1>1, <1>2 DEF IInv, Records

\* Nor is the observation of its end.
LEMMA WaitStep == ASSUME IInv, NEW j \in Jobs, Wait(j) PROVE IInv'
<1>1. TypeOK'
  BY DEF IInv, Records, TypeOK, Wait, SetPhase, stored
<1>2. RecordsAgree' /\ OneWorkerPerAttempt' /\ Started' /\ KeyExcludes'
  BY StoreUntouched DEF Wait, SetPhase, stored, Live, IInv, Records, TypeOK, RecordsAgree
<1> QED  BY <1>1, <1>2 DEF IInv, Records

------------------------------------------------------------------------------
\* The Host

\* Closing only signals the tasks.
LEMMA CloseStep == ASSUME IInv, Close PROVE IInv'
<1>1. TypeOK'
  BY DEF IInv, Records, TypeOK, Close, stored
<1>2. RecordsAgree' /\ OneWorkerPerAttempt' /\ Started' /\ KeyExcludes'
  BY StoreUntouched DEF Close, stored, Live, IInv, Records, TypeOK, RecordsAgree
<1> QED  BY <1>1, <1>2 DEF IInv, Records

\* A shutdown forgets executions that have returned.
LEMMA FinishShutdownStep == ASSUME IInv, FinishShutdown PROVE IInv'
<1>1. TypeOK'
  BY DEF IInv, Records, TypeOK, FinishShutdown, stored
<1>2. RecordsAgree' /\ OneWorkerPerAttempt' /\ Started' /\ KeyExcludes'
  BY StoreUntouched DEF FinishShutdown, stored, Live, IInv, Records, TypeOK, RecordsAgree
<1> QED  BY <1>1, <1>2 DEF IInv, Records

\* A crash ends all tasks and leaves the store as it is.
LEMMA CrashStep == ASSUME IInv, Crash PROVE IInv'
<1>1. TypeOK'
  BY DEF IInv, Records, TypeOK, Crash, stored
<1>2. RecordsAgree' /\ OneWorkerPerAttempt' /\ Started' /\ KeyExcludes'
  BY StoreUntouched DEF Crash, stored, Live, IInv, Records, TypeOK, RecordsAgree
<1> QED  BY <1>1, <1>2 DEF IInv, Records

\* Recovery turns each dispatched attempt, which is the current one of a pending
\* Job without a result, into an unknown one.
LEMMA ReopenStep == ASSUME IInv, Reopen PROVE IInv'
<1> USE DEF Reopen, Recover, Recovered, CurrentState, executions, IInv, Records
<1>1. TypeOK'
  BY DEF TypeOK, AttemptStates
<1>2. \A k \in Jobs : \A n \in Numbers(k) : attempt'[k][n] = Recovered(k, n)
  OBVIOUS
<1>3. \A k \in Jobs : \A n \in Numbers(k) :
        /\ attempt[k][n] = "dispatched" =>
            n = current[k] /\ intent[k] = "pending" /\ result[k][n] = NoResult /\ attempt'[k][n] = "unknown"
        /\ attempt[k][n] # "dispatched" => attempt'[k][n] = attempt[k][n]
  <2> TAKE k \in Jobs
  <2> TAKE n \in Numbers(k)
  <2>1. attempt[k][n] = "dispatched" => n = current[k]
    <3> HIDE DEF Reopen
    <3>1. n \in Nat /\ current[k] \in Nat
      BY LimitsAssumption DEF TypeOK, Numbers
    <3> QED  BY <3>1 DEF RecordsAgree
  <2>2. attempt[k][n] = "dispatched" => intent[k] = "pending" /\ result[k][n] = NoResult
    BY <2>1 DEF TypeOK, RecordsAgree, Agrees
  <2> QED  BY <1>2, <2>1, <2>2
<1>4. \A k \in Jobs :
        /\ attempt[k][current[k]] = "dispatched" => intent'[k] = "unknown"
        /\ attempt[k][current[k]] # "dispatched" => intent'[k] = intent[k]
  BY <1>2, <1>3 DEF TypeOK, RecordsAgree, Agrees
<1>5. RecordsAgree'
  <2> HIDE DEF Recover
  <2> SUFFICES ASSUME NEW k \in Jobs
               PROVE  /\ Agrees(intent'[k], attempt'[k][current[k]])
                      /\ \A m \in Numbers(k) :
                          /\ m < current[k] => attempt'[k][m] = "failed"
                          /\ m > current[k] => attempt'[k][m] = "none"
                          /\ attempt'[k][m] = "completed" <=> result[k][m] # NoResult
                      /\ k \in acked => intent'[k] = "completed"
    BY DEF RecordsAgree, TypeOK
  <2> QED  BY <1>3, <1>4 DEF TypeOK, RecordsAgree, Agrees
<1>6. OneWorkerPerAttempt'
  <2> HIDE DEF Recover
  <2> QED  BY <1>3 DEF OneWorkerPerAttempt
<1>7. Started'
  <2> HIDE DEF Recover
  <2> QED  BY <1>3, <1>4 DEF TypeOK, Started, Live
<1>8. KeyExcludes'
  <2> HIDE DEF Reopen, Recover, Recovered, IInv, Records
  <2>1. \A k \in Jobs : Uncertain(k)' => Uncertain(k) \/ intent[k] = "pending"
    <3> SUFFICES ASSUME NEW k \in Jobs, Uncertain(k)' PROVE Uncertain(k) \/ intent[k] = "pending"
      OBVIOUS
    <3>1. reconciled' = reconciled
      BY DEF Reopen
    <3>2. PICK m \in Numbers(k) : attempt'[k][m] = "unknown" /\ <<k, m>> \notin reconciled
      BY <3>1, Zenon DEF Uncertain, Numbers
    <3>3. CASE attempt[k][m] = "dispatched"
      BY <1>3, <3>3
    <3>4. CASE attempt[k][m] # "dispatched"
      BY <1>3, <3>2, <3>4, Zenon DEF Uncertain
    <3> QED  BY <3>3, <3>4
  <2>2. \A k \in Jobs : (Live(k)' => Live(k)) /\ (intent'[k] = "pending" => intent[k] = "pending")
    BY <1>4 DEF Live, Reopen
  <2> QED  BY <2>1, <2>2, KeysReleased DEF IInv
<1> QED  BY <1>1, <1>5, <1>6, <1>7, <1>8

------------------------------------------------------------------------------
\* The invariant

\* An empty store and no executions satisfy it.
LEMMA InitIInv == Init => IInv
<1> SUFFICES ASSUME Init PROVE IInv
  OBVIOUS
<1>1. TypeOK
  <2>1. \A j \in Jobs : 1 \in Numbers(j)
    BY LimitsAssumption DEF Numbers
  <2>2. \A j \in Jobs :
          /\ current[j] \in Numbers(j) /\ running[j] \in Numbers(j) \cup {0}
          /\ attempt[j] \in [Numbers(j) -> AttemptStates]
          /\ result[j] \in [Numbers(j) -> Results \cup {NoResult}]
          /\ workers[j] \in [Numbers(j) -> Nat]
    BY <2>1 DEF Init, AttemptStates
  <2>3. \A p \in reconciled : \E j \in Jobs : \E n \in Numbers(j) : p = <<j, n>>
    BY DEF Init
  <2> QED  BY <2>2, <2>3 DEF Init, TypeOK
<1>2. RecordsAgree /\ OneWorkerPerAttempt /\ Started
  BY LimitsAssumption DEF Init, RecordsAgree, Agrees, OneWorkerPerAttempt, Started, CurrentState,
                          Live, Numbers
<1>3. KeyExcludes
  BY DEF Init, KeyExcludes, Live
<1> QED  BY <1>1, <1>2, <1>3 DEF IInv, Records

\* Every step of the store, of a task and of the Host preserves it.
LEMMA NextIInv == IInv /\ [Next]_vars => IInv'
<1> SUFFICES ASSUME IInv, [Next]_vars PROVE IInv'
  OBVIOUS
<1>1. ASSUME NEW j \in Jobs, Request(j) PROVE IInv'
  BY <1>1, RequestStep
<1>2. ASSUME NEW j \in Jobs, Retry(j) PROVE IInv'
  BY <1>2, RetryStep
<1>3. ASSUME NEW j \in Jobs, Cancel(j) PROVE IInv'
  BY <1>3, CancelStep
<1>4. ASSUME NEW j \in Jobs, Acknowledge(j) PROVE IInv'
  BY <1>4, AcknowledgeStep
<1>5. ASSUME NEW j \in Jobs, Reconcile(j) PROVE IInv'
  BY <1>5, ReconcileStep
<1>6. ASSUME NEW j \in Jobs, NEW d \in Retirements, ReclaimInput(j, d) PROVE IInv'
  BY <1>6, ReclaimInputStep
<1>7. ASSUME NEW j \in Jobs, Start(j) PROVE IInv'
  BY <1>7, SpawnStep, RefuseStartStep DEF Start
<1>8. ASSUME NEW j \in Jobs, NEW r \in Results, Submit(j, r) PROVE IInv'
  BY <1>8, SubmitStep
<1>9. ASSUME NEW j \in Jobs, RunEnds(j) PROVE IInv'
  BY <1>9, RunEndsStep
<1>10. ASSUME NEW j \in Jobs, Interrupt(j) PROVE IInv'
  BY <1>10, InterruptStep
<1>11. ASSUME NEW j \in Jobs, StopEnds(j) PROVE IInv'
  BY <1>11, StopEndsStep
<1>12. ASSUME NEW j \in Jobs, TaskReturns(j) PROVE IInv'
  BY <1>12, TaskReturnsStep
<1>13. ASSUME NEW j \in Jobs, Wait(j) PROVE IInv'
  BY <1>13, WaitStep
<1>14. CASE Close
  BY <1>14, CloseStep
<1>15. CASE FinishShutdown
  BY <1>15, FinishShutdownStep
<1>16. CASE Crash
  BY <1>16, CrashStep
<1>17. CASE Reopen
  BY <1>17, ReopenStep
<1>18. CASE UNCHANGED vars
  <2>1. TypeOK'
    BY <1>18 DEF IInv, Records, TypeOK, vars, stored, executions
  <2>2. RecordsAgree' /\ OneWorkerPerAttempt' /\ Started' /\ KeyExcludes'
    BY <1>18, StoreUntouched DEF vars, stored, executions, Live, IInv, Records, TypeOK, RecordsAgree
  <2> QED  BY <2>1, <2>2 DEF IInv, Records
<1> QED  BY <1>1, <1>2, <1>3, <1>4, <1>5, <1>6, <1>7, <1>8, <1>9, <1>10, <1>11, <1>12, <1>13, <1>14, <1>15, <1>16, <1>17, <1>18 DEF Next

\* The invariant the theorems below are read off.
THEOREM JobInvariant == Spec => []IInv
  BY InitIInv, NextIInv, PTL DEF Spec

\* Every attempt the store or a task refers to lies within its Job's attempt
\* limit, and intents, attempts and tasks stay in their states.
THEOREM JobsTyped == Spec => []TypeOK
<1>1. IInv => TypeOK
  BY DEF IInv, Records
<1> QED  BY <1>1, JobInvariant, PTL

\* The two tables of the store never contradict each other, through requests,
\* retries, cancellations, late results, failed writes, crashes and recoveries.
THEOREM StoreRecordsAgree == Spec => []RecordsAgree
<1>1. IInv => RecordsAgree
  BY DEF IInv, Records
<1> QED  BY <1>1, JobInvariant, PTL

\* "One attempt has one Worker", for any number of Jobs, attempts and restarts.
THEOREM AttemptHasOneWorker == Spec => []OneWorkerPerAttempt
<1>1. IInv => OneWorkerPerAttempt
  BY DEF IInv, Records
<1> QED  BY <1>1, JobInvariant, PTL

\* Jobs of one serialization key exclude each other in the store and in memory.
THEOREM SerializationKeysExclude == Spec => []KeyExcludes
<1>1. IInv => KeyExcludes
  BY DEF IInv
<1> QED  BY <1>1, JobInvariant, PTL

------------------------------------------------------------------------------
\* Results and evidence

\* An attempt with a result is the current one of a completed Job, and one that
\* is unknown is the current one of an unknown or cancelled Job.
LEMMA EvidenceIsCurrent ==
    ASSUME IInv, NEW j \in Jobs, NEW n \in Numbers(j)
    PROVE  /\ result[j][n] # NoResult =>
                n = current[j] /\ attempt[j][n] = "completed" /\ intent[j] = "completed"
           /\ attempt[j][n] = "unknown" => n = current[j] /\ intent[j] \in {"unknown", "cancelled"}
<1>1. n \in Nat /\ current[j] \in Nat
  BY LimitsAssumption DEF IInv, Records, TypeOK, Numbers
<1>2. attempt[j][n] \in {"completed", "unknown"} => n = current[j]
  BY <1>1 DEF IInv, Records, RecordsAgree
<1> QED  BY <1>2 DEF IInv, Records, TypeOK, RecordsAgree, Agrees, CurrentState

\* A step that leaves the records of a Job alone keeps its evidence.
LEMMA UntouchedKeepsEvidence ==
    ASSUME IInv, NEW j \in Jobs, intent'[j] = intent[j], attempt'[j] = attempt[j],
           result'[j] = result[j], input'[j] = input[j]
    PROVE  KeepsEvidence(j)
  BY EvidenceIsCurrent DEF KeepsEvidence

\* Ending, claiming or replacing an attempt that has neither a result nor an
\* unknown outcome keeps all evidence.
LEMMA SetKeepsEvidence ==
    ASSUME IInv, NEW j \in Jobs, NEW m \in Numbers(j), NEW s, NEW i,
           NEW k \in Jobs,
           intent[j] \in {"none", "pending", "failed"},
           attempt' = [attempt EXCEPT ![j][m] = s], intent' = [intent EXCEPT ![j] = i],
           input' = input,
           \A h \in Jobs : \A n \in Numbers(h) : result[h][n] # NoResult => result'[h][n] = result[h][n]
    PROVE  KeepsEvidence(k)
<1>1. CASE k = j
  BY <1>1, EvidenceIsCurrent DEF KeepsEvidence
<1>2. CASE k # j
  BY <1>2, EvidenceIsCurrent DEF KeepsEvidence, IInv, Records, TypeOK
<1> QED  BY <1>1, <1>2

\* Accepted results, the success they prove, unknown outcomes and the retirement
\* of an input survive every later step.
THEOREM EvidenceIsKept == Spec => EvidenceKept
<1>1. ASSUME IInv, [Next]_vars PROVE \A k \in Jobs : KeepsEvidence(k)
  <2> SUFFICES ASSUME NEW k \in Jobs PROVE KeepsEvidence(k)
    OBVIOUS
  <2> USE <1>1
  <2>1. ASSUME NEW j \in Jobs, Request(j) \/ Retry(j) PROVE KeepsEvidence(k)
    <3>1. 1 \in Numbers(j) /\ (Retry(j) => current[j] + 1 \in Numbers(j))
      BY LimitsAssumption DEF Retry, Numbers, IInv, Records, TypeOK
    <3>2. \E n \in Numbers(j) : attempt' = [attempt EXCEPT ![j][n] = "reserved"]
      BY <2>1, <3>1 DEF Request, Retry, InsertAttempt
    <3>3. PICK n \in Numbers(j) : attempt' = [attempt EXCEPT ![j][n] = "reserved"]
      BY <3>2
    <3>4. /\ intent[j] \in {"none", "pending", "failed"} /\ intent' = [intent EXCEPT ![j] = "pending"]
          /\ input' = input /\ result' = result
      BY <2>1 DEF Request, Retry, InsertAttempt, SetIntent
    <3> QED  BY <3>3, <3>4, SetKeepsEvidence
  <2>2. ASSUME NEW j \in Jobs, Cancel(j) PROVE KeepsEvidence(k)
    <3>1. CASE intent[j] \in {"pending", "failed"} /\ SetTerminal(j, "cancelled")
      <4>1. /\ intent[j] \in {"none", "pending", "failed"}
            /\ intent' = [intent EXCEPT ![j] = "cancelled"]
            /\ attempt' = [attempt EXCEPT ![j][current[j]] = "cancelled"]
            /\ current[j] \in Numbers(j) /\ input' = input /\ result' = result
        BY <2>2, <3>1 DEF Cancel, SetTerminal, SetIntent, SetCurrent, IInv, Records, TypeOK
      <4> QED  BY <4>1, SetKeepsEvidence
    <3>2. CASE ~(intent[j] \in {"pending", "failed"} /\ SetTerminal(j, "cancelled"))
      BY <2>2, <3>2, EvidenceIsCurrent DEF KeepsEvidence, Cancel, SetIntent, IInv, Records, TypeOK
    <3> QED  BY <3>1, <3>2
  <2>3. ASSUME NEW j \in Jobs, Acknowledge(j) \/ Reconcile(j) PROVE KeepsEvidence(k)
    BY <2>3, UntouchedKeepsEvidence DEF Acknowledge, Reconcile
  <2>4. ASSUME NEW j \in Jobs, NEW d \in Retirements, ReclaimInput(j, d) PROVE KeepsEvidence(k)
    BY <2>4, EvidenceIsCurrent DEF KeepsEvidence, ReclaimInput, Retirements, IInv, Records, TypeOK
  <2>5. ASSUME NEW j \in Jobs, Start(j) PROVE KeepsEvidence(k)
    <3>1. CASE Spawn(j)
      <4>1. /\ intent[j] = "pending" /\ intent' = [intent EXCEPT ![j] = "pending"]
            /\ attempt' = [attempt EXCEPT ![j][current[j]] = "dispatched"]
            /\ current[j] \in Numbers(j) /\ input' = input /\ result' = result
        BY <2>5, <3>1 DEF Start, Spawn, Dispatchable, SetCurrent, IInv, Records, TypeOK
      <4> QED  BY <4>1, SetKeepsEvidence
    <3>2. CASE RefuseStart(j)
      BY <2>5, <3>2, UntouchedKeepsEvidence DEF Start, RefuseStart
    <3> QED  BY <2>5, <3>1, <3>2 DEF Start
  <2>6. ASSUME NEW j \in Jobs, NEW r \in Results, Submit(j, r) PROVE KeepsEvidence(k)
    <3>1. /\ intent[j] = "pending" /\ intent' = [intent EXCEPT ![j] = "completed"]
          /\ attempt' = [attempt EXCEPT ![j][current[j]] = "completed"]
          /\ current[j] \in Numbers(j) /\ input' = input
          /\ result' = [result EXCEPT ![j][current[j]] = r]
      BY <2>6 DEF Submit, SetTerminal, SetIntent, SetCurrent, IInv, Records, TypeOK
    <3>2. \A h \in Jobs : \A n \in Numbers(h) : result[h][n] # NoResult => result'[h][n] = result[h][n]
      BY <3>1, EvidenceIsCurrent DEF IInv, Records, TypeOK
    <3>3. intent[j] \in {"none", "pending", "failed"}
      BY <3>1
    <3> QED  BY <3>1, <3>2, <3>3, SetKeepsEvidence, Zenon
  <2>7. ASSUME NEW j \in Jobs, RunEnds(j) \/ Interrupt(j) PROVE KeepsEvidence(k)
    <3>1. PICK s \in {"failed", "unknown"} : FinishIfPending(j, s) \/ FinishFails(j)
      BY <2>7 DEF RunEnds, Interrupt
    <3>2. input' = input /\ result' = result /\ current[j] \in Numbers(j)
      BY <2>7 DEF RunEnds, Interrupt, IInv, Records, TypeOK
    <3>3. CASE intent[j] = "pending" /\ SetTerminal(j, s)
      <4>1. /\ intent[j] \in {"none", "pending", "failed"}
            /\ intent' = [intent EXCEPT ![j] = s]
            /\ attempt' = [attempt EXCEPT ![j][current[j]] = s]
        BY <3>3 DEF SetTerminal, SetIntent, SetCurrent
      <4>2. \A h \in Jobs : \A n \in Numbers(h) : result[h][n] # NoResult => result'[h][n] = result[h][n]
        BY <3>2
      <4> QED  BY <3>2, <4>1, <4>2, SetKeepsEvidence, Zenon
    <3>4. CASE UNCHANGED <<intent, attempt>>
      BY <3>2, <3>4, UntouchedKeepsEvidence
    <3> QED  BY <3>1, <3>3, <3>4 DEF FinishIfPending, FinishFails
  <2>8. ASSUME NEW j \in Jobs, StopEnds(j) \/ TaskReturns(j) \/ Wait(j) PROVE KeepsEvidence(k)
    BY <2>8, UntouchedKeepsEvidence DEF StopEnds, TaskReturns, Wait, stored
  <2>9. CASE Close \/ FinishShutdown \/ Crash \/ UNCHANGED vars
    BY <2>9, UntouchedKeepsEvidence DEF Close, FinishShutdown, Crash, vars, stored
  <2>10. CASE Reopen
    BY <2>10, EvidenceIsCurrent
       DEF KeepsEvidence, Reopen, Recover, Recovered, IInv, Records, TypeOK
  <2> QED  BY <1>1, <2>1, <2>2, <2>3, <2>4, <2>5, <2>6, <2>7, <2>8, <2>9, <2>10 DEF Next
<1>2. IInv /\ [Next]_vars => [StepKeepsEvidence]_vars
  BY <1>1 DEF StepKeepsEvidence
<1> QED  BY <1>2, JobInvariant, PTL DEF Spec, EvidenceKept

------------------------------------------------------------------------------
\* The Host's view of its tasks

\* Only a start that passed its checks makes a task appear.
LEMMA LiveGrowsBySpawn ==
    ASSUME TypeOK, [Next]_vars
    PROVE  \/ \A k \in Jobs : Live(k)' => Live(k)
           \/ \E j \in Jobs : Startable(j) /\ \A k \in Jobs : k # j /\ Live(k)' => Live(k)
<1>1. ASSUME NEW j \in Jobs, Start(j)
      PROVE  \/ \A k \in Jobs : Live(k)' => Live(k)
             \/ Startable(j) /\ \A k \in Jobs : k # j /\ Live(k)' => Live(k)
  <2>1. CASE Spawn(j)
    BY <2>1 DEF Spawn, Pruned, Live, TypeOK
  <2>2. CASE RefuseStart(j)
    BY <2>2 DEF RefuseStart, Pruned, Live, TypeOK
  <2> QED  BY <1>1, <2>1, <2>2 DEF Start
<1>2. ASSUME NEW j \in Jobs, RunEnds(j) \/ Interrupt(j) \/ StopEnds(j) \/ TaskReturns(j) \/ Wait(j)
      PROVE  \A k \in Jobs : Live(k)' => Live(k)
  BY <1>2 DEF RunEnds, Interrupt, StopEnds, TaskReturns, Wait, SetPhase, Live, TypeOK
<1>3. CASE UNCHANGED phase
  BY <1>3 DEF Live
<1>4. CASE phase' = [j \in Jobs |-> "none"]
  BY <1>4 DEF Live
<1>5. ASSUME NEW j \in Jobs,
             \/ Request(j) \/ Retry(j) \/ Cancel(j) \/ Acknowledge(j) \/ Reconcile(j)
             \/ \E d \in Retirements : ReclaimInput(j, d)
             \/ \E r \in Results : Submit(j, r)
      PROVE  UNCHANGED phase
  BY <1>5 DEF Request, Retry, Cancel, Acknowledge, Reconcile, ReclaimInput, Submit, executions
<1>6. CASE Close \/ FinishShutdown \/ Crash \/ Reopen \/ UNCHANGED vars
  BY <1>3, <1>4, <1>6 DEF Close, FinishShutdown, Crash, Reopen, vars, executions
<1> QED  BY <1>1, <1>2, <1>3, <1>5, <1>6 DEF Next

\* A set of tasks that is within the limits of all its members.
WithinLimits(S) == Cardinality(S) <= Capacity /\ \A j \in S : Cardinality(S) <= Limit[j]

\* A task appears only where there is room for it next to all others.
LEMMA CapacityStep == ASSUME TypeOK, CapacityRespected, [Next]_vars PROVE CapacityRespected'
<1> DEFINE S == {j \in Jobs : Live(j)}
           T == {j \in Jobs : Live(j)'}
<1>0. WithinLimits(S) /\ IsFiniteSet(S) /\ Cardinality(S) \in Nat
  <2>1. IsFiniteSet(S)
    BY JobsAssumption, FS_Subset
  <2> QED  BY <2>1, FS_CardinalityType DEF CapacityRespected, WithinLimits
<1>1. SUFFICES WithinLimits(T)
  BY DEF CapacityRespected, WithinLimits
<1>2. CASE \A k \in Jobs : Live(k)' => Live(k)
  <2>1. T \in SUBSET S
    BY <1>2
  <2> HIDE DEF S, T
  <2>2. IsFiniteSet(T) /\ Cardinality(T) <= Cardinality(S)
    BY <1>0, <2>1, FS_Subset
  <2>3. Cardinality(T) \in Nat
    BY <2>2, FS_CardinalityType
  <2>4. \A j \in S : Limit[j] \in Nat
    BY LimitsAssumption DEF S
  <2> QED  BY <1>0, <2>1, <2>2, <2>3, <2>4, LimitsAssumption DEF WithinLimits
<1>3. ASSUME NEW j \in Jobs, Startable(j), \A k \in Jobs : k # j /\ Live(k)' => Live(k)
      PROVE  WithinLimits(T)
  <2>1. T \in SUBSET (S \cup {j}) /\ Room(j, S)
    BY <1>3 DEF Startable
  <2>2. \A k \in S \cup {j} : Limit[k] \in Nat
    BY LimitsAssumption
  <2> HIDE DEF S, T
  <2>3. IsFiniteSet(S \cup {j}) /\ Cardinality(S \cup {j}) <= Cardinality(S) + 1
    BY <1>0, FS_AddElement
  <2>4. Cardinality(S \cup {j}) \in Nat
    BY <2>3, FS_CardinalityType
  <2>5. IsFiniteSet(T) /\ Cardinality(T) <= Cardinality(S \cup {j})
    BY <2>1, <2>3, FS_Subset
  <2>6. Cardinality(T) \in Nat
    BY <2>5, FS_CardinalityType
  <2> QED  BY <1>0, <2>1, <2>2, <2>3, <2>4, <2>5, <2>6, LimitsAssumption DEF WithinLimits, Room
<1> HIDE DEF T
<1> QED  BY <1>2, <1>3, LiveGrowsBySpawn

\* The tasks that run stay within the Host's capacity and within the ceiling of
\* each of them, although results are accepted before tasks return.
THEOREM TasksWithinCapacity == Spec => []CapacityRespected
<1>1. Init => CapacityRespected
  <2> SUFFICES ASSUME Init PROVE CapacityRespected
    OBVIOUS
  <2>1. {j \in Jobs : Live(j)} = {}
    BY DEF Init, Live
  <2> QED  BY <2>1, FS_EmptySet, LimitsAssumption DEF CapacityRespected
<1>2. IInv /\ CapacityRespected /\ [Next]_vars => CapacityRespected'
  BY CapacityStep DEF IInv, Records
<1> QED  BY <1>1, <1>2, JobInvariant, PTL DEF Spec

\* The second half of DispatchedIsOwned, for the step lemmas below.
Owned ==
    \A j \in Jobs : open /\ CurrentState(j) = "dispatched" =>
        /\ running[j] = current[j]
        /\ phase[j] = "running"
           \/ (StoreFaults /\ phase[j] \in {"unfenced", "failing", "error"})

\* Nothing is dispatched anew, and no task that matters goes further.
LEMMA OwnedUntouched ==
    ASSUME Owned, open' => open, UNCHANGED <<current, running>>,
           \A k \in Jobs : attempt'[k][current[k]] = "dispatched" =>
                attempt[k][current[k]] = "dispatched" /\ phase'[k] = phase[k]
    PROVE  Owned'
  BY DEF Owned, CurrentState

\* A dispatched attempt loses its task only after its outcome was written or the
\* write failed.
LEMMA OwnedStep == ASSUME IInv, Owned, [Next]_vars PROVE Owned'
<1> USE DEF IInv, Records
<1>1. ASSUME NEW j \in Jobs, Request(j) \/ Retry(j) PROVE Owned'
  <2>1. PICK n : /\ attempt' = [attempt EXCEPT ![j][n] = "reserved"]
                 /\ current' = [current EXCEPT ![j] = n] /\ n \in Numbers(j)
    <3>1. 1 \in Numbers(j) /\ (Retry(j) => current[j] + 1 \in Numbers(j))
      BY LimitsAssumption DEF Retry, Numbers, TypeOK
    <3> QED  BY <1>1, <3>1 DEF Request, Retry, InsertAttempt
  <2>2. UNCHANGED <<open, running, phase>>
    BY <1>1 DEF Request, Retry, executions
  <2> SUFFICES ASSUME NEW k \in Jobs, open, attempt'[k][current'[k]] = "dispatched"
               PROVE  /\ running[k] = current'[k]
                      /\ phase[k] = "running"
                         \/ (StoreFaults /\ phase[k] \in {"unfenced", "failing", "error"})
    BY <2>2 DEF Owned, CurrentState
  <2>3. k # j
    BY <2>1 DEF TypeOK
  <2> QED  BY <2>1, <2>3 DEF Owned, CurrentState, TypeOK
<1>2. ASSUME NEW j \in Jobs, Cancel(j) PROVE Owned'
  BY <1>2, OwnedUntouched DEF Cancel, SetTerminal, SetCurrent, TypeOK
<1>3. ASSUME NEW j \in Jobs,
             \/ Acknowledge(j) \/ Reconcile(j)
             \/ \E d \in Retirements : ReclaimInput(j, d)
      PROVE  Owned'
  BY <1>3, OwnedUntouched DEF Acknowledge, Reconcile, ReclaimInput, executions
<1>4. ASSUME NEW j \in Jobs, NEW r \in Results, Submit(j, r) PROVE Owned'
  BY <1>4, OwnedUntouched DEF Submit, SetTerminal, SetCurrent, executions, TypeOK
<1>5. ASSUME NEW j \in Jobs, Start(j) PROVE Owned'
  <2> SUFFICES ASSUME NEW k \in Jobs, open, attempt'[k][current[k]] = "dispatched"
               PROVE  /\ running'[k] = current[k]
                      /\ phase'[k] = "running"
                         \/ (StoreFaults /\ phase'[k] \in {"unfenced", "failing", "error"})
    BY <1>5 DEF Owned, CurrentState, Start
  <2>1. CASE Spawn(j) /\ k = j
    BY <2>1 DEF Spawn, Pruned, TypeOK
  <2>2. CASE Spawn(j) /\ k # j
    BY <2>2 DEF Spawn, Pruned, SetCurrent, Owned, CurrentState, TypeOK
  <2>3. CASE RefuseStart(j)
    BY <2>3 DEF RefuseStart, Pruned, Owned, CurrentState, TypeOK
  <2> QED  BY <1>5, <2>1, <2>2, <2>3 DEF Start
<1>6. ASSUME NEW j \in Jobs, RunEnds(j) \/ Interrupt(j) PROVE Owned'
  <2>1. PICK p \in {"returning", "failing", "stopping", "unfenced"} :
          /\ phase' = [phase EXCEPT ![j] = p] /\ UNCHANGED <<open, current, running>>
          /\ \/ \E s \in {"failed", "unknown"} : FinishIfPending(j, s)
             \/ FinishFails(j) /\ p \in {"failing", "unfenced"}
    BY <1>6 DEF RunEnds, Interrupt, SetPhase
  <2>2. phase[j] = "running" /\ running[j] = current[j]
    BY <1>6 DEF RunEnds, Interrupt, Started, Live
  <2> SUFFICES ASSUME NEW k \in Jobs, open, attempt'[k][current[k]] = "dispatched"
               PROVE  /\ running[k] = current[k]
                      /\ phase'[k] = "running"
                         \/ (StoreFaults /\ phase'[k] \in {"unfenced", "failing", "error"})
    BY <2>1 DEF Owned, CurrentState
  <2>3. CASE \E s \in {"failed", "unknown"} : FinishIfPending(j, s)
    <3>1. PICK s \in {"failed", "unknown"} : FinishIfPending(j, s)
      BY <2>3
    <3>2. attempt'[j][current[j]] # "dispatched"
      BY <3>1 DEF FinishIfPending, SetTerminal, SetCurrent, TypeOK, RecordsAgree, Agrees, CurrentState
    <3>3. attempt[k][current[k]] = "dispatched" /\ k # j
      BY <3>1, <3>2 DEF FinishIfPending, SetTerminal, SetCurrent, TypeOK
    <3> QED  BY <2>1, <3>3 DEF Owned, CurrentState, TypeOK
  <2>4. CASE FinishFails(j) /\ p \in {"failing", "unfenced"}
    <3>1. attempt' = attempt /\ StoreFaults
      BY <2>2, <2>4 DEF FinishFails
    <3> QED  BY <2>1, <2>2, <2>4, <3>1 DEF Owned, CurrentState, TypeOK
  <2> QED  BY <2>1, <2>3, <2>4
<1>7. ASSUME NEW j \in Jobs, StopEnds(j) \/ TaskReturns(j) \/ Wait(j) PROVE Owned'
  <2> SUFFICES ASSUME NEW k \in Jobs, open, attempt[k][current[k]] = "dispatched"
               PROVE  /\ running[k] = current[k]
                      /\ phase'[k] = "running"
                         \/ (StoreFaults /\ phase'[k] \in {"unfenced", "failing", "error"})
    BY <1>7 DEF Owned, CurrentState, StopEnds, TaskReturns, Wait, SetPhase, stored
  <2> QED  BY <1>7 DEF Owned, CurrentState, StopEnds, TaskReturns, Wait, SetPhase, TypeOK
<1>8. CASE Close \/ FinishShutdown \/ Crash \/ UNCHANGED vars
  BY <1>8 DEF Owned, CurrentState, Close, FinishShutdown, Crash, vars, stored, executions
<1>9. CASE Reopen
  <2>1. \A k \in Jobs : attempt'[k][current[k]] # "dispatched"
    BY <1>9 DEF Reopen, Recover, Recovered, TypeOK
  <2> QED  BY <1>9, <2>1 DEF Reopen, Owned, CurrentState
<1> QED  BY <1>1, <1>2, <1>3, <1>4, <1>5, <1>6, <1>7, <1>8, <1>9 DEF Next

\* A task that has not returned can still settle its attempt, and an open Host
\* has no dispatched attempt without a task except after a failed write.
THEOREM DispatchedAttemptIsOwned == Spec => []DispatchedIsOwned
<1>1. Init => Owned
  BY LimitsAssumption DEF Init, Owned, CurrentState, Numbers
<1>2. IInv /\ Owned /\ [Next]_vars => Owned'
  BY OwnedStep
<1>3. IInv /\ Owned => DispatchedIsOwned
  BY DEF IInv, Started, Owned, DispatchedIsOwned
<1> QED  BY <1>1, <1>2, <1>3, JobInvariant, PTL DEF Spec

\* A Host that shut down successfully leaves no task and no dispatched attempt.
THEOREM ShutdownIsClean == Spec => []CleanShutdown
<1>1. Init => CleanShutdown
  BY DEF Init, CleanShutdown
<1>2. DispatchedIsOwned /\ CleanShutdown /\ [Next]_vars => CleanShutdown'
  <2> SUFFICES ASSUME DispatchedIsOwned, CleanShutdown, [Next]_vars PROVE CleanShutdown'
    OBVIOUS
  <2>1. CASE FinishShutdown
    BY <2>1 DEF FinishShutdown, CleanShutdown, DispatchedIsOwned, CurrentState, stored
  <2>2. CASE Crash \/ Reopen
    BY <2>2 DEF Crash, Reopen, CleanShutdown
  <2>3. CASE UNCHANGED vars
    BY <2>3 DEF vars, stored, executions, CleanShutdown, CurrentState
  <2>4. CASE open /\ open' = open
    BY <2>4 DEF CleanShutdown
  <2> QED  BY <2>1, <2>2, <2>3, <2>4
           DEF Next, Request, Retry, Cancel, Acknowledge, Reconcile, ReclaimInput, Start, Submit,
               RunEnds, Interrupt, StopEnds, TaskReturns, Wait, Close
<1> QED  BY <1>1, <1>2, DispatchedAttemptIsOwned, PTL DEF Spec
==============================================================================
