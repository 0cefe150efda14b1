---------------------------- MODULE PluginService ----------------------------
(***************************************************************************)
(* Delivery of committed Ticket events to one Plugin Service.               *)
(*                                                                          *)
(*   crates/workspace-server/src/plugin_service.rs         consumer, lease, *)
(*                                                         cursor, outbox   *)
(*   crates/workspace-server/src/server_plugin_service.rs  requests         *)
(*   crates/worker/src/plugin/service.rs                   the driver       *)
(*   crates/worker/src/feature/background.rs               its task         *)
(*                                                                          *)
(* The Backend keeps one consumer with a cursor into the outbox and a lease *)
(* that one driver at a time holds.  A driver acquires the lease, polls,    *)
(* runs the guest on the delivered event and completes it; the guest sends  *)
(* external effects through the receipts of PluginReceipt.  A request is    *)
(* executed and answered, executed and its answer lost, or not executed.    *)
(* Workers crash and are restored; an old and a new Runtime may overlap.    *)
(* A time stamp is the fact that it has or has not been reached: leased for *)
(* lease_until_ms, waiting for next_attempt_ms, aged for occurred_at.       *)
(***************************************************************************)
EXTENDS Naturals, FiniteSets

CONSTANTS
    Drivers,        \* Worker processes that run the Service
    Keys, Calls,    \* effect keys and Send requests, see PluginReceipt
    MaxEvents,      \* bound: length of the outbox
    MaxAged,        \* bound: events that get older than the retention
    Subscribed,     \* the events the Service subscribes to
    MaxQueue,       \* MAX_QUEUE
    MaxAttempts,    \* MAX_ATTEMPTS
    MaxRecoveries,  \* bound: management decisions
    MaxFaults       \* bound: crashes, lost messages, denials, overrun leases

VARIABLES
    inv, rec, calls, sent,  \* the receipts; an invocation is an event's number
    con,        \* plugin_service_consumers: the row of this Service
    out,        \* the outbox: n appended, the first aged of them old, floor removed
    drv,        \* ServiceDriver of each Worker process
    who,        \* for each Send: the driver waiting for it and the lease it shows
    fate,       \* auxiliary: what became of each event
    recoveries, \* auxiliary: management decisions taken
    faults      \* auxiliary: faults left

Events == 1..MaxEvents

R == INSTANCE PluginReceipt WITH Invocations <- Events

vars == <<inv, rec, calls, sent, con, out, drv, who, fate, recoveries, faults>>
receipts == <<inv, rec, calls, sent>>

None == "none"

ASSUME BoundsAssumption ==
    MaxEvents \in Nat /\ Subscribed \subseteq Events /\ MaxAttempts \in Nat \ {0}
ASSUME DriversAssumption == None \notin Drivers

Nobody == [driver |-> None, lease |-> 0]

\* A driver that has not started, or whose Worker is dead.
Down == [pc |-> "down", lease |-> 0, ev |-> 0, uncertain |-> FALSE,
         parked |-> FALSE, unconf |-> 0, then |-> "ready"]

Init ==
    /\ R!Init
    /\ con = [known |-> FALSE, cursor |-> 0, drain |-> 0, pause |-> None, cur |-> 0,
              attempt |-> 0, waiting |-> FALSE, token |-> 0, issued |-> 0,
              leased |-> FALSE, lastAck |-> 0]
    /\ out = [n |-> 0, aged |-> 0, floor |-> 0]
    /\ drv = [d \in Drivers |-> Down]
    /\ who = [c \in Calls |-> Nobody]
    /\ fate = [e \in Events |-> None]
    /\ recoveries = 0
    /\ faults = MaxFaults

Fault == faults > 0 /\ faults' = faults - 1
NoFault == UNCHANGED faults

------------------------------------------------------------------------------
\* plugin_service.rs

\* fence, and fence_invocation for an effect of event e.
Fence(l) == l # 0 /\ con.token = l /\ con.leased
Serving(l, e) == Fence(l) /\ con.cur = e /\ con.pause = None

LeaseActive == con.token # 0 /\ con.leased

\* queued and the next event, above a removed prefix of the outbox.
Queue(floor) == {e \in Subscribed : con.cursor < e /\ floor < e /\ e <= out.n}
Head(q) == CHOOSE e \in q : \A f \in q : e <= f

\* Mutant: an effect still in flight does not count as unknown.
UnknownEffectRecorded ==
    /\ con.cur # 0
    /\ R!Lapsed(con.cur) \/ \E k \in Keys : rec[con.cur][k] \in {"unknown", "expired"}

\* unknown_effect.
UnknownEffect ==
    /\ con.cur # 0
    /\ \/ R!Lapsed(con.cur)
       \/ \E k \in Keys : rec[con.cur][k] \in {"pending", "unknown", "expired"}

Pause(reason) == con' = [con EXCEPT !.pause = reason]

\* acquire; a new consumer starts at the tail, without a backfill.
Acquire ==
    /\ ~LeaseActive
    /\ con' = [con EXCEPT !.known = TRUE, !.token = con.issued + 1,
                          !.issued = @ + 1, !.leased = TRUE,
                          !.cursor = IF con.known THEN @ ELSE out.n]
    /\ fate' = [e \in Events |->
                IF ~con.known /\ e <= out.n THEN "before" ELSE fate[e]]

\* Mutant: an event is tried as often as the guest asks.
PauseReasonUnlimited(floor) ==
    LET q == Queue(floor)
    IN  IF con.pause # None THEN con.pause
        ELSE IF con.cursor < floor THEN "retention_gap"
        ELSE IF Cardinality(q) >= MaxQueue /\ con.cursor >= con.drain THEN "queue_full"
        ELSE IF UnknownEffect THEN "indeterminate"
        ELSE None

\* The reason for which poll delivers nothing and leaves the consumer paused.
PauseReason(floor) ==
    LET q == Queue(floor)
    IN  IF con.pause # None THEN con.pause
        ELSE IF con.cursor < floor THEN "retention_gap"
        ELSE IF Cardinality(q) >= MaxQueue /\ con.cursor >= con.drain THEN "queue_full"
        ELSE IF UnknownEffect THEN "indeterminate"
        ELSE IF con.waiting \/ con.cur = 0 THEN None
        ELSE IF con.attempt >= MaxAttempts THEN "attempts_exhausted"
        ELSE IF q # {} /\ Head(q) # con.cur THEN "retention_gap"
        ELSE None

\* poll, with prune_outbox: the event delivered, or 0.
Poll(e) ==
    LET floor == IF out.aged > out.floor THEN out.aged ELSE out.floor
        reason == PauseReason(floor)
        ready == reason = None /\ ~con.waiting /\ Queue(floor) # {}
    IN  /\ out' = [out EXCEPT !.floor = floor]
        /\ e = IF ready THEN Head(Queue(floor)) ELSE 0
        /\ con' = IF ready
                  THEN [con EXCEPT !.cur = e, !.attempt = @ + 1, !.waiting = TRUE]
                  ELSE [con EXCEPT !.pause = reason]
        /\ IF ready /\ ~inv[e].begun THEN R!Begin(e) ELSE UNCHANGED receipts

\* complete of event e.  Only an ack moves the cursor.
Accepts(e, result) ==
    \/ con.cur = e /\ con.pause = None
    \/ con.cur # e /\ con.lastAck = e /\ result = "ack"

Complete(e, result) ==
    /\ Accepts(e, result)
    /\ \/ /\ con.cur # e
          /\ UNCHANGED <<con, fate>>
       \/ /\ con.cur = e
          /\ UnknownEffect \/ result = "indeterminate"
          /\ Pause("indeterminate")
          /\ UNCHANGED fate
       \/ /\ con.cur = e /\ ~UnknownEffect
          /\ \/ /\ result = "ack"
                /\ con' = [con EXCEPT !.cursor = e, !.lastAck = e, !.cur = 0,
                                      !.attempt = 0, !.waiting = FALSE]
                /\ fate' = [fate EXCEPT ![e] = "acked"]
             \/ /\ result = "retry"
                /\ IF con.attempt >= MaxAttempts
                   THEN Pause("attempts_exhausted")
                   ELSE con' = [con EXCEPT !.waiting = TRUE]
                /\ UNCHANGED fate
             \/ /\ result = "reject"
                /\ Pause("rejected")
                /\ UNCHANGED fate

\* release; a token that was released or replaced changes nothing.
Release(l) ==
    con' = IF con.token = l THEN [con EXCEPT !.token = 0, !.leased = FALSE] ELSE con

------------------------------------------------------------------------------
\* plugin_service.rs: recover

Decide ==
    /\ con.pause # None /\ ~LeaseActive
    /\ recoveries < MaxRecoveries
    /\ recoveries' = recoveries + 1
    /\ UNCHANGED <<out, drv, who, faults>>

Resumable ==
    /\ con.pause \notin {"indeterminate", "retention_gap"}
    /\ ~UnknownEffect
    /\ con.cursor >= out.floor
    /\ con.pause # "queue_full" => Cardinality(Queue(out.floor)) < MaxQueue

Resumed ==
    [con EXCEPT !.pause = None, !.attempt = 0, !.waiting = FALSE,
                !.drain = IF con.pause = "queue_full" THEN out.n ELSE @]

\* Mutant: a resumed event may repeat its effects.
ResumeForgetting ==
    /\ Decide /\ Resumable
    /\ con' = Resumed
    /\ rec' = [rec EXCEPT ![IF con.cur = 0 THEN 1 ELSE con.cur] = [k \in Keys |-> None]]
    /\ UNCHANGED <<inv, calls, sent, fate>>

Resume ==
    /\ Decide /\ Resumable
    /\ con' = Resumed
    /\ UNCHANGED <<inv, rec, calls, sent, fate>>

\* Skip and AcceptGap set the cursor and clear the blocked event.
Abandoned(cursor) == [con EXCEPT !.cursor = cursor, !.pause = None, !.cur = 0,
                                 !.attempt = 0, !.waiting = FALSE]

\* Mutant: the event that is skipped is taken from the end of the queue.
SkipLast(e) ==
    /\ Decide
    /\ e \in Queue(out.floor)
    /\ con' = Abandoned(e)
    /\ fate' = [fate EXCEPT ![e] = "skipped"]
    /\ UNCHANGED receipts

\* Skip names the blocked event, or the head of a full queue.
Skip(e) ==
    /\ Decide
    /\ \/ con.cur = e
       \/ /\ con.cur = 0 /\ con.pause = "queue_full"
          /\ Queue(out.floor) # {} /\ e = Head(Queue(out.floor))
    /\ con' = Abandoned(e)
    /\ fate' = [fate EXCEPT ![e] = "skipped"]
    /\ UNCHANGED receipts

\* The trigger plugin_service_cursor_forward refuses to move the cursor back.
\* The blocked event is abandoned too, though the cursor may stay below it.
AcceptGap ==
    /\ Decide
    /\ con.pause = "retention_gap" /\ out.floor >= con.cursor
    /\ con' = Abandoned(out.floor)
    /\ fate' = [e \in Events |->
                IF e = con.cur \/ (e \in Subscribed /\ con.cursor < e /\ e <= out.floor)
                THEN "gap" ELSE fate[e]]
    /\ UNCHANGED receipts

------------------------------------------------------------------------------
\* service.rs: the run of the driver's task, one request after the other

\* Sends of a guest that is gone are finished or dropped without it.
Orphan(d) ==
    who' = [c \in Calls |-> IF who[c].driver = d THEN [who[c] EXCEPT !.driver = None]
                                                 ELSE who[c]]

Goto(d, pc) == drv' = [drv EXCEPT ![d].pc = pc]

\* The driver retains the consumer to observe, stops the guest and releases.
Parked(d) == [drv[d] EXCEPT !.pc = "stopping", !.then = "ready", !.parked = TRUE,
                            !.ev = 0, !.uncertain = FALSE]
Park(d) == drv' = [drv EXCEPT ![d] = Parked(d)]

At(d, pc) == drv[d].pc = pc
Polling(d) == At(d, "ready") /\ ~drv[d].parked

\* A failure of the first acquisition ends the task: it is not started again.
DriverAcquire(d) ==
    /\ Polling(d) /\ drv[d].lease = 0
    /\ \/ /\ Acquire /\ NoFault
          /\ drv' = [drv EXCEPT ![d].lease = con'.token]
       \/ /\ Acquire /\ Fault       \* on-start fails
          /\ drv' = [drv EXCEPT ![d].lease = con'.token, ![d].pc = "stopping",
                                ![d].then = "failed"]
       \/ /\ Acquire /\ Fault       \* the answer is lost
          /\ Goto(d, "failed")
       \/ /\ LeaseActive /\ NoFault
          /\ Goto(d, "failed")
          /\ UNCHANGED <<con, fate>>
       \/ /\ Fault                  \* denied, or the request is lost
          /\ Goto(d, "failed")
          /\ UNCHANGED <<con, fate>>
    /\ UNCHANGED <<receipts, out, who, recoveries>>

DriverPoll(d) ==
    /\ Polling(d) /\ drv[d].lease # 0
    /\ \/ \E e \in 0..MaxEvents :
            /\ Fence(drv[d].lease)
            /\ Poll(e)
            /\ \/ /\ NoFault
                  /\ drv' = [drv EXCEPT ![d] =
                                CASE e # 0            -> [@ EXCEPT !.pc = "granting", !.ev = e]
                                  [] con'.pause # None -> Parked(d)
                                  [] OTHER            -> @]
               \/ Fault /\ Park(d)  \* the answer is lost
       \/ /\ ~Fence(drv[d].lease) /\ NoFault
          /\ Park(d)
          /\ UNCHANGED <<con, out, receipts>>
       \/ /\ Fault                  \* denied, or the request is lost
          /\ Park(d)
          /\ \/ Fence(drv[d].lease) /\ Pause("authorization")
             \/ UNCHANGED con
          /\ UNCHANGED <<out, receipts>>
    /\ UNCHANGED <<who, fate, recoveries>>

\* The second transaction of a Poll request that delivers.
DriverGrant(d) ==
    /\ At(d, "granting")
    /\ LET fenced == Fence(drv[d].lease) /\ con.cur = drv[d].ev
       IN  \/ /\ fenced /\ NoFault
              /\ Goto(d, "guest")
              /\ UNCHANGED con
           \/ /\ ~fenced /\ NoFault
              /\ Park(d)
              /\ UNCHANGED con
           \/ /\ Fault              \* the Ticket may not be read, or the answer is lost
              /\ Park(d)
              /\ \/ fenced /\ Pause("authorization")
                 \/ UNCHANGED con
    /\ UNCHANGED <<receipts, out, who, fate, recoveries>>

\* A Host request of the guest.
GuestSend(d, c, k) ==
    /\ At(d, "guest")
    /\ R!Send(c, drv[d].ev, k, Serving(drv[d].lease, drv[d].ev))
    /\ who' = [who EXCEPT ![c] = [driver |-> d, lease |-> drv[d].lease]]
    /\ UNCHANGED <<con, out, drv, fate, recoveries, faults>>

\* checked_consumer refuses a Host request, or its answer is lost.
GuestRefused(d) ==
    /\ At(d, "guest") /\ Fault
    /\ \/ /\ Fence(drv[d].lease)
          /\ Pause("authorization")
          /\ UNCHANGED drv
       \/ /\ drv' = [drv EXCEPT ![d].uncertain = TRUE]
          /\ UNCHANGED con
    /\ UNCHANGED <<receipts, out, who, fate, recoveries>>

\* A step of a Send shows the lease; grants may be gone as well.
HostStep(c) ==
    /\ \/ R!CallStep(c, Serving(who[c].lease, calls[c].inv)) /\ NoFault
       \/ R!CallStep(c, FALSE) /\ Fault
    /\ UNCHANGED <<con, out, drv, who, fate, recoveries>>

\* Effects::observe of an answer, or of a request whose answer never comes.
HostAnswer(c) ==
    LET d == who[c].driver
        Observe(unknown) ==
            drv' = [x \in Drivers |->
                    IF x = d THEN [drv[x] EXCEPT !.uncertain = @ \/ unknown] ELSE drv[x]]
    IN  /\ \/ /\ R!Answer(c) /\ NoFault
              /\ Observe(calls[c].res = "unknown" \/ R!Lapsed(calls[c].inv))
           \/ /\ R!DropCall(c)
              /\ IF d = None THEN NoFault ELSE Fault
              /\ Observe(TRUE)
        /\ who' = [who EXCEPT ![c] = Nobody]
        /\ UNCHANGED <<con, out, fate, recoveries>>

\* What the driver reports: an effect that is or may be open makes it uncertain.
Reported(d, result) ==
    IF drv[d].uncertain \/ \E c \in Calls : who[c].driver = d
    THEN "indeterminate" ELSE result

\* An uncertain result that may not have been recorded is kept to be reconciled.
Unconfirmed(d, result) ==
    drv' = [drv EXCEPT ![d] = [Parked(d) EXCEPT
                !.unconf = IF result = "indeterminate" THEN drv[d].ev ELSE @]]

DriverComplete(d, guest) ==
    LET e == drv[d].ev
        result == Reported(d, guest)
    IN  /\ At(d, "guest")
        /\ \/ /\ Fence(drv[d].lease) /\ Complete(e, result)
              /\ \/ /\ NoFault
                    /\ drv' = [drv EXCEPT ![d].pc = "ready", ![d].ev = 0, ![d].uncertain = FALSE]
                 \/ Fault /\ Unconfirmed(d, result)     \* the answer is lost
           \/ /\ ~(Fence(drv[d].lease) /\ Accepts(e, result)) /\ NoFault
              /\ Unconfirmed(d, result)
              /\ UNCHANGED <<con, fate>>
           \/ /\ Fault              \* denied, or the request is lost
              /\ Unconfirmed(d, result)
              /\ \/ Fence(drv[d].lease) /\ Pause("authorization")
                 \/ UNCHANGED con
              /\ UNCHANGED fate
        /\ Orphan(d)
        /\ UNCHANGED <<receipts, out, recoveries>>

\* stopped and reconcile_release; a conflict is a confirmation too.
DriverRelease(d) ==
    /\ At(d, "stopping")
    /\ LET after == [ready |-> "ready", failed |-> "failed", rearm |-> "ready"]
           refused == [after EXCEPT !.rearm = "failed"]
           Leave(pcs, l) ==
               IF drv[d].then = "down" THEN Down
               ELSE [drv[d] EXCEPT !.pc = pcs[drv[d].then], !.lease = l, !.then = "ready"]
           gone == Leave(after, 0)
           kept == Leave(refused, drv[d].lease)
       IN  \/ /\ Release(drv[d].lease) /\ NoFault
              /\ drv' = [drv EXCEPT ![d] = gone]
           \/ /\ Fault              \* the answer or the request is lost
              /\ drv' = [drv EXCEPT ![d] = kept]
              /\ Release(drv[d].lease) \/ UNCHANGED con
    /\ UNCHANGED <<receipts, out, who, fate, recoveries>>

\* Mutant: the driver waits until its own release is confirmed.
DriverObserveConfirmed(d) ==
    /\ At(d, "ready") /\ drv[d].parked
    /\ ~LeaseActive /\ con.pause = None /\ drv[d].lease = 0
    /\ drv' = [drv EXCEPT ![d].parked = FALSE, ![d].unconf = 0]
    /\ UNCHANGED <<receipts, con, out, who, fate, recoveries, faults>>

\* Diagnostics of a parked driver; while the owner refuses them it stays inert.
DriverObserve(d) ==
    /\ At(d, "ready") /\ drv[d].parked
    /\ ~LeaseActive
    /\ LET fenced == [drv[d] EXCEPT !.lease = 0]
       IN  drv' = [drv EXCEPT ![d] =
                    IF con.pause # None THEN fenced
                    ELSE IF drv[d].unconf # 0 /\ con.cur = drv[d].unconf
                    THEN [fenced EXCEPT !.pc = "reconciling"]
                    ELSE [fenced EXCEPT !.parked = FALSE, !.unconf = 0]]
    /\ UNCHANGED <<receipts, con, out, who, fate, recoveries, faults>>

\* The same intent under a new lease, without a poll and without the guest.
DriverReconcile(d) ==
    /\ At(d, "reconciling")
    /\ \/ /\ Acquire /\ NoFault
          /\ drv' = [drv EXCEPT ![d].lease = con'.token, ![d].pc = "recompleting"]
       \/ /\ Acquire /\ Fault       \* on-start fails, or the answer is lost
          /\ \E l \in {0, con'.token} :
                drv' = [drv EXCEPT ![d].lease = l, ![d].pc = "ready"]
       \/ /\ (LeaseActive /\ NoFault) \/ Fault
          /\ Goto(d, "ready")
          /\ UNCHANGED <<con, fate>>
    /\ UNCHANGED <<receipts, out, who, recoveries>>

DriverRecomplete(d) ==
    LET e == drv[d].unconf
    IN  /\ At(d, "recompleting")
        /\ \/ /\ Fence(drv[d].lease) /\ Complete(e, "indeterminate")
              /\ \/ NoFault /\ drv' = [drv EXCEPT ![d] = [Parked(d) EXCEPT !.unconf = 0]]
                 \/ Fault /\ Park(d)
           \/ /\ ~(Fence(drv[d].lease) /\ Accepts(e, "indeterminate")) /\ NoFault
              /\ Park(d)
              /\ UNCHANGED <<con, fate>>
           \/ /\ Fault
              /\ Park(d)
              /\ \/ Fence(drv[d].lease) /\ Pause("authorization")
                 \/ UNCHANGED con
              /\ UNCHANGED fate
        /\ UNCHANGED <<receipts, out, who, recoveries>>

------------------------------------------------------------------------------
\* background.rs: the task; and the environment

\* start_host_ready of a new or restored Worker.
Start(d) ==
    /\ At(d, "down")
    /\ Goto(d, "ready")
    /\ UNCHANGED <<receipts, con, out, who, fate, recoveries, faults>>

\* Shutdown, or the barrier of a Session rewrite: the run is dropped, then stopped.
Cancel(d, then) ==
    /\ drv[d].pc \notin {"down", "failed"} /\ Fault
    /\ drv' = [drv EXCEPT ![d].pc = "stopping", ![d].then = then,
                          ![d].ev = 0, ![d].uncertain = FALSE]
    /\ Orphan(d)
    /\ UNCHANGED <<receipts, con, out, fate, recoveries>>

Crash(d) ==
    /\ ~At(d, "down") /\ Fault
    /\ drv' = [drv EXCEPT ![d] = Down]
    /\ Orphan(d)
    /\ UNCHANGED <<receipts, con, out, fate, recoveries>>

\* A driver that polls renews its lease in time unless it is held up.
Lapse ==
    /\ LeaseActive
    /\ con' = [con EXCEPT !.leased = FALSE]
    /\ IF \E d \in Drivers : /\ drv[d].lease = con.token
                             /\ drv[d].pc \in {"granting", "guest", "recompleting"} \/ Polling(d)
       THEN Fault ELSE NoFault
    /\ UNCHANGED <<receipts, out, drv, who, fate, recoveries>>

WaitOver ==
    /\ con.waiting
    /\ con' = [con EXCEPT !.waiting = FALSE]
    /\ UNCHANGED <<receipts, out, drv, who, fate, recoveries, faults>>

\* A domain transaction commits an event; later it is older than RETENTION_MS.
Append ==
    /\ out.n < MaxEvents
    /\ out' = [out EXCEPT !.n = @ + 1]
    /\ UNCHANGED <<receipts, con, drv, who, fate, recoveries, faults>>

Age ==
    /\ out.aged < out.n /\ out.aged < MaxAged
    /\ out' = [out EXCEPT !.aged = @ + 1]
    /\ UNCHANGED <<receipts, con, drv, who, fate, recoveries, faults>>

ReceiptDeadline(e) ==
    /\ Fault
    /\ R!DeadlinePasses(e)
    /\ UNCHANGED <<con, out, drv, who, fate, recoveries>>

------------------------------------------------------------------------------

DriverStep(d) ==
    \/ DriverAcquire(d) \/ DriverPoll(d) \/ DriverGrant(d)
    \/ \E guest \in {"ack", "retry", "reject"} : DriverComplete(d, guest)
    \/ DriverRelease(d) \/ DriverObserve(d) \/ DriverReconcile(d) \/ DriverRecomplete(d)

Recover == Resume \/ AcceptGap \/ \E e \in Events : Skip(e)

Next ==
    \/ \E d \in Drivers : DriverStep(d)
    \/ \E d \in Drivers, c \in Calls, k \in Keys : GuestSend(d, c, k)
    \/ \E d \in Drivers : GuestRefused(d)
    \/ \E c \in Calls : HostStep(c) \/ HostAnswer(c)
    \/ Recover
    \/ \E d \in Drivers : Start(d) \/ Crash(d) \/ \E then \in {"down", "rearm"} : Cancel(d, then)
    \/ Lapse \/ WaitOver \/ Append \/ Age
    \/ \E e \in Events : ReceiptDeadline(e)

Spec == Init /\ [][Next]_vars

\* A task is rescheduled after its interval and its requests are answered or time
\* out; a lease runs out and a delay passes with the clock; a guest has a deadline.
Fairness ==
    /\ \A d \in Drivers : WF_vars(DriverStep(d))
    /\ WF_vars(Lapse)
    /\ WF_vars(WaitOver)

FairSpec == Spec /\ Fairness

------------------------------------------------------------------------------

Reason == {None, "rejected", "attempts_exhausted", "queue_full", "retention_gap",
           "indeterminate", "authorization"}

\* The rows of the consumer and the state of the drivers; attempt and cursor keep
\* the bounds that plugin_service_schema.sql checks.
TypeOK ==
    /\ R!TypeOK
    /\ con \in [known : BOOLEAN, cursor : 0..out.n, drain : 0..out.n, pause : Reason,
                cur : 0..out.n, attempt : 0..MaxAttempts, waiting : BOOLEAN,
                token : 0..con.issued, issued : Nat, leased : BOOLEAN, lastAck : 0..out.n]
    /\ out.floor <= out.aged /\ out.aged <= out.n
    /\ drv \in [Drivers ->
        [pc : {"down", "ready", "granting", "guest", "stopping", "reconciling",
               "recompleting", "failed"},
         lease : 0..con.issued, ev : 0..out.n, uncertain : BOOLEAN, parked : BOOLEAN,
         unconf : 0..out.n, then : {"ready", "rearm", "down", "failed"}]]
    /\ who \in [Calls -> [driver : Drivers \cup {None}, lease : 0..con.issued]]
    /\ fate \in [Events -> {None, "before", "acked", "skipped", "gap"}]

\* A Service adds nothing to what the receipts promise: whatever its drivers, its
\* lease and its recovery do, every step of the receipts is one PluginReceipt
\* allows, so an event delivered again repeats no effect.
ReceiptSpec == R!Spec

\* While a guest runs under the live lease, no Send of an earlier attempt or of
\* another driver can still reach the peer for the same event: poll has seen every
\* admitted effect settled, and the fence admits no other (unknown_effect, fence).
\* Not so for an event that was given up with a gap and is delivered again.
AttemptsDoNotOverlap ==
    \A d \in Drivers, c \in Calls :
        /\ At(d, "guest") /\ Serving(drv[d].lease, drv[d].ev)
        /\ fate[drv[d].ev] # "gap"
        /\ calls[c].pc \in {"dispatching", "connecting", "sending", "sent", "completing"}
        /\ calls[c].inv = drv[d].ev
        => who[c].driver = d

\* An acknowledged event is over: its effects are known and no request leaves for
\* it again, also not from a Send its guest did not wait for (complete).
AckIsFinal ==
    [][\A e \in Events, k \in Keys : fate[e] = "acked"
        => sent'[e][k] = sent[e][k] /\ rec[e][k] \notin {"pending", "unknown"}]_vars

\* The cursor passes a subscribed event that is still in the outbox only when the
\* event was acknowledged or a management decision named it (complete, recover).
RetainedIsNotSkipped ==
    \A e \in Subscribed : con.known /\ out.floor < e /\ e <= con.cursor => fate[e] # None

Waiting(e) == con.known /\ e <= out.n /\ con.cursor < e /\ con.pause = None

Active(d) == drv[d].pc \notin {"down", "failed"}

\* As long as a driver is at work, an event does not stay undecided: it is
\* acknowledged or given up, or the consumer is paused for all to see.
EventSettles ==
    \A e \in Subscribed : []<>~(Waiting(e) /\ \E d \in Drivers : Active(d))
==============================================================================
