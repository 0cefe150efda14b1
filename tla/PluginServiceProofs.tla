------------------------- MODULE PluginServiceProofs -------------------------
(***************************************************************************)
(* Proofs about the delivery of events to a Plugin Service, for any number  *)
(* of drivers, events, Sends and faults.                                    *)
(***************************************************************************)
EXTENDS PluginService, WellFoundedInduction, TLAPS

\* The receipts and what is proved of them.
RP == INSTANCE PluginReceiptProofs WITH Invocations <- Events

------------------------------------------------------------------------------
\* The inductive invariant

Pcs == {"down", "ready", "granting", "guest", "stopping", "reconciling",
        "recompleting", "failed"}
Thens == {"ready", "rearm", "down", "failed"}
Fates == {None, "before", "acked", "skipped", "gap"}

Outbox == [n : Nat, aged : Nat, floor : Nat]
Consumer == [known : BOOLEAN, cursor : Nat, drain : Nat, pause : Reason, cur : Nat,
             attempt : Nat, waiting : BOOLEAN, token : Nat, issued : Nat,
             leased : BOOLEAN, lastAck : Nat]
Driver == [pc : Pcs, lease : Nat, ev : Nat, uncertain : BOOLEAN, parked : BOOLEAN,
           unconf : Nat, then : Thens]

OutboxOK(o) == o \in Outbox /\ o.floor <= o.aged /\ o.aged <= o.n /\ o.n <= MaxEvents

\* The consumer's row m beside an outbox o: an event is delivered from above the
\* cursor, and everything subscribed to between the two has left the outbox.
ConsumerOK(m, o) ==
    /\ m \in Consumer
    /\ m.cursor <= o.n /\ m.drain <= o.n /\ m.cur <= o.n /\ m.lastAck <= o.n
    /\ m.token <= m.issued /\ m.attempt <= MaxAttempts
    /\ m.cur = 0 => m.attempt = 0
    /\ ~m.known => m.cur = 0 /\ m.token = 0
    /\ m.cur # 0 => /\ m.cursor < m.cur
                    /\ \A f \in Subscribed : m.cursor < f /\ f < m.cur => f <= o.floor

\* A driver's record r: only one that observes keeps a lease it does not use.
DriverOK(r, m, o) ==
    /\ r \in Driver
    /\ r.lease <= m.issued /\ r.ev <= o.n /\ r.unconf <= o.n
    /\ r.pc = "down" => r.lease = 0
    /\ r.pc \in {"granting", "guest"} => r.ev # 0
    /\ r.pc = "stopping" /\ r.then = "ready" => r.parked
    /\ r.pc = "reconciling" => r.parked

\* A lease is given to one driver.
LeasesDiffer ==
    \A d, x \in Drivers : drv[d].lease = drv[x].lease /\ drv[d].lease # 0 => d = x

\* The driver may come to run its guest, or runs it, under its lease.
Works(r) == r.pc \in {"granting", "guest"} \/ (r.pc = "ready" /\ ~r.parked)

Live(l) == Fence(l) /\ con.pause = None

\* A Send belongs to a guest that runs, or to none; the lease of one without a
\* guest is no longer used by a driver that works, as long as it is live.
CallerOK(c) ==
    /\ who[c].lease <= con.issued
    /\ calls[c] = R!NoCall => who[c] = Nobody
    /\ who[c].driver # None => /\ drv[who[c].driver].pc = "guest"
                               /\ drv[who[c].driver].lease = who[c].lease
                               /\ drv[who[c].driver].ev = calls[c].inv
    /\ who[c].driver = None /\ Live(who[c].lease) =>
         \A d \in Drivers : drv[d].lease = who[c].lease => ~Works(drv[d])

\* The peer may still be reached by the Send.
Open(c) == calls[c].pc \in {"dispatching", "connecting", "sending", "sent", "completing"}

\* An open Send is for an event that is behind the cursor, or being delivered, or
\* was given up with a gap.
OpenOK(c) ==
    Open(c) => \/ calls[c].inv <= con.cursor
               \/ calls[c].inv = con.cur
               \/ fate[calls[c].inv] = "gap"

\* A delivered event has no open Send but those of the guest that runs on it.
DeliveryOK(d, c) ==
    /\ drv[d].pc \in {"granting", "guest"} /\ Serving(drv[d].lease, drv[d].ev)
    /\ fate[drv[d].ev] # "gap"
    /\ Open(c) /\ calls[c].inv = drv[d].ev
    => drv[d].pc = "guest" /\ who[c].driver = d

\* The effects of an acknowledged event are known, and it is behind the cursor.
AckedOK(e) ==
    fate[e] = "acked" =>
        e <= con.cursor /\ \A k \in Keys : rec[e][k] \in {"none", "response", "refused"}

IInv ==
    /\ RP!IInv
    /\ OutboxOK(out) /\ ConsumerOK(con, out)
    /\ drv \in [Drivers -> Driver] /\ \A d \in Drivers : DriverOK(drv[d], con, out)
    /\ LeasesDiffer
    /\ who \in [Calls -> [driver : Drivers \cup {None}, lease : Nat]]
    /\ \A c \in Calls : CallerOK(c) /\ OpenOK(c)
    /\ \A d \in Drivers, c \in Calls : DeliveryOK(d, c)
    /\ fate \in [Events -> Fates] /\ \A e \in Events : AckedOK(e)
    /\ RetainedIsNotSkipped

LEMMA EventIsNat == ASSUME NEW e \in Events PROVE e \in Nat /\ e # 0 /\ e <= MaxEvents
  BY BoundsAssumption DEF Events

------------------------------------------------------------------------------
\* The receipts of the Service are those of PluginReceiptProofs

LEMMA SameUsable == ASSUME NEW i PROVE R!Usable(i) <=> RP!Usable(i)
  BY DEF R!Usable, RP!Usable, R!Lapsed, RP!Lapsed

LEMMA SameRows ==
    ASSUME NEW i
    PROVE  /\ R!Begin(i) <=> RP!Begin(i)
           /\ R!DeadlinePasses(i) <=> RP!DeadlinePasses(i)
           /\ R!Cancel(i) <=> RP!Cancel(i)
<1>1. R!Begin(i) <=> RP!Begin(i)
  BY Zenon DEF R!Begin, RP!Begin
<1>2. R!DeadlinePasses(i) <=> RP!DeadlinePasses(i)
  BY Zenon DEF R!DeadlinePasses, RP!DeadlinePasses
<1>3. R!Cancel(i) <=> RP!Cancel(i)
  BY Zenon DEF R!Cancel, RP!Cancel
<1> QED BY <1>1, <1>2, <1>3

LEMMA SamePrune == R!Prune <=> RP!Prune
  BY Zenon DEF R!Prune, RP!Prune

LEMMA SameCallStep ==
    ASSUME NEW c, NEW ok PROVE R!CallStep(c, ok) <=> RP!CallStep(c, ok)
<1>1. R!EffectAdmit(c, ok) <=> RP!EffectAdmit(c, ok)
  BY Zenon, SameUsable DEF R!EffectAdmit, RP!EffectAdmit, R!Goto, RP!Goto, R!Result, RP!Result,
                           R!Outcome, RP!Outcome
<1>2. R!Recheck(c, ok) <=> RP!Recheck(c, ok)
  BY Zenon, SameUsable DEF R!Recheck, RP!Recheck, R!Goto, RP!Goto, R!Result, RP!Result
<1>3. R!Guard(c, ok) <=> RP!Guard(c, ok)
  BY Zenon, SameUsable DEF R!Guard, RP!Guard, R!Goto, RP!Goto, R!Result, RP!Result
<1>4. R!Transmit(c) <=> RP!Transmit(c)
  BY Zenon DEF R!Transmit, RP!Transmit, R!Goto, RP!Goto
<1>5. R!Respond(c) <=> RP!Respond(c)
  BY Zenon DEF R!Respond, RP!Respond, R!Result, RP!Result
<1>6. R!Abort(c) <=> RP!Abort(c)
  BY Zenon DEF R!Abort, RP!Abort, R!Result, RP!Result
<1>7. R!EffectComplete(c, ok) <=> RP!EffectComplete(c, ok)
  BY Zenon DEF R!EffectComplete, RP!EffectComplete, R!Goto, RP!Goto, R!Result, RP!Result
<1>8. R!Publish(c) <=> RP!Publish(c)
  BY Zenon DEF R!Publish, RP!Publish, R!Goto, RP!Goto
<1> QED
  BY <1>1, <1>2, <1>3, <1>4, <1>5, <1>6, <1>7, <1>8 DEF R!CallStep, RP!CallStep

LEMMA SameEnds ==
    ASSUME NEW c
    PROVE  /\ R!Answer(c) <=> RP!Answer(c)
           /\ R!DropCall(c) <=> RP!DropCall(c)
           /\ \A i, k, ok : R!Send(c, i, k, ok) <=> RP!Send(c, i, k, ok)
<1>1. R!NoCall = RP!NoCall
  BY DEF R!NoCall, RP!NoCall
<1>2. R!Answer(c) <=> RP!Answer(c)
  BY Zenon, <1>1 DEF R!Answer, RP!Answer
<1>3. R!DropCall(c) <=> RP!DropCall(c)
  BY Zenon, <1>1 DEF R!DropCall, RP!DropCall
<1>4. ASSUME NEW i, NEW k, NEW ok PROVE R!Send(c, i, k, ok) <=> RP!Send(c, i, k, ok)
  BY SameUsable, <1>1 DEF R!Send, RP!Send
<1> QED BY <1>2, <1>3, <1>4

LEMMA SameNext == R!Next <=> RP!Next
  BY SameRows, SamePrune, SameCallStep, SameEnds DEF R!Next, RP!Next

LEMMA SameInit == R!Init <=> RP!Init
  BY DEF R!Init, RP!Init, R!NoInvocation, RP!NoInvocation, R!NoCall, RP!NoCall

\* What a step of the receipts keeps.
LEMMA ReceiptsKeep ==
    ASSUME RP!IInv, R!Next \/ UNCHANGED receipts PROVE RP!IInv'
  BY RP!NextKeeps, SameNext DEF receipts, RP!receipts

\* The types of the receipts, and what an open Send knows of its effect.
LEMMA ReceiptFacts ==
    ASSUME RP!IInv
    PROVE  /\ R!TypeOK
           /\ \A c \in Calls : Open(c) =>
                /\ calls[c].inv \in Events /\ calls[c].key \in Keys
                /\ rec[calls[c].inv][calls[c].key] \in {"pending", "expired"}
<1>1. RP!TypeOK
  BY DEF RP!IInv
<1>2. R!TypeOK
  BY <1>1 DEF R!TypeOK, RP!TypeOK, R!Call, RP!Call, R!NoCall, RP!NoCall, R!Outcome, RP!Outcome,
              R!Stage, RP!Stage
<1>3. ASSUME NEW c \in Calls, Open(c)
      PROVE  /\ calls[c].inv \in Events /\ calls[c].key \in Keys
             /\ rec[calls[c].inv][calls[c].key] \in {"pending", "expired"}
  <2>1. calls[c].inv \in Events /\ calls[c].key \in Keys
    BY <1>1, <1>3 DEF RP!TypeOK, RP!Call, RP!NoCall, Open
  <2>2. RP!Knows(c)
    BY DEF RP!IInv
  <2> QED BY <1>3, <2>1, <2>2 DEF RP!Knows, RP!Open, Open
<1> QED BY <1>2, <1>3

------------------------------------------------------------------------------
\* Refinement: every step of the Service is one the receipts allow

\* The head of a queue is its least event.
LEMMA HeadIsLeast ==
    ASSUME NEW floor, Queue(floor) # {}
    PROVE  /\ Head(Queue(floor)) \in Queue(floor)
           /\ \A f \in Queue(floor) : Head(Queue(floor)) <= f
<1> DEFINE q == Queue(floor)
<1>1. q \subseteq Nat
  <2>1. q \subseteq Subscribed
    BY DEF Queue
  <2>2. Events \subseteq Nat
    BY BoundsAssumption DEF Events
  <2> QED BY <2>1, <2>2, BoundsAssumption
<1>2. \E e \in q : \A f \in q : e <= f
  <2>1. IsWellFoundedOn(OpToRel(<, Nat), Nat)
    BY NatLessThanWellFounded
  <2>2. PICK e \in q : \A f \in q : <<f, e>> \notin OpToRel(<, Nat)
    BY <1>1, <2>1, WFMin
  <2>3. \A f \in q : ~(f < e)
    BY <1>1, <2>2 DEF OpToRel
  <2> QED BY <1>1, <2>3
<1> QED BY <1>2, Zenon DEF Head

LEMMA HeadIsEvent ==
    ASSUME NEW floor, Queue(floor) # {}
    PROVE  /\ Head(Queue(floor)) \in Events /\ Head(Queue(floor)) \in Subscribed
           /\ Head(Queue(floor)) # 0
<1>1. Head(Queue(floor)) \in Subscribed
  BY HeadIsLeast DEF Queue
<1>2. 0 \notin Events
  BY BoundsAssumption DEF Events
<1> QED BY <1>1, <1>2, BoundsAssumption

\* poll begins the invocation of the event it delivers.
LEMMA PollReceipts ==
    ASSUME NEW e, Poll(e) PROVE R!Next \/ UNCHANGED receipts
<1> DEFINE floor == IF out.aged > out.floor THEN out.aged ELSE out.floor
           ready == PauseReason(floor) = None /\ ~con.waiting /\ Queue(floor) # {}
<1>1. /\ e = IF ready THEN Head(Queue(floor)) ELSE 0
      /\ IF ready /\ ~inv[e].begun THEN R!Begin(e) ELSE UNCHANGED receipts
  BY DEF Poll
<1>2. CASE ready /\ ~inv[e].begun
  BY <1>1, <1>2, HeadIsEvent DEF R!Next
<1>3. CASE ~(ready /\ ~inv[e].begun)
  BY <1>1, <1>3
<1> QED BY <1>2, <1>3

\* Every step of the Service is a step of the receipts, or leaves them alone.
LEMMA ServiceReceipts == IInv /\ [Next]_vars => R!Next \/ UNCHANGED receipts
<1> SUFFICES ASSUME IInv, [Next]_vars PROVE R!Next \/ UNCHANGED receipts
  OBVIOUS
<1>1. ASSUME NEW d \in Drivers, DriverStep(d) PROVE R!Next \/ UNCHANGED receipts
  <2>1. CASE DriverPoll(d)
    BY <2>1, PollReceipts DEF DriverPoll
  <2>2. CASE ~DriverPoll(d)
    BY <1>1, <2>2 DEF DriverStep, DriverAcquire, DriverGrant, DriverComplete, DriverRelease,
                      DriverObserve, DriverReconcile, DriverRecomplete
  <2> QED BY <2>1, <2>2
<1>2. ASSUME NEW d \in Drivers, NEW c \in Calls, NEW k \in Keys, GuestSend(d, c, k)
      PROVE  R!Next
  <2>1. R!Send(c, drv[d].ev, k, Serving(drv[d].lease, drv[d].ev))
    BY <1>2 DEF GuestSend
  <2>2. R!Usable(drv[d].ev) /\ R!Send(c, drv[d].ev, k, TRUE)
    BY <2>1 DEF R!Send
  <2>3. drv[d].ev \in Events
    BY <1>2, BoundsAssumption
       DEF GuestSend, At, IInv, DriverOK, Driver, OutboxOK, Outbox, Events
  <2> QED BY <2>2, <2>3 DEF R!Next
<1>3. ASSUME NEW c \in Calls, HostStep(c) PROVE R!Next
  <2>1. CASE R!CallStep(c, FALSE)
    BY <2>1 DEF R!Next
  <2>2. CASE R!CallStep(c, Serving(who[c].lease, calls[c].inv))
    <3>1. PICK ok \in BOOLEAN : R!CallStep(c, ok)
      BY <2>2 DEF R!CallStep, R!EffectAdmit, R!Recheck, R!Guard, R!EffectComplete
    <3> QED BY <3>1 DEF R!Next
  <2> QED BY <1>3, <2>1, <2>2 DEF HostStep
<1>4. ASSUME NEW c \in Calls, HostAnswer(c) PROVE R!Next
  BY <1>4 DEF HostAnswer, R!Next
<1>5. ASSUME NEW e \in Events, ReceiptDeadline(e) PROVE R!Next
  BY <1>5 DEF ReceiptDeadline, R!Next
<1>6. CASE \/ \E d \in Drivers : GuestRefused(d) \/ Start(d) \/ Crash(d)
                                 \/ \E then \in {"down", "rearm"} : Cancel(d, then)
           \/ Recover \/ Lapse \/ WaitOver \/ Append \/ Age \/ UNCHANGED vars
  BY <1>6 DEF GuestRefused, Start, Crash, Cancel, Recover, Resume, AcceptGap, Skip, Lapse,
              WaitOver, Append, Age, receipts, vars
<1> QED BY <1>1, <1>2, <1>3, <1>4, <1>5, <1>6 DEF Next

------------------------------------------------------------------------------
\* Steps of the consumer and the drivers

\* A step of the consumer, the outbox and the fates that revives no lease, keeps
\* the cursor from going back and forgets no event.
Calm ==
    /\ OutboxOK(out') /\ out.n <= out'.n
    /\ ConsumerOK(con', out')
    /\ con.cursor <= con'.cursor /\ con.issued <= con'.issued
    /\ \A l \in Nat : l <= con.issued /\ Live(l)' => Live(l)
    /\ \/ con'.cur = con.cur \/ con.cur = 0 \/ con.cur <= con'.cursor
       \/ fate'[con.cur] = "gap"
    /\ fate' \in [Events -> Fates]
    /\ \A e \in Events : fate[e] = "gap" => fate'[e] = "gap" \/ e <= con'.cursor
    /\ \A e \in Events : AckedOK(e)'
    /\ RetainedIsNotSkipped'

\* Driver d of the changed ones D takes a new lease, or gives up or keeps its own,
\* and only one that worked goes on working under it.
Takes(d) ==
    /\ DriverOK(drv'[d], con', out')
    /\ drv'[d].lease \in {0, drv[d].lease} \/ drv'[d].lease > con.issued
    /\ Works(drv'[d]) /\ drv'[d].lease = drv[d].lease /\ Live(drv[d].lease)' => Works(drv[d])

\* A Send stays with its guest, or loses it for good.
Stays(c) ==
    /\ who'[c] = who[c]
    /\ who[c].driver # None => /\ drv'[who[c].driver].pc = "guest"
                               /\ drv'[who[c].driver].lease = who[c].lease
                               /\ drv'[who[c].driver].ev = calls[c].inv
Loses(c) ==
    LET d == who[c].driver IN
    /\ d # None /\ who'[c] = [driver |-> None, lease |-> who[c].lease]
    /\ Live(who[c].lease)' /\ drv'[d].lease = who[c].lease => ~Works(drv'[d])

\* The general step: the receipts change at most their invocations, and at most
\* one driver moves.
LEMMA StepKeeps ==
    ASSUME IInv, RP!IInv', calls' = calls, Calm,
           NEW D \in SUBSET Drivers, \A d, x \in D : d = x,
           drv' \in [Drivers -> Driver], \A x \in Drivers \ D : drv'[x] = drv[x],
           \A d \in D : Takes(d),
           who' \in [Calls -> [driver : Drivers \cup {None}, lease : Nat]],
           \A c \in Calls : \/ Stays(c)
                            \/ Loses(c) /\ who[c].driver \in D,
           \A d \in D, c \in Calls : DeliveryOK(d, c)',
           \A x \in Drivers \ D : drv[x].pc \in {"granting", "guest"} =>
               (Serving(drv[x].lease, drv[x].ev)' => Serving(drv[x].lease, drv[x].ev))
    PROVE  IInv'
<1>1. ASSUME NEW d \in Drivers PROVE DriverOK(drv[d], con, out)'
  <2>1. CASE d \in D
    BY <2>1 DEF Takes
  <2>2. CASE d \notin D
    <3>1. drv'[d] = drv[d] /\ DriverOK(drv[d], con, out)
      BY <2>2 DEF IInv
    <3>2. /\ con.issued \in Nat /\ con'.issued \in Nat /\ con.issued <= con'.issued
          /\ out.n \in Nat /\ out'.n \in Nat /\ out.n <= out'.n
      BY DEF IInv, Calm, ConsumerOK, Consumer, OutboxOK, Outbox
    <3> QED BY <3>1, <3>2 DEF DriverOK, Driver
  <2> QED BY <2>1, <2>2
<1>2. LeasesDiffer'
  <2>1. \A d \in Drivers : drv[d].lease \in Nat /\ drv[d].lease <= con.issued
    BY DEF IInv, DriverOK, Driver
  <2>2. con.issued \in Nat /\ \A d \in Drivers : drv'[d].lease \in Nat
    BY DEF IInv, ConsumerOK, Consumer, Driver
  <2> QED BY <2>1, <2>2 DEF IInv, LeasesDiffer, Takes
<1>3. ASSUME NEW c \in Calls PROVE CallerOK(c)'
  <2>1. CallerOK(c) /\ who[c] \in [driver : Drivers \cup {None}, lease : Nat]
    BY DEF IInv
  <2>2. who'[c].lease = who[c].lease
    BY <2>1 DEF Stays, Loses
  <2>3. who'[c].lease <= con'.issued
    <3>1. con.issued \in Nat /\ con'.issued \in Nat /\ con.issued <= con'.issued
      BY DEF IInv, Calm, ConsumerOK, Consumer
    <3> QED BY <2>1, <2>2, <3>1 DEF CallerOK
  <2>4. calls'[c] = R!NoCall => who'[c] = Nobody
    BY <2>1, DriversAssumption DEF CallerOK, Stays, Loses, Nobody
  <2>5. who'[c].driver # None => /\ drv'[who'[c].driver].pc = "guest"
                                 /\ drv'[who'[c].driver].lease = who'[c].lease
                                 /\ drv'[who'[c].driver].ev = calls'[c].inv
    BY DEF Stays, Loses
  <2>6. ASSUME who'[c].driver = None, Live(who[c].lease)',
               NEW d \in Drivers, drv'[d].lease = who'[c].lease
        PROVE  ~Works(drv'[d])
    <3>1. PICK l \in Nat : l = who[c].lease
      BY <2>1
    <3>2. Live(l)' /\ drv'[d].lease = l /\ l # 0
      BY <2>2, <2>6, <3>1 DEF Live, Fence
    <3>3. l <= con.issued /\ con.issued \in Nat
      BY <2>1, <3>1 DEF IInv, ConsumerOK, Consumer, CallerOK
    <3>4. Live(l)
      BY <3>2, <3>3 DEF Calm
    <3>7. drv[d].lease = l /\ (Works(drv'[d]) => Works(drv[d]))
      <4>1. CASE d \notin D
        BY <4>1, <3>2
      <4>2. CASE d \in D
        <5>1. Takes(d)
          BY <4>2
        <5>2. drv[d].lease = l
          BY <5>1, <3>2, <3>3 DEF Takes
        <5>3. Live(drv[d].lease)'
          BY <3>2 DEF Live, Fence
        <5> QED BY <5>1, <5>2, <5>3, <3>2 DEF Takes
      <4> QED BY <4>1, <4>2
    <3>5. CASE who[c].driver = None
      BY <2>1, <3>1, <3>4, <3>5, <3>7 DEF CallerOK
    <3>6. CASE who[c].driver # None
      <4>1. Loses(c)
        BY <2>6, <3>6 DEF Stays
      <4>2. drv[who[c].driver].lease = who[c].lease /\ who[c].driver \in Drivers
        BY <2>1, <3>6 DEF CallerOK
      <4>3. d = who[c].driver
        BY <3>1, <3>2, <3>7, <4>2 DEF IInv, LeasesDiffer
      <4> QED BY <2>6, <3>1, <3>2, <4>1, <4>3 DEF Loses
    <3> QED BY <3>5, <3>6
  <2> QED BY <2>3, <2>4, <2>5, <2>6 DEF CallerOK
<1>4. ASSUME NEW c \in Calls PROVE OpenOK(c)'
  <2> SUFFICES ASSUME Open(c)'
               PROVE  \/ calls'[c].inv <= con'.cursor \/ calls'[c].inv = con'.cur
                      \/ fate'[calls'[c].inv] = "gap"
    BY DEF OpenOK
  <2>1. OpenOK(c) /\ Open(c) /\ calls[c].inv \in Events
    BY ReceiptFacts DEF IInv, Open
  <2>2. /\ con.cursor \in Nat /\ con'.cursor \in Nat /\ con.cursor <= con'.cursor
        /\ calls[c].inv \in Nat /\ calls[c].inv # 0
    BY <2>1, EventIsNat DEF IInv, Calm, ConsumerOK, Consumer
  <2>3. CASE calls[c].inv <= con.cursor
    BY <2>2, <2>3
  <2>4. CASE calls[c].inv = con.cur
    BY <2>2, <2>4 DEF Calm
  <2>5. CASE fate[calls[c].inv] = "gap"
    BY <2>1, <2>5 DEF Calm
  <2> QED BY <2>1, <2>3, <2>4, <2>5 DEF OpenOK
<1>5. ASSUME NEW x \in Drivers, NEW c \in Calls PROVE DeliveryOK(x, c)'
  <2>1. CASE x \in D
    BY <2>1
  <2>2. CASE x \notin D
    <3> SUFFICES ASSUME drv'[x].pc \in {"granting", "guest"},
                        Serving(drv[x].lease, drv[x].ev)', fate'[drv'[x].ev] # "gap",
                        Open(c)', calls'[c].inv = drv'[x].ev
                 PROVE  drv'[x].pc = "guest" /\ who'[c].driver = x
      BY DEF DeliveryOK
    <3>1. drv'[x] = drv[x] /\ DeliveryOK(x, c) /\ DriverOK(drv[x], con, out)
      BY <2>2 DEF IInv
    <3>2. Serving(drv[x].lease, drv[x].ev)
      BY <2>2, <3>1
    <3>3. drv[x].ev \in Events /\ con'.cur = drv[x].ev
      BY <3>1, BoundsAssumption
         DEF DriverOK, Driver, IInv, OutboxOK, Outbox, Events, Serving
    <3>4. ~(drv[x].ev <= con'.cursor)
      BY <3>3, BoundsAssumption DEF Calm, ConsumerOK, Consumer, Events
    <3>5. fate[drv[x].ev] # "gap"
      BY <3>1, <3>3, <3>4 DEF Calm
    <3>6. drv[x].pc = "guest" /\ who[c].driver = x
      BY <3>1, <3>2, <3>5 DEF DeliveryOK, Open
    <3> QED BY <2>2, <3>1, <3>6 DEF Stays
  <2> QED BY <2>1, <2>2
<1> QED BY <1>1, <1>2, <1>3, <1>4, <1>5 DEF IInv, Calm

------------------------------------------------------------------------------
\* Calm steps of the consumer's row

\* Nothing moves but the pause, the retry, the drain or the lease.
LEMMA RowCalm ==
    ASSUME IInv, rec' = rec, out' = out, fate' = fate, con' \in Consumer,
           con'.known = con.known, con'.cursor = con.cursor, con'.cur = con.cur,
           con'.issued = con.issued, con'.lastAck = con.lastAck,
           con'.drain <= out.n, con'.token \in {0, con.token},
           con'.attempt \in {0, con.attempt},
           \A l \in Nat : Live(l)' => Live(l)
    PROVE  Calm
<1>1. ConsumerOK(con', out')
  BY BoundsAssumption DEF IInv, ConsumerOK, Consumer
<1>2. \A e \in Events : AckedOK(e)'
  BY DEF IInv, AckedOK
<1>3. RetainedIsNotSkipped'
  BY DEF IInv, RetainedIsNotSkipped
<1>4. out.n <= out'.n /\ con.cursor <= con'.cursor /\ con.issued <= con'.issued
  BY DEF IInv, OutboxOK, Outbox, ConsumerOK, Consumer
<1> QED BY <1>1, <1>2, <1>3, <1>4 DEF Calm, IInv

LEMMA SameCalm ==
    ASSUME IInv, rec' = rec, out' = out, fate' = fate, con' = con PROVE Calm
<1>1. con \in Consumer /\ con.drain <= out.n
  BY DEF IInv, ConsumerOK
<1>2. \A l \in Nat : Live(l)' => Live(l)
  BY DEF Live, Fence
<1> QED BY <1>1, <1>2, RowCalm

LEMMA PauseCalm ==
    ASSUME IInv, rec' = rec, out' = out, fate' = fate,
           NEW reason \in Reason \ {None}, Pause(reason)
    PROVE  Calm /\ con'.cur = con.cur /\ con'.pause = reason /\ con'.issued = con.issued
<1>1. con \in Consumer /\ con.drain <= out.n
  BY DEF IInv, ConsumerOK
<1>2. /\ con' \in Consumer /\ con'.pause = reason
      /\ con'.known = con.known /\ con'.cursor = con.cursor /\ con'.cur = con.cur
      /\ con'.issued = con.issued /\ con'.lastAck = con.lastAck /\ con'.drain = con.drain
      /\ con'.token = con.token /\ con'.attempt = con.attempt
  BY <1>1 DEF Pause, Consumer
<1>3. \A l \in Nat : Live(l)' => Live(l)
  BY <1>2 DEF Live
<1> QED BY <1>1, <1>2, <1>3, RowCalm

LEMMA ReleaseCalm ==
    ASSUME IInv, rec' = rec, out' = out, fate' = fate, NEW l, Release(l)
    PROVE  Calm /\ con'.cur = con.cur /\ con'.issued = con.issued
<1>1. con \in Consumer /\ con.drain <= out.n
  BY DEF IInv, ConsumerOK
<1>2. CASE con.token = l
  <2>1. /\ con' \in Consumer /\ con'.pause = con.pause
        /\ con'.known = con.known /\ con'.cursor = con.cursor /\ con'.cur = con.cur
        /\ con'.issued = con.issued /\ con'.lastAck = con.lastAck /\ con'.drain = con.drain
        /\ con'.token = 0 /\ con'.leased = FALSE /\ con'.attempt = con.attempt
    BY <1>1, <1>2 DEF Release, Consumer
  <2>2. \A x \in Nat : Live(x)' => Live(x)
    BY <2>1 DEF Live, Fence
  <2> QED BY <1>1, <2>1, <2>2, RowCalm
<1>3. CASE con.token # l
  BY <1>3, SameCalm DEF Release
<1> QED BY <1>2, <1>3

LEMMA LapseCalm ==
    ASSUME IInv, rec' = rec, out' = out, fate' = fate, con' = [con EXCEPT !.leased = FALSE]
    PROVE  Calm /\ con'.cur = con.cur
<1>1. con \in Consumer /\ con.drain <= out.n
  BY DEF IInv, ConsumerOK
<1>2. /\ con' \in Consumer /\ con'.leased = FALSE
      /\ con'.known = con.known /\ con'.cursor = con.cursor /\ con'.cur = con.cur
      /\ con'.issued = con.issued /\ con'.lastAck = con.lastAck /\ con'.drain = con.drain
      /\ con'.token = con.token /\ con'.attempt = con.attempt
  BY <1>1 DEF Consumer
<1>3. \A l \in Nat : Live(l)' => Live(l)
  BY <1>2 DEF Live, Fence
<1> QED BY <1>1, <1>2, <1>3, RowCalm

LEMMA WaitCalm ==
    ASSUME IInv, rec' = rec, out' = out, fate' = fate,
           NEW b \in BOOLEAN, con' = [con EXCEPT !.waiting = b]
    PROVE  Calm /\ con'.cur = con.cur /\ con'.issued = con.issued
<1>1. con \in Consumer /\ con.drain <= out.n
  BY DEF IInv, ConsumerOK
<1>2. /\ con' \in Consumer /\ con'.leased = con.leased /\ con'.pause = con.pause
      /\ con'.known = con.known /\ con'.cursor = con.cursor /\ con'.cur = con.cur
      /\ con'.issued = con.issued /\ con'.lastAck = con.lastAck /\ con'.drain = con.drain
      /\ con'.token = con.token /\ con'.attempt = con.attempt
  BY <1>1 DEF Consumer
<1>3. \A l \in Nat : Live(l)' => Live(l)
  BY <1>2 DEF Live, Fence
<1> QED BY <1>1, <1>2, <1>3, RowCalm

LEMMA ResumeCalm ==
    ASSUME IInv, Resume PROVE Calm /\ con'.cur = con.cur
<1>1. con \in Consumer /\ con.drain <= out.n /\ out.n \in Nat
  BY DEF IInv, ConsumerOK, OutboxOK, Outbox
<1>2. con' = Resumed /\ ~LeaseActive /\ rec' = rec /\ out' = out /\ fate' = fate
  BY DEF Resume, Decide
<1>3. None \in Reason
  BY DEF Reason
<1>4. /\ con' \in Consumer /\ con'.leased = con.leased /\ con'.drain \in {con.drain, out.n}
      /\ con'.known = con.known /\ con'.cursor = con.cursor /\ con'.cur = con.cur
      /\ con'.issued = con.issued /\ con'.lastAck = con.lastAck
      /\ con'.token = con.token /\ con'.attempt = 0
  BY <1>1, <1>2, <1>3 DEF Resumed, Consumer
<1>5. \A l \in Nat : ~Live(l)'
  BY <1>2, <1>4 DEF Live, Fence, LeaseActive
<1>6. con'.drain <= out.n
  BY <1>1, <1>4
<1> QED BY <1>2, <1>4, <1>5, <1>6, RowCalm

\* acquire; the first one starts at the tail.
LEMMA AcquireCalm ==
    ASSUME IInv, Acquire, rec' = rec, out' = out
    PROVE  /\ Calm /\ con'.cur = con.cur
           /\ con'.token = con'.issued /\ con'.issued = con.issued + 1
<1>1. /\ con \in Consumer /\ con.drain <= out.n /\ out \in Outbox
      /\ fate \in [Events -> Fates]
  BY DEF IInv, ConsumerOK, OutboxOK
<1>2. /\ con' \in Consumer /\ con'.leased = TRUE /\ con'.drain = con.drain
      /\ con'.known = TRUE /\ con'.cursor = (IF con.known THEN con.cursor ELSE out.n)
      /\ con'.cur = con.cur
      /\ con'.issued = con.issued + 1 /\ con'.lastAck = con.lastAck
      /\ con'.token = con.issued + 1 /\ con'.attempt = con.attempt
  <2>1. con.issued \in Nat /\ con.issued + 1 \in Nat /\ out.n \in Nat
    BY <1>1 DEF Consumer, Outbox
  <2>2. con' = [con EXCEPT !.known = TRUE, !.token = con.issued + 1,
                           !.issued = con.issued + 1, !.leased = TRUE,
                           !.cursor = IF con.known THEN con.cursor ELSE out.n]
    BY DEF Acquire
  <2> QED BY <1>1, <2>1, <2>2 DEF Consumer
<1>3. \A e \in Events : fate'[e] = IF ~con.known /\ e <= out.n THEN "before" ELSE fate[e]
  BY DEF Acquire
<1>4. fate' \in [Events -> Fates]
  <2>1. fate' = [e \in Events |-> fate'[e]]
    BY DEF Acquire
  <2>2. \A e \in Events : fate'[e] \in Fates
    BY <1>1, <1>3 DEF Fates
  <2> QED BY <2>1, <2>2
<1>5. /\ con.cursor <= con'.cursor /\ con.issued <= con'.issued /\ con'.cursor <= out.n
      /\ out.n <= out.n
  BY <1>1, <1>2 DEF IInv, ConsumerOK, Consumer, Outbox
<1>6. ConsumerOK(con', out')
  <2>1. con'.token <= con'.issued
    BY <1>1, <1>2 DEF Consumer
  <2>2. con'.cur # 0 => con.known
    BY <1>2 DEF IInv, ConsumerOK
  <2> QED BY <1>2, <1>5, <2>1, <2>2 DEF IInv, ConsumerOK
<1>7. \A l \in Nat : l <= con.issued => ~Live(l)'
  BY <1>1, <1>2 DEF Live, Fence, Consumer
<1>8. ASSUME NEW e \in Events PROVE AckedOK(e)'
  <2>1. AckedOK(e) /\ e \in Nat /\ con.cursor \in Nat /\ con'.cursor \in Nat
    BY <1>1, <1>2, EventIsNat DEF IInv, Consumer
  <2> QED BY <2>1, <1>3, <1>5 DEF AckedOK
<1>9. RetainedIsNotSkipped'
  <2> SUFFICES ASSUME NEW e \in Subscribed, out'.floor < e, e <= con'.cursor
               PROVE  fate'[e] # None
    BY DEF RetainedIsNotSkipped
  <2>1. e \in Events
    BY BoundsAssumption
  <2>2. CASE con.known
    BY <2>1, <2>2, <1>2, <1>3 DEF IInv, RetainedIsNotSkipped
  <2>3. CASE ~con.known
    BY <2>1, <2>3, <1>2, <1>3 DEF None
  <2> QED BY <2>2, <2>3
<1>10. ASSUME NEW e \in Events, fate[e] = "gap" PROVE fate'[e] = "gap" \/ e <= con'.cursor
  BY <1>2, <1>3, <1>10
<1> QED BY <1>2, <1>4, <1>5, <1>6, <1>7, <1>8, <1>9, <1>10 DEF Calm, IInv

\* An uncertain result only pauses.
LEMMA IndeterminatePauses ==
    ASSUME NEW e, Complete(e, "indeterminate")
    PROVE  Pause("indeterminate") /\ fate' = fate
  BY DEF Complete, Accepts

\* complete; only an ack moves the cursor, and no effect of its event is open.
LEMMA CompleteCalm ==
    ASSUME IInv, NEW e \in Events, NEW result, Complete(e, result), rec' = rec, out' = out
    PROVE  /\ Calm /\ con'.cur \in {0, con.cur} /\ con'.issued = con.issued
<1>1. CASE con' = con /\ fate' = fate
  BY <1>1, SameCalm
<1>2. ASSUME NEW reason \in {"indeterminate", "attempts_exhausted", "rejected"},
             Pause(reason), fate' = fate
      PROVE  Calm /\ con'.cur \in {0, con.cur} /\ con'.issued = con.issued
  <2>1. reason \in Reason \ {None}
    BY DEF Reason, None
  <2> QED BY <1>2, <2>1, PauseCalm
<1>3. CASE con' = [con EXCEPT !.waiting = TRUE] /\ fate' = fate
  BY <1>3, WaitCalm
<1>4. CASE /\ con.cur = e /\ ~UnknownEffect
           /\ con' = [con EXCEPT !.cursor = e, !.lastAck = e, !.cur = 0,
                                 !.attempt = 0, !.waiting = FALSE]
           /\ fate' = [fate EXCEPT ![e] = "acked"]
  <2>1. con \in Consumer /\ e \in Nat /\ e # 0 /\ fate \in [Events -> Fates]
    BY EventIsNat DEF IInv, ConsumerOK
  <2>2. /\ con' \in Consumer /\ con'.leased = con.leased /\ con'.drain = con.drain
        /\ con'.pause = con.pause /\ con'.token = con.token
        /\ con'.known = con.known /\ con'.cursor = e /\ con'.cur = 0
        /\ con'.issued = con.issued /\ con'.lastAck = e /\ con'.attempt = 0
    BY <1>4, <2>1 DEF Consumer
  <2>3. con.cursor <= e /\ e <= out.n /\ con.known
        /\ \A f \in Subscribed : con.cursor < f /\ f < e => f <= out.floor
    BY <1>4, <2>1 DEF IInv, ConsumerOK, Consumer
  <2>4. ConsumerOK(con', out')
    <3>1. 0 <= MaxAttempts
      BY BoundsAssumption
    <3>2. /\ con.drain <= out.n /\ con.token <= con.issued
          /\ (~con.known => con.token = 0)
      BY DEF IInv, ConsumerOK
    <3>3. out' = out /\ 0 <= out.n
      BY DEF IInv, OutboxOK, Outbox
    <3> QED BY <2>2, <2>3, <3>1, <3>2, <3>3 DEF ConsumerOK
  <2>5. /\ fate' \in [Events -> Fates] /\ fate'[e] = "acked"
        /\ \A x \in Events : x # e => fate'[x] = fate[x]
    BY <1>4, <2>1 DEF Fates
  <2>6. \A l \in Nat : Live(l)' => Live(l)
    BY <2>2 DEF Live, Fence
  <2>7. ASSUME NEW x \in Events PROVE AckedOK(x)'
    <3>1. CASE x = e
      <4>1. R!TypeOK
        BY ReceiptFacts DEF IInv
      <4>2. \A k \in Keys : rec[e][k] \notin {"pending", "unknown", "expired"}
        BY <1>4, <2>1 DEF UnknownEffect
      <4>3. \A k \in Keys : rec[e][k] \in {"none", "response", "refused"}
        BY <4>1, <4>2 DEF R!TypeOK, R!Outcome
      <4> QED BY <2>1, <2>2, <3>1, <4>3 DEF AckedOK
    <3>2. CASE x # e
      <4>1. AckedOK(x) /\ x \in Nat /\ con.cursor \in Nat
        BY <2>1, EventIsNat DEF IInv, Consumer
      <4> QED BY <2>1, <2>2, <2>3, <2>5, <3>2, <4>1 DEF AckedOK
    <3> QED BY <3>1, <3>2
  <2>8. RetainedIsNotSkipped'
    <3> SUFFICES ASSUME NEW x \in Subscribed, out'.floor < x, x <= con'.cursor
                 PROVE  fate'[x] # None
      BY DEF RetainedIsNotSkipped
    <3>1. x \in Events /\ x \in Nat
      BY BoundsAssumption, EventIsNat
    <3>2. CASE x = e
      BY <3>2, <2>5 DEF None
    <3>3. CASE x # e
      <4>1. x < e /\ out.floor < x /\ out.floor \in Nat /\ con.cursor \in Nat
        BY <2>1, <2>2, <3>1, <3>3 DEF IInv, OutboxOK, Outbox, Consumer
      <4>2. x <= con.cursor
        BY <2>3, <3>1, <4>1
      <4> QED BY <2>3, <2>5, <3>1, <3>3, <4>1, <4>2 DEF IInv, RetainedIsNotSkipped
    <3> QED BY <3>2, <3>3
  <2>9. ASSUME NEW x \in Events, fate[x] = "gap" PROVE fate'[x] = "gap" \/ x <= con'.cursor
    BY <2>1, <2>2, <2>5, <2>9
  <2>10. out.n <= out'.n /\ con.issued <= con'.issued
    BY <2>2 DEF IInv, OutboxOK, Outbox, ConsumerOK, Consumer
  <2>11. con.cur <= con'.cursor
    BY <1>4, <2>1, <2>2
  <2> QED BY <2>2, <2>3, <2>4, <2>5, <2>6, <2>7, <2>8, <2>9, <2>10, <2>11 DEF Calm, IInv
<1> QED BY <1>1, <1>2, <1>3, <1>4 DEF Complete

\* Skip and AcceptGap; nothing the cursor passes is forgotten.
LEMMA AbandonCalm ==
    ASSUME IInv, rec' = rec, out' = out, NEW to \in Nat, con.cursor <= to, to <= out.n,
           con' = Abandoned(to), con.pause # None, ~LeaseActive,
           fate' \in [Events -> Fates],
           con.cur = 0 \/ con.cur <= to \/ fate'[con.cur] = "gap",
           \A e \in Events : \/ fate'[e] = fate[e]
                             \/ fate'[e] = "gap"
                             \/ fate'[e] = "skipped" /\ e <= to,
           \A e \in Subscribed : con.cursor < e /\ e <= to /\ out.floor < e => fate'[e] # None
    PROVE  Calm /\ con'.cur = 0
<1>1. con \in Consumer /\ con.cursor \in Nat /\ out.n \in Nat
  BY DEF IInv, ConsumerOK, Consumer, OutboxOK, Outbox
<1>2. None \in Reason
  BY DEF Reason
<1>3. /\ con' \in Consumer /\ con'.leased = con.leased /\ con'.drain = con.drain
      /\ con'.token = con.token
      /\ con'.known = con.known /\ con'.cursor = to /\ con'.cur = 0
      /\ con'.issued = con.issued /\ con'.lastAck = con.lastAck /\ con'.attempt = 0
  BY <1>1, <1>2 DEF Abandoned, Consumer
<1>4. ConsumerOK(con', out')
  <2>1. 0 <= MaxAttempts
    BY BoundsAssumption
  <2>2. /\ con.drain <= out.n /\ con.lastAck <= out.n /\ con.token <= con.issued
        /\ (~con.known => con.token = 0)
    BY DEF IInv, ConsumerOK
  <2>3. out' = out /\ to <= out.n /\ 0 <= out.n
    BY <1>1
  <2> QED BY <1>3, <2>1, <2>2, <2>3 DEF ConsumerOK
<1>5. \A l \in Nat : ~Live(l)'
  BY <1>3 DEF Live, Fence, LeaseActive
<1>6. ASSUME NEW e \in Events PROVE AckedOK(e)'
  <2>1. AckedOK(e) /\ e \in Nat
    BY EventIsNat DEF IInv
  <2> QED BY <1>1, <1>3, <2>1 DEF AckedOK
<1>7. RetainedIsNotSkipped'
  <2> SUFFICES ASSUME NEW e \in Subscribed, out'.floor < e, e <= con'.cursor, con'.known
               PROVE  fate'[e] # None
    BY DEF RetainedIsNotSkipped
  <2>1. e \in Events /\ e \in Nat
    BY BoundsAssumption, EventIsNat
  <2>2. CASE con.cursor < e
    BY <1>3, <2>2
  <2>3. CASE e <= con.cursor
    <3>1. fate[e] # None
      BY <1>3, <2>3 DEF IInv, RetainedIsNotSkipped
    <3> QED BY <2>1, <3>1 DEF None
  <2> QED BY <1>1, <2>1, <2>2, <2>3
<1>8. ASSUME NEW e \in Events, fate[e] = "gap" PROVE fate'[e] = "gap" \/ e <= con'.cursor
  BY <1>3, <1>8
<1>9. out.n <= out'.n /\ con.issued <= con'.issued
  BY <1>1, <1>3 DEF Consumer
<1> QED BY <1>3, <1>4, <1>5, <1>6, <1>7, <1>8, <1>9 DEF Calm, IInv

LEMMA SkipCalm ==
    ASSUME IInv, NEW e \in Events, Skip(e) PROVE Calm /\ con'.cur = 0
<1>1. /\ con.pause # None /\ ~LeaseActive /\ con' = Abandoned(e) /\ rec' = rec /\ out' = out
      /\ fate' = [fate EXCEPT ![e] = "skipped"]
      /\ con.cur = e \/ (con.cur = 0 /\ Queue(out.floor) # {} /\ e = Head(Queue(out.floor)))
  BY DEF Skip, Decide, receipts
<1>2. /\ con \in Consumer /\ con.cursor \in Nat /\ con.cur \in Nat /\ out.n \in Nat
      /\ out.floor \in Nat /\ fate \in [Events -> Fates]
      /\ e \in Nat /\ e # 0
  BY EventIsNat DEF IInv, ConsumerOK, Consumer, OutboxOK, Outbox
<1>3. /\ con.cursor < e /\ e <= out.n
      /\ \A f \in Subscribed : con.cursor < f /\ f < e => f <= out.floor
  <2>1. CASE con.cur = e
    BY <1>2, <2>1 DEF IInv, ConsumerOK
  <2>2. CASE Queue(out.floor) # {} /\ e = Head(Queue(out.floor))
    <3>1. e \in Queue(out.floor) /\ \A f \in Queue(out.floor) : e <= f
      BY <2>2, HeadIsLeast
    <3>2. ASSUME NEW f \in Subscribed, con.cursor < f, f < e PROVE f <= out.floor
      <4>1. f \in Nat /\ (f <= out.n)
        BY <1>2, <3>1, <3>2, BoundsAssumption, EventIsNat DEF Queue
      <4>2. f \notin Queue(out.floor)
        BY <1>2, <3>1, <3>2, <4>1
      <4> QED BY <1>2, <3>2, <4>1, <4>2 DEF Queue
    <3> QED BY <3>1, <3>2 DEF Queue
  <2> QED BY <1>1, <2>1, <2>2
<1>4. /\ fate' \in [Events -> Fates] /\ fate'[e] = "skipped"
      /\ \A x \in Events : x # e => fate'[x] = fate[x]
  BY <1>1, <1>2 DEF Fates
<1>5. ASSUME NEW x \in Events
      PROVE  \/ fate'[x] = fate[x] \/ fate'[x] = "gap" \/ (fate'[x] = "skipped" /\ x <= e)
  BY <1>2, <1>4
<1>6. ASSUME NEW x \in Subscribed, con.cursor < x, x <= e, out.floor < x PROVE fate'[x] # None
  <2>1. x \in Nat /\ x = e
    BY <1>2, <1>3, <1>6, BoundsAssumption, EventIsNat
  <2> QED BY <2>1, <1>4 DEF None
<1>7. con.cursor <= e /\ (con.cur = 0 \/ con.cur <= e)
  BY <1>1, <1>2, <1>3
<1> QED BY <1>1, <1>2, <1>3, <1>4, <1>5, <1>6, <1>7, AbandonCalm

LEMMA GapCalm ==
    ASSUME IInv, AcceptGap PROVE Calm /\ con'.cur = 0
<1>1. /\ con.pause # None /\ ~LeaseActive /\ con' = Abandoned(out.floor)
      /\ rec' = rec /\ out' = out /\ out.floor >= con.cursor
  BY DEF AcceptGap, Decide, receipts
<1>2. \A e \in Events : fate'[e] = IF e = con.cur \/ (e \in Subscribed /\ con.cursor < e /\ e <= out.floor)
                                   THEN "gap" ELSE fate[e]
  BY DEF AcceptGap
<1>3. /\ con.cursor \in Nat /\ con.cur \in Nat /\ out.n \in Nat /\ con.cur <= MaxEvents
      /\ out.floor \in Nat /\ out.floor <= out.n /\ fate \in [Events -> Fates]
  BY BoundsAssumption DEF IInv, ConsumerOK, Consumer, OutboxOK, Outbox
<1>4. fate' \in [Events -> Fates]
  <2>1. fate' = [e \in Events |-> fate'[e]]
    BY DEF AcceptGap
  <2>2. \A e \in Events : fate'[e] \in Fates
    BY <1>2, <1>3 DEF Fates
  <2> QED BY <2>1, <2>2
<1>5. con.cur = 0 \/ fate'[con.cur] = "gap"
  BY <1>2, <1>3, BoundsAssumption DEF Events
<1>6. ASSUME NEW e \in Subscribed, con.cursor < e, e <= out.floor, out.floor < e PROVE FALSE
  BY <1>3, <1>6, BoundsAssumption, EventIsNat
<1>7. con.cursor <= out.floor
  BY <1>1, <1>3
<1> QED BY <1>1, <1>2, <1>3, <1>4, <1>5, <1>6, <1>7, AbandonCalm

\* Events are appended and get old.
LEMMA OutboxCalm ==
    ASSUME IInv, con' = con, fate' = fate, rec' = rec, OutboxOK(out'), out.n <= out'.n,
           out.floor <= out'.floor
    PROVE  Calm
<1>1. /\ con \in Consumer /\ out \in Outbox /\ out' \in Outbox
  BY DEF IInv, ConsumerOK, OutboxOK
<1>2. ConsumerOK(con', out')
  <2>1. \A f \in Subscribed : f <= out.floor => f <= out'.floor
    BY <1>1, BoundsAssumption, EventIsNat DEF Outbox
  <2> QED BY <1>1, <2>1 DEF IInv, ConsumerOK, Consumer, Outbox
<1>3. \A e \in Events : AckedOK(e)'
  BY DEF IInv, AckedOK
<1>4. RetainedIsNotSkipped'
  <2>1. \A f \in Subscribed : out'.floor < f => out.floor < f
    BY <1>1, BoundsAssumption, EventIsNat DEF Outbox
  <2> QED BY <2>1 DEF IInv, RetainedIsNotSkipped
<1>5. \A l \in Nat : Live(l)' => Live(l)
  BY DEF Live, Fence
<1>6. con.cursor <= con'.cursor /\ con.issued <= con'.issued
  BY <1>1 DEF Consumer
<1> QED BY <1>2, <1>3, <1>4, <1>5, <1>6 DEF Calm, IInv

\* poll, with its pruning of the outbox: an event is delivered from the head of the
\* queue, and again only when none of its effects is open.
LEMMA PollCalm ==
    ASSUME IInv, NEW l, Fence(l), NEW e, Poll(e), fate' = fate
    PROVE  /\ Calm /\ calls' = calls
           /\ con'.token = con.token /\ con'.issued = con.issued
           /\ e # 0 => /\ e \in Events /\ e <= out'.n /\ con'.pause = None
                       /\ \A c \in Calls : Open(c) /\ calls[c].inv = e => fate[e] = "gap"
<1> DEFINE floor == IF out.aged > out.floor THEN out.aged ELSE out.floor
           reason == PauseReason(floor)
           ready == reason = None /\ ~con.waiting /\ Queue(floor) # {}
<1>1. /\ out' = [out EXCEPT !.floor = floor]
      /\ e = IF ready THEN Head(Queue(floor)) ELSE 0
      /\ con' = IF ready
                THEN [con EXCEPT !.cur = e, !.attempt = @ + 1, !.waiting = TRUE]
                ELSE [con EXCEPT !.pause = reason]
      /\ IF ready /\ ~inv[e].begun THEN R!Begin(e) ELSE UNCHANGED receipts
  BY DEF Poll
<1>2. rec' = rec /\ calls' = calls
  BY <1>1 DEF R!Begin, receipts
<1>3. /\ con \in Consumer /\ out \in Outbox /\ out.floor <= out.aged /\ out.aged <= out.n
      /\ out.n <= MaxEvents /\ con.token # 0
  BY DEF IInv, ConsumerOK, OutboxOK, Fence
<1>4. con.known
  BY <1>3 DEF IInv, ConsumerOK
<1>5. floor \in Nat /\ out.floor <= floor /\ floor <= out.aged
  BY <1>3 DEF Outbox
<1>6. /\ reason \in Reason
      /\ reason = None =>
          /\ con.pause = None /\ ~UnknownEffect
          /\ con.waiting \/ con.cur = 0 \/
             (~(con.attempt >= MaxAttempts) /\ (Queue(floor) # {} => Head(Queue(floor)) = con.cur))
  <2>1. con.pause \in Reason
    BY <1>3 DEF Consumer
  <2> QED BY <2>1 DEF PauseReason, Reason, None
<1> HIDE DEF floor, reason
<1>7. OutboxOK(out') /\ out.n <= out'.n /\ out'.n = out.n /\ out'.floor = floor
  BY <1>1, <1>3, <1>5 DEF OutboxOK, Outbox
<1>8. ASSUME NEW f \in Subscribed PROVE f \in Nat /\ (f <= out.floor => f <= out'.floor)
                                        /\ (out'.floor < f => out.floor < f)
  BY <1>3, <1>5, <1>7, EventIsNat, BoundsAssumption DEF Outbox
<1>9. CASE ~ready
  <2>1. e = 0 /\ con' = [con EXCEPT !.pause = reason]
    BY <1>1, <1>9
  <2>2. /\ con' \in Consumer /\ con'.pause = reason /\ con'.leased = con.leased
        /\ con'.known = con.known /\ con'.cursor = con.cursor /\ con'.cur = con.cur
        /\ con'.issued = con.issued /\ con'.lastAck = con.lastAck /\ con'.drain = con.drain
        /\ con'.token = con.token /\ con'.attempt = con.attempt
    BY <1>3, <1>6, <2>1 DEF Consumer
  <2>3. ConsumerOK(con', out')
    BY <1>7, <1>8, <2>2 DEF IInv, ConsumerOK
  <2>4. \A x \in Nat : Live(x)' => Live(x)
    BY <1>6, <2>2 DEF Live, Fence
  <2>5. \A x \in Events : AckedOK(x)'
    BY <1>2, <2>2 DEF IInv, AckedOK
  <2>6. RetainedIsNotSkipped'
    BY <1>8, <2>2 DEF IInv, RetainedIsNotSkipped
  <2>7. con.cursor <= con'.cursor /\ con.issued <= con'.issued
    BY <1>3, <2>2 DEF Consumer
  <2> QED BY <1>2, <1>7, <2>1, <2>2, <2>3, <2>4, <2>5, <2>6, <2>7 DEF Calm, IInv
<1>10. CASE ready
  <2>1. /\ e = Head(Queue(floor)) /\ reason = None /\ Queue(floor) # {} /\ ~con.waiting
        /\ con' = [con EXCEPT !.cur = e, !.attempt = con.attempt + 1, !.waiting = TRUE]
    BY <1>1, <1>10
  <2>2. /\ e \in Events /\ e \in Nat /\ e # 0 /\ e \in Queue(floor)
        /\ \A f \in Queue(floor) : e <= f
    BY <2>1, HeadIsLeast, HeadIsEvent, EventIsNat
  <2>3. /\ con.pause = None /\ ~UnknownEffect
        /\ con.cur = 0 \/ (con.cur = e /\ con.attempt < MaxAttempts)
    <3>1. con.attempt \in Nat /\ MaxAttempts \in Nat
      BY <1>3, BoundsAssumption DEF Consumer
    <3> QED BY <1>6, <2>1, <3>1
  <2>4. /\ con' \in Consumer /\ con'.pause = None /\ con'.leased = con.leased
        /\ con'.known = con.known /\ con'.cursor = con.cursor /\ con'.cur = e
        /\ con'.issued = con.issued /\ con'.lastAck = con.lastAck /\ con'.drain = con.drain
        /\ con'.token = con.token /\ con'.attempt = con.attempt + 1
    <3>1. con.attempt \in Nat /\ con.attempt + 1 \in Nat
      BY <1>3 DEF Consumer
    <3> QED BY <1>3, <2>1, <2>2, <2>3, <3>1 DEF Consumer
  <2>5. ConsumerOK(con', out')
    <3>1. con'.attempt <= MaxAttempts
      <4>1. con.attempt \in Nat /\ (con.cur = 0 => con.attempt = 0)
        BY <1>3 DEF Consumer, IInv, ConsumerOK
      <4> QED BY <2>3, <2>4, <4>1, BoundsAssumption
    <3>2. con.cursor < e /\ e <= out.n
      BY <2>2 DEF Queue
    <3>3. ASSUME NEW f \in Subscribed, con.cursor < f, f < e PROVE f <= out'.floor
      <4>1. f \in Nat /\ f <= out.n
        BY <1>3, <1>8, <2>2, <3>2, <3>3 DEF Outbox
      <4>2. f \notin Queue(floor)
        BY <2>2, <3>3, <4>1
      <4> QED BY <1>5, <1>7, <3>3, <4>1, <4>2 DEF Queue
    <3> QED BY <1>4, <1>7, <2>2, <2>4, <3>1, <3>2, <3>3 DEF IInv, ConsumerOK
  <2>6. \A x \in Nat : Live(x)' => Live(x)
    BY <2>3, <2>4 DEF Live, Fence
  <2>7. \A x \in Events : AckedOK(x)'
    BY <1>2, <2>4 DEF IInv, AckedOK
  <2>8. RetainedIsNotSkipped'
    BY <1>8, <2>4 DEF IInv, RetainedIsNotSkipped
  <2>9. con.cursor <= con'.cursor /\ con.issued <= con'.issued
    BY <1>3, <2>4 DEF Consumer
  <2>10. Calm
    BY <1>7, <2>3, <2>4, <2>5, <2>6, <2>7, <2>8, <2>9 DEF Calm, IInv
  <2>11. ASSUME NEW c \in Calls, Open(c), calls[c].inv = e PROVE fate[e] = "gap"
    <3>1. calls[c].key \in Keys /\ rec[e][calls[c].key] \in {"pending", "expired"}
      BY <2>11, ReceiptFacts DEF IInv
    <3>2. con.cur # e
      BY <2>2, <2>3, <3>1 DEF UnknownEffect
    <3>3. ~(e <= con.cursor)
      BY <1>3, <2>2 DEF Queue, Consumer
    <3> QED BY <2>11, <3>2, <3>3 DEF IInv, OpenOK
  <2> QED BY <1>2, <1>7, <2>2, <2>4, <2>10, <2>11 DEF Queue
<1> QED BY <1>9, <1>10

------------------------------------------------------------------------------
\* Steps that move no driver, or one

\* Under a lease given out before, no calm step makes an event served anew.
LEMMA ServedBefore ==
    ASSUME IInv, Calm, con'.cur \in {0, con.cur},
           NEW l \in Nat, NEW e, l <= con.issued, e # 0, Serving(l, e)'
    PROVE  Serving(l, e)
<1>1. Live(l)' /\ con'.cur = e
  BY DEF Serving, Live, Fence
<1>2. Live(l)
  BY <1>1 DEF Calm
<1> QED BY <1>1, <1>2 DEF Serving, Live

LEMMA NoDriver ==
    ASSUME IInv, RP!IInv', calls' = calls, Calm, con'.cur \in {0, con.cur},
           drv' = drv, who' = who
    PROVE  IInv'
<1>1. \A c \in Calls : Stays(c)
  BY DEF IInv, CallerOK, Stays
<1>2. ASSUME NEW x \in Drivers, drv[x].pc \in {"granting", "guest"},
             Serving(drv[x].lease, drv[x].ev)'
      PROVE  Serving(drv[x].lease, drv[x].ev)
  <2>1. DriverOK(drv[x], con, out)
    BY DEF IInv
  <2>2. PICK l \in Nat, e \in Nat : l = drv[x].lease /\ e = drv[x].ev
    BY <2>1 DEF DriverOK, Driver
  <2>3. l <= con.issued /\ e # 0
    BY <1>2, <2>1, <2>2 DEF DriverOK
  <2>4. Serving(l, e)'
    BY <1>2, <2>2 DEF Serving, Fence
  <2>5. Serving(l, e)
    BY <2>3, <2>4, ServedBefore
  <2> QED BY <2>2, <2>5
<1>3. /\ {} \in SUBSET Drivers
      /\ drv' \in [Drivers -> Driver]
      /\ who' \in [Calls -> [driver : Drivers \cup {None}, lease : Nat]]
  BY DEF IInv
<1> QED BY <1>1, <1>2, <1>3, StepKeeps

\* The guest of driver d goes on, or its Sends are left to themselves.
Follows(d, r) ==
    \/ /\ who' = who
       /\ drv[d].pc = "guest" => r.pc = "guest" /\ r.lease = drv[d].lease /\ r.ev = drv[d].ev
    \/ /\ Orphan(d)
       /\ \/ Live(r.lease)' => ~Works(r)
          \/ \A c \in Calls : who[c].driver # d

\* No open Send of another attempt can meet the guest of driver d.
Delivers(d, r) ==
    \/ r.pc \notin {"granting", "guest"}
    \/ /\ drv[d].pc \in {"granting", r.pc} /\ con'.cur \in {0, con.cur} /\ who' = who
       /\ r.lease = drv[d].lease /\ r.ev = drv[d].ev
    \/ \A c \in Calls : Open(c) /\ calls[c].inv = r.ev => fate'[r.ev] = "gap"

LEMMA OneDriver ==
    ASSUME IInv, RP!IInv', calls' = calls, Calm,
           NEW d \in Drivers, NEW r \in Driver, drv' = [drv EXCEPT ![d] = r],
           DriverOK(r, con', out'),
           r.lease \in {0, drv[d].lease} \/ r.lease > con.issued,
           Works(r) /\ r.lease = drv[d].lease => Works(drv[d]) \/ ~Live(r.lease)',
           Follows(d, r), Delivers(d, r),
           con'.cur \in {0, con.cur} \/ con'.token = drv[d].lease
    PROVE  IInv'
<1>1. /\ drv \in [Drivers -> Driver] /\ DriverOK(drv[d], con, out)
      /\ who \in [Calls -> [driver : Drivers \cup {None}, lease : Nat]]
  BY DEF IInv
<1>2. /\ drv' \in [Drivers -> Driver] /\ drv'[d] = r
      /\ \A x \in Drivers \ {d} : drv'[x] = drv[x]
  BY <1>1
<1>3. Takes(d)
  BY <1>2 DEF Takes, Live, Fence
<1>4. who' \in [Calls -> [driver : Drivers \cup {None}, lease : Nat]]
  BY <1>1 DEF Follows, Orphan
<1>5. ASSUME NEW c \in Calls PROVE Stays(c) \/ (Loses(c) /\ who[c].driver = d)
  <2>1. CallerOK(c) /\ who[c].driver \in Drivers \cup {None}
    BY <1>1 DEF IInv
  <2>2. CASE who[c].driver # d
    <3>1. who'[c] = who[c]
      BY <2>2 DEF Follows, Orphan
    <3> QED BY <1>2, <2>1, <2>2, <3>1 DEF Stays, CallerOK
  <2>3. CASE who[c].driver = d /\ who' = who
    <3>1. drv[d].pc = "guest" /\ drv[d].lease = who[c].lease /\ drv[d].ev = calls[c].inv
      BY <2>1, <2>3, DriversAssumption DEF CallerOK
    <3>2. CASE r.pc = "guest" /\ r.lease = drv[d].lease /\ r.ev = drv[d].ev
      BY <1>2, <2>3, <3>1, <3>2 DEF Stays
    <3>3. CASE Orphan(d)
      <4>1. who'[c].driver = None
        BY <1>1, <2>3, <3>3 DEF Orphan
      <4> QED BY <2>3, <4>1, DriversAssumption
    <3> QED BY <3>1, <3>2, <3>3 DEF Follows
  <2>4. CASE who[c].driver = d /\ who' # who
    <3>1. Orphan(d) /\ (Live(r.lease)' => ~Works(r))
      BY <2>4 DEF Follows
    <3>2. who'[c] = [driver |-> None, lease |-> who[c].lease]
      BY <1>1, <2>4, <3>1 DEF Orphan
    <3>3. ASSUME Live(who[c].lease)', drv'[d].lease = who[c].lease PROVE ~Works(drv'[d])
      <4>1. who'[c].lease = who[c].lease /\ r.lease = who[c].lease
        BY <1>2, <3>2, <3>3
      <4>2. Live(r.lease)'
        BY <3>3, <4>1 DEF Live, Fence
      <4> QED BY <1>2, <3>1, <4>2
    <3> QED BY <2>4, <3>2, <3>3, DriversAssumption DEF Loses
  <2> QED BY <2>2, <2>3, <2>4
<1>6. ASSUME NEW c \in Calls PROVE DeliveryOK(d, c)'
  <2> SUFFICES ASSUME drv'[d].pc \in {"granting", "guest"},
                      Serving(drv[d].lease, drv[d].ev)', fate'[drv'[d].ev] # "gap",
                      Open(c)', calls'[c].inv = drv'[d].ev
               PROVE  drv'[d].pc = "guest" /\ who'[c].driver = d
    BY DEF DeliveryOK
  <2>1. Open(c) /\ calls[c].inv = r.ev
    BY <1>2 DEF Open
  <2>2. CASE \A x \in Calls : Open(x) /\ calls[x].inv = r.ev => fate'[r.ev] = "gap"
    BY <1>2, <2>1, <2>2
  <2>3. CASE /\ drv[d].pc \in {"granting", r.pc} /\ con'.cur \in {0, con.cur} /\ who' = who
             /\ r.lease = drv[d].lease /\ r.ev = drv[d].ev
    <3>1. PICK l \in Nat, e \in Nat : l = r.lease /\ e = r.ev
      BY DEF Driver
    <3>2. l <= con.issued /\ e # 0
      BY <1>1, <1>2, <2>3, <3>1 DEF DriverOK
    <3>3. Serving(l, e)'
      BY <1>2, <3>1 DEF Serving, Fence
    <3>4. Serving(l, e)
      BY <2>3, <3>2, <3>3, ServedBefore
    <3>5. e \in Events /\ con'.cur = e
      <4>1. con'.cur = e
        BY <3>3 DEF Serving
      <4>2. con'.cur \in Nat /\ con'.cur <= out'.n /\ out'.n <= MaxEvents /\ out'.n \in Nat
        BY DEF Calm, ConsumerOK, Consumer, OutboxOK, Outbox
      <4> QED BY <3>2, <4>1, <4>2, BoundsAssumption DEF Events
    <3>6. fate[e] # "gap"
      <4>1. ~(e <= con'.cursor)
        BY <3>2, <3>5, BoundsAssumption DEF Calm, ConsumerOK, Consumer, Events
      <4> QED BY <1>2, <3>1, <3>5, <4>1 DEF Calm
    <3>7. drv[d].pc = "guest" /\ who[c].driver = d
      BY <1>2, <2>1, <2>3, <3>1, <3>4, <3>6 DEF IInv, DeliveryOK
    <3> QED BY <1>2, <2>3, <3>7
  <2> QED BY <1>2, <2>2, <2>3 DEF Delivers
<1>7. ASSUME NEW x \in Drivers \ {d}, drv[x].pc \in {"granting", "guest"},
             Serving(drv[x].lease, drv[x].ev)'
      PROVE  Serving(drv[x].lease, drv[x].ev)
  <2>1. DriverOK(drv[x], con, out) /\ drv'[x] = drv[x]
    BY <1>2 DEF IInv
  <2>2. PICK l \in Nat, e \in Nat : l = drv[x].lease /\ e = drv[x].ev
    BY <2>1 DEF DriverOK, Driver
  <2>3. l <= con.issued /\ e # 0
    BY <1>7, <2>1, <2>2 DEF DriverOK
  <2>4. Serving(l, e)'
    BY <1>7, <2>1, <2>2 DEF Serving, Fence
  <2>5. CASE con'.cur \in {0, con.cur}
    BY <2>2, <2>3, <2>4, <2>5, ServedBefore
  <2>6. CASE con'.token = drv[d].lease
    <3>1. con'.token = l /\ l # 0
      BY <2>4 DEF Serving, Fence
    <3> QED BY <1>7, <2>2, <2>6, <3>1 DEF IInv, LeasesDiffer
  <2> QED BY <2>5, <2>6
<1> DEFINE D == {d}
<1>8. D \in SUBSET Drivers /\ (\A x, y \in D : x = y)
  OBVIOUS
<1>9. \A x \in Drivers \ D : drv'[x] = drv[x]
  BY <1>2
<1>10. \A x \in D : Takes(x)
  BY <1>3
<1>11. \A c \in Calls : \/ Stays(c)
                        \/ Loses(c) /\ who[c].driver \in D
  BY <1>5
<1>12. \A x \in D, c \in Calls : DeliveryOK(x, c)'
  BY <1>6
<1>13. \A x \in Drivers \ D : drv[x].pc \in {"granting", "guest"} =>
           (Serving(drv[x].lease, drv[x].ev)' => Serving(drv[x].lease, drv[x].ev))
  BY <1>7
<1> HIDE DEF D
<1> QED BY <1>2, <1>4, <1>8, <1>9, <1>10, <1>11, <1>12, <1>13, StepKeeps

LEMMA RecoverKeeps == ASSUME IInv, RP!IInv', Recover PROVE IInv'
<1>1. drv' = drv /\ who' = who /\ calls' = calls
  BY DEF Recover, Resume, AcceptGap, Skip, Decide, receipts
<1>2. Calm /\ con'.cur \in {0, con.cur}
  BY ResumeCalm, GapCalm, SkipCalm DEF Recover
<1> QED BY <1>1, <1>2, NoDriver

LEMMA ClockKeeps ==
    ASSUME IInv, RP!IInv', Lapse \/ WaitOver PROVE IInv'
<1>1. /\ drv' = drv /\ who' = who /\ calls' = calls /\ rec' = rec /\ out' = out /\ fate' = fate
      /\ \/ con' = [con EXCEPT !.leased = FALSE]
         \/ con' = [con EXCEPT !.waiting = FALSE]
  BY DEF Lapse, WaitOver, receipts
<1>2. Calm /\ con'.cur = con.cur
  BY <1>1, LapseCalm, WaitCalm
<1> QED BY <1>1, <1>2, NoDriver

LEMMA OutboxKeeps ==
    ASSUME IInv, RP!IInv', Append \/ Age PROVE IInv'
<1>1. /\ drv' = drv /\ who' = who /\ calls' = calls /\ rec' = rec /\ con' = con /\ fate' = fate
      /\ \/ out.n < MaxEvents /\ out' = [out EXCEPT !.n = @ + 1]
         \/ out.aged < out.n /\ out' = [out EXCEPT !.aged = @ + 1]
  BY DEF Append, Age, receipts
<1>2. /\ out \in Outbox /\ out.floor <= out.aged /\ out.aged <= out.n /\ out.n <= MaxEvents
  BY DEF IInv, OutboxOK
<1>3. OutboxOK(out') /\ out.n <= out'.n /\ out.floor <= out'.floor
  BY <1>1, <1>2, BoundsAssumption DEF OutboxOK, Outbox
<1>4. Calm
  BY <1>1, <1>3, OutboxCalm
<1> QED BY <1>1, <1>4, NoDriver

LEMMA DeadlineKeeps ==
    ASSUME IInv, RP!IInv', NEW e \in Events, ReceiptDeadline(e) PROVE IInv'
<1>1. /\ drv' = drv /\ who' = who /\ calls' = calls /\ rec' = rec /\ con' = con /\ fate' = fate
      /\ out' = out
  BY DEF ReceiptDeadline, R!DeadlinePasses
<1> QED BY <1>1, SameCalm, NoDriver

LEMMA StutterKeeps == ASSUME IInv, RP!IInv', UNCHANGED vars PROVE IInv'
<1>1. /\ drv' = drv /\ who' = who /\ calls' = calls /\ rec' = rec /\ con' = con /\ fate' = fate
      /\ out' = out
  BY DEF vars
<1> QED BY <1>1, SameCalm, NoDriver

------------------------------------------------------------------------------
\* The driver's requests

\* The record of a driver, taken apart.
LEMMA DriverFacts ==
    ASSUME IInv, NEW d \in Drivers
    PROVE  /\ drv \in [Drivers -> Driver] /\ drv[d] \in Driver /\ DriverOK(drv[d], con, out)
           /\ drv[d].pc \in Pcs /\ drv[d].then \in Thens /\ drv[d].lease \in Nat
           /\ drv[d].ev \in Nat /\ drv[d].unconf \in Nat
           /\ drv[d].uncertain \in BOOLEAN /\ drv[d].parked \in BOOLEAN
  BY DEF IInv, Driver

\* A record that is made from the driver's own stays well formed.
LEMMA RecordOK ==
    ASSUME IInv, Calm, NEW d \in Drivers, NEW r \in Driver,
           r.lease \in {0, drv[d].lease, con'.issued},
           r.ev \in {0, drv[d].ev}, r.unconf \in {0, drv[d].ev, drv[d].unconf},
           r.pc = "down" => r.lease = 0,
           r.pc \in {"granting", "guest"} => r.ev # 0,
           r.pc = "stopping" /\ r.then = "ready" => r.parked,
           r.pc = "reconciling" => r.parked
    PROVE  DriverOK(r, con', out')
<1>1. /\ con.issued \in Nat /\ con'.issued \in Nat /\ con.issued <= con'.issued
      /\ out.n \in Nat /\ out'.n \in Nat /\ out.n <= out'.n
  BY DEF IInv, Calm, ConsumerOK, Consumer, OutboxOK, Outbox
<1>2. /\ drv[d].lease \in Nat /\ drv[d].ev \in Nat /\ drv[d].unconf \in Nat
      /\ drv[d].lease <= con.issued /\ drv[d].ev <= out.n /\ drv[d].unconf <= out.n
  BY DriverFacts DEF DriverOK
<1>3. r.lease <= con'.issued /\ r.ev <= out'.n /\ r.unconf <= out'.n
  BY <1>1, <1>2
<1> QED BY <1>3 DEF DriverOK

\* A driver that parks: its guest, if any, is gone.
LEMMA ParkedRecord ==
    ASSUME IInv, NEW d \in Drivers
    PROVE  /\ Parked(d) \in Driver
           /\ Parked(d).pc = "stopping" /\ Parked(d).then = "ready" /\ Parked(d).parked = TRUE
           /\ Parked(d).ev = 0 /\ Parked(d).lease = drv[d].lease
           /\ Parked(d).unconf = drv[d].unconf
  BY DriverFacts DEF Parked, Driver, Pcs, Thens

\* A step after which driver d neither polls nor runs a guest.
LEMMA RestKeeps ==
    ASSUME IInv, RP!IInv', calls' = calls, Calm,
           NEW d \in Drivers, NEW r \in Driver, drv' = [drv EXCEPT ![d] = r],
           DriverOK(r, con', out'), ~Works(r),
           r.lease \in {0, drv[d].lease} \/ r.lease > con.issued,
           (who' = who /\ drv[d].pc # "guest") \/ Orphan(d),
           con'.cur \in {0, con.cur} \/ con'.token = drv[d].lease
    PROVE  IInv'
<1>1. Follows(d, r)
  BY DEF Follows
<1>2. Delivers(d, r)
  BY DEF Delivers, Works
<1> QED BY <1>1, <1>2, OneDriver

LEMMA ParkKeeps ==
    ASSUME IInv, RP!IInv', calls' = calls, Calm, NEW d \in Drivers,
           NEW u \in {0, drv[d].ev, drv[d].unconf},
           drv' = [drv EXCEPT ![d] = [Parked(d) EXCEPT !.unconf = u]],
           (who' = who /\ drv[d].pc # "guest") \/ Orphan(d),
           con'.cur \in {0, con.cur} \/ con'.token = drv[d].lease
    PROVE  IInv'
<1> DEFINE r == [Parked(d) EXCEPT !.unconf = u]
<1>1. u \in Nat
  BY DriverFacts
<1>2. /\ r \in Driver /\ r.pc = "stopping" /\ r.then = "ready" /\ r.parked = TRUE
      /\ r.ev = 0 /\ r.lease = drv[d].lease /\ r.unconf = u
  BY <1>1, ParkedRecord DEF Driver
<1>3. drv' = [drv EXCEPT ![d] = r]
  OBVIOUS
<1> HIDE DEF r
<1>4. DriverOK(r, con', out')
  BY <1>2, RecordOK
<1>5. ~Works(r)
  BY <1>2 DEF Works
<1>6. r.lease \in {0, drv[d].lease} \/ r.lease > con.issued
  BY <1>2
<1> QED BY <1>2, <1>3, <1>4, <1>5, <1>6, RestKeeps

\* The plain form of ParkKeeps.
LEMMA PlainPark ==
    ASSUME IInv, NEW d \in Drivers, Park(d)
    PROVE  drv' = [drv EXCEPT ![d] = [Parked(d) EXCEPT !.unconf = drv[d].unconf]]
<1>1. drv' = [drv EXCEPT ![d] = Parked(d)]
  BY DriverFacts DEF Park, Parked
<1>2. Parked(d) = [Parked(d) EXCEPT !.unconf = drv[d].unconf]
  BY DriverFacts DEF Parked, Driver
<1> QED BY <1>1, <1>2

LEMMA AcquireKeeps ==
    ASSUME IInv, RP!IInv', NEW d \in Drivers, DriverAcquire(d) PROVE IInv'
<1>1. /\ calls' = calls /\ rec' = rec /\ out' = out /\ who' = who
      /\ drv[d].pc = "ready" /\ ~drv[d].parked /\ drv[d].lease = 0
  BY DEF DriverAcquire, receipts, Polling, At
<1>2. con.issued \in Nat
  BY DEF IInv, ConsumerOK, Consumer
<1>3. ASSUME Acquire, NEW l \in {con'.token, 0}, NEW pc \in {"ready", "stopping", "failed"},
             NEW th \in Thens, (pc = "stopping" => th = "failed"),
             drv' = [drv EXCEPT ![d] = [drv[d] EXCEPT !.lease = l, !.pc = pc, !.then = th]]
      PROVE  IInv'
  <2>1. Calm /\ con'.cur = con.cur /\ con'.token = con'.issued /\ con'.issued = con.issued + 1
    BY <1>1, <1>3, AcquireCalm
  <2> DEFINE r == [drv[d] EXCEPT !.lease = l, !.pc = pc, !.then = th]
  <2>2. /\ r \in Driver /\ r.pc = pc /\ r.then = th /\ r.parked = drv[d].parked /\ r.lease = l
        /\ r.ev = drv[d].ev /\ r.unconf = drv[d].unconf
    <3>1. l \in Nat
      BY <1>2, <2>1
    <3> QED BY <3>1, DriverFacts DEF Driver, Pcs, Thens
  <2>3. drv' = [drv EXCEPT ![d] = r]
    BY <1>3
  <2> HIDE DEF r
  <2>4. DriverOK(r, con', out')
    BY <1>3, <2>1, <2>2, RecordOK
  <2>5. r.lease \in {0, drv[d].lease} \/ r.lease > con.issued
    BY <1>2, <2>1, <2>2
  <2>6. Follows(d, r) /\ Delivers(d, r)
    BY <1>1, <2>2 DEF Follows, Delivers
  <2>7. Works(drv[d])
    BY <1>1 DEF Works
  <2> QED BY <1>1, <2>1, <2>2, <2>3, <2>4, <2>5, <2>6, <2>7, OneDriver
<1>4. ASSUME con' = con, fate' = fate, Goto(d, "failed") PROVE IInv'
  <2>1. Calm
    BY <1>1, <1>4, SameCalm
  <2> DEFINE r == [drv[d] EXCEPT !.pc = "failed"]
  <2>2. /\ r \in Driver /\ r.pc = "failed" /\ r.lease = drv[d].lease
        /\ r.ev = drv[d].ev /\ r.unconf = drv[d].unconf
    BY DriverFacts DEF Driver, Pcs
  <2>3. drv' = [drv EXCEPT ![d] = r]
    BY <1>4 DEF Goto
  <2> HIDE DEF r
  <2>4. DriverOK(r, con', out') /\ ~Works(r)
    BY <2>1, <2>2, RecordOK DEF Works
  <2> QED BY <1>1, <1>4, <2>1, <2>2, <2>3, <2>4, RestKeeps
<1>5. /\ drv[d].then \in Thens /\ drv[d] \in Driver
  BY DriverFacts
<1>6. \/ Acquire /\ drv' = [drv EXCEPT ![d].lease = con'.token]
      \/ Acquire /\ drv' = [drv EXCEPT ![d].lease = con'.token, ![d].pc = "stopping",
                                       ![d].then = "failed"]
      \/ Acquire /\ Goto(d, "failed")
      \/ Goto(d, "failed") /\ con' = con /\ fate' = fate
  BY DEF DriverAcquire
<1>7. CASE Acquire /\ drv' = [drv EXCEPT ![d].lease = con'.token]
  <2>1. drv' = [drv EXCEPT ![d] =
                    [drv[d] EXCEPT !.lease = con'.token, !.pc = "ready", !.then = drv[d].then]]
    BY <1>1, <1>5, <1>7 DEF Driver
  <2> QED BY <1>3, <1>5, <1>7, <2>1
<1>8. CASE Acquire /\ drv' = [drv EXCEPT ![d].lease = con'.token, ![d].pc = "stopping",
                                         ![d].then = "failed"]
  <2>1. drv' = [drv EXCEPT ![d] =
                    [drv[d] EXCEPT !.lease = con'.token, !.pc = "stopping", !.then = "failed"]]
    BY <1>8, DriverFacts
  <2> QED BY <1>3, <1>8, <2>1 DEF Thens
<1>9. CASE Acquire /\ Goto(d, "failed")
  <2>1. drv' = [drv EXCEPT ![d] =
                    [drv[d] EXCEPT !.lease = 0, !.pc = "failed", !.then = drv[d].then]]
    BY <1>1, <1>5, <1>9 DEF Driver, Goto
  <2> QED BY <1>3, <1>5, <1>9, <2>1
<1> QED BY <1>4, <1>6, <1>7, <1>8, <1>9

\* A request that is refused, and perhaps recorded as such; the driver parks.
LEMMA RefusedKeeps ==
    ASSUME IInv, RP!IInv', calls' = calls, rec' = rec, out' = out, fate' = fate,
           NEW d \in Drivers, NEW u \in {0, drv[d].ev, drv[d].unconf},
           drv' = [drv EXCEPT ![d] = [Parked(d) EXCEPT !.unconf = u]],
           Pause("authorization") \/ con' = con,
           (who' = who /\ drv[d].pc # "guest") \/ Orphan(d)
    PROVE  IInv'
<1>1. "authorization" \in Reason \ {None}
  BY DEF Reason, None
<1>2. Calm /\ con'.cur = con.cur
  BY <1>1, PauseCalm, SameCalm
<1> QED BY <1>2, ParkKeeps

LEMMA PollKeeps ==
    ASSUME IInv, RP!IInv', NEW d \in Drivers, DriverPoll(d) PROVE IInv'
<1>1. /\ who' = who /\ fate' = fate
      /\ drv[d].pc = "ready" /\ ~drv[d].parked
  BY DEF DriverPoll, Polling, At
<1>2. ASSUME Park(d), calls' = calls, Calm, con'.token = drv[d].lease PROVE IInv'
  <2>1. drv' = [drv EXCEPT ![d] = [Parked(d) EXCEPT !.unconf = drv[d].unconf]]
    BY <1>2, PlainPark
  <2> QED BY <1>1, <1>2, <2>1, ParkKeeps
<1>4. ASSUME Park(d), Pause("authorization") \/ con' = con, out' = out, UNCHANGED receipts
      PROVE  IInv'
  <2>1. drv' = [drv EXCEPT ![d] = [Parked(d) EXCEPT !.unconf = drv[d].unconf]]
    BY <1>4, PlainPark
  <2> QED BY <1>1, <1>4, <2>1, RefusedKeeps DEF receipts
<1>5. CASE \E e \in 0..MaxEvents :
            /\ Fence(drv[d].lease)
            /\ Poll(e)
            /\ \/ /\ NoFault
                  /\ drv' = [drv EXCEPT ![d] =
                                CASE e # 0            -> [@ EXCEPT !.pc = "granting", !.ev = e]
                                  [] con'.pause # None -> Parked(d)
                                  [] OTHER            -> @]
               \/ Fault /\ Park(d)
  <2>1. PICK e \in 0..MaxEvents :
            /\ Fence(drv[d].lease)
            /\ Poll(e)
            /\ \/ drv' = [drv EXCEPT ![d] =
                                CASE e # 0            -> [drv[d] EXCEPT !.pc = "granting", !.ev = e]
                                  [] con'.pause # None -> Parked(d)
                                  [] OTHER            -> drv[d]]
               \/ Park(d)
    BY <1>5
  <2>2. /\ Calm /\ calls' = calls
        /\ con'.token = con.token /\ con'.issued = con.issued
        /\ e # 0 => /\ e \in Events /\ e <= out'.n /\ con'.pause = None
                    /\ \A c \in Calls : Open(c) /\ calls[c].inv = e => fate[e] = "gap"
    BY <1>1, <2>1, PollCalm
  <2>3. con'.token = drv[d].lease
    BY <2>1, <2>2 DEF Fence
  <2>4. CASE Park(d)
    BY <1>2, <2>2, <2>3, <2>4
  <2>5. CASE e # 0 /\ drv' = [drv EXCEPT ![d] = [drv[d] EXCEPT !.pc = "granting", !.ev = e]]
    <3> DEFINE r == [drv[d] EXCEPT !.pc = "granting", !.ev = e]
    <3>1. /\ r \in Driver /\ r.pc = "granting" /\ r.lease = drv[d].lease
          /\ r.ev = e /\ r.unconf = drv[d].unconf
      <4>1. e \in Nat
        BY <2>2, <2>5, EventIsNat
      <4> QED BY <4>1, DriverFacts DEF Driver, Pcs
    <3>2. drv' = [drv EXCEPT ![d] = r]
      BY <2>5
    <3> HIDE DEF r
    <3>3. DriverOK(r, con', out')
      <4>1. drv[d].lease <= con.issued /\ drv[d].unconf <= out.n
        BY DriverFacts DEF DriverOK
      <4>2. out.n \in Nat /\ out'.n \in Nat /\ out.n <= out'.n
        BY <2>2 DEF IInv, Calm, OutboxOK, Outbox
      <4>3. drv[d].unconf <= out'.n
        BY <4>1, <4>2, DriverFacts
      <4> QED BY <2>2, <2>5, <3>1, <4>1, <4>3 DEF DriverOK
    <3>4. Works(drv[d])
      BY <1>1 DEF Works
    <3>5. Follows(d, r)
      BY <1>1 DEF Follows
    <3>6. Delivers(d, r)
      BY <1>1, <2>2, <2>5, <3>1 DEF Delivers
    <3>7. r.lease \in {0, drv[d].lease} \/ r.lease > con.issued
      BY <3>1
    <3> QED BY <2>2, <2>3, <3>1, <3>2, <3>3, <3>4, <3>5, <3>6, <3>7, OneDriver
  <2>6. CASE e = 0 /\ drv' = [drv EXCEPT ![d] = drv[d]]
    <3>1. DriverOK(drv[d], con', out')
      BY <2>2, DriverFacts, RecordOK DEF DriverOK
    <3>2. Works(drv[d])
      BY <1>1 DEF Works
    <3>3. Follows(d, drv[d]) /\ Delivers(d, drv[d])
      BY <1>1 DEF Follows, Delivers
    <3>4. PICK r \in Driver : r = drv[d]
      BY DriverFacts
    <3> QED BY <2>2, <2>3, <2>6, <3>1, <3>2, <3>3, <3>4, OneDriver
  <2>7. CASE drv' = [drv EXCEPT ![d] = Parked(d)]
    BY <1>2, <2>2, <2>3, <2>7 DEF Park
  <2>8. CASE drv' = [drv EXCEPT ![d] =
                        CASE e # 0            -> [drv[d] EXCEPT !.pc = "granting", !.ev = e]
                          [] con'.pause # None -> Parked(d)
                          [] OTHER            -> drv[d]]
    <3>1. CASE e # 0
      BY <2>2, <2>5, <2>8, <3>1
    <3>2. CASE e = 0 /\ con'.pause # None
      BY <2>7, <2>8, <3>2
    <3>3. CASE e = 0 /\ ~(con'.pause # None)
      BY <2>6, <2>8, <3>3
    <3> QED BY <3>1, <3>2, <3>3
  <2> QED BY <2>1, <2>4, <2>8
<1> QED BY <1>4, <1>5 DEF DriverPoll

LEMMA GrantKeeps ==
    ASSUME IInv, RP!IInv', NEW d \in Drivers, DriverGrant(d) PROVE IInv'
<1>1. /\ calls' = calls /\ rec' = rec /\ out' = out /\ who' = who /\ fate' = fate
      /\ drv[d].pc = "granting"
  BY DEF DriverGrant, receipts, At
<1>2. CASE Park(d) /\ (Pause("authorization") \/ con' = con)
  <2>1. drv' = [drv EXCEPT ![d] = [Parked(d) EXCEPT !.unconf = drv[d].unconf]]
    BY <1>2, PlainPark
  <2> QED BY <1>1, <1>2, <2>1, RefusedKeeps
<1>3. CASE Goto(d, "guest") /\ con' = con
  <2>1. Calm
    BY <1>1, <1>3, SameCalm
  <2> DEFINE r == [drv[d] EXCEPT !.pc = "guest"]
  <2>2. /\ r \in Driver /\ r.pc = "guest" /\ r.lease = drv[d].lease
        /\ r.ev = drv[d].ev /\ r.unconf = drv[d].unconf
    BY DriverFacts DEF Driver, Pcs
  <2>3. drv' = [drv EXCEPT ![d] = r]
    BY <1>3 DEF Goto
  <2> HIDE DEF r
  <2>4. r.ev # 0
    BY <1>1, <2>2, DriverFacts DEF DriverOK
  <2>5. DriverOK(r, con', out')
    BY <2>1, <2>2, <2>4, RecordOK
  <2>6. Follows(d, r) /\ Delivers(d, r) /\ Works(drv[d])
    BY <1>1, <1>3, <2>2 DEF Follows, Delivers, Works
  <2>7. r.lease \in {0, drv[d].lease} \/ r.lease > con.issued
    BY <2>2
  <2> QED BY <1>1, <1>3, <2>1, <2>2, <2>3, <2>5, <2>6, <2>7, OneDriver
<1> QED BY <1>2, <1>3 DEF DriverGrant

LEMMA GuestRefusedKeeps ==
    ASSUME IInv, RP!IInv', NEW d \in Drivers, GuestRefused(d) PROVE IInv'
<1>1. /\ calls' = calls /\ rec' = rec /\ out' = out /\ who' = who /\ fate' = fate
      /\ drv[d].pc = "guest"
  BY DEF GuestRefused, receipts, At
<1>2. CASE Pause("authorization") /\ drv' = drv
  <2>1. "authorization" \in Reason \ {None}
    BY DEF Reason, None
  <2> QED BY <1>1, <1>2, <2>1, PauseCalm, NoDriver
<1>3. CASE drv' = [drv EXCEPT ![d].uncertain = TRUE] /\ con' = con
  <2>1. Calm
    BY <1>1, <1>3, SameCalm
  <2> DEFINE r == [drv[d] EXCEPT !.uncertain = TRUE]
  <2>2. /\ r \in Driver /\ r.pc = "guest" /\ r.lease = drv[d].lease
        /\ r.ev = drv[d].ev /\ r.unconf = drv[d].unconf
    BY <1>1, DriverFacts DEF Driver
  <2>3. drv' = [drv EXCEPT ![d] = r]
    BY <1>3
  <2> HIDE DEF r
  <2>4. r.ev # 0
    BY <1>1, <2>2, DriverFacts DEF DriverOK
  <2>5. DriverOK(r, con', out')
    BY <2>1, <2>2, <2>4, RecordOK
  <2>6. Follows(d, r) /\ Delivers(d, r) /\ Works(drv[d])
    BY <1>1, <1>3, <2>2 DEF Follows, Delivers, Works
  <2>7. r.lease \in {0, drv[d].lease} \/ r.lease > con.issued
    BY <2>2
  <2> QED BY <1>1, <1>3, <2>1, <2>2, <2>3, <2>5, <2>6, <2>7, OneDriver
<1> QED BY <1>2, <1>3 DEF GuestRefused

\* A guest that leaves Sends behind has its event paused.
LEMMA DriverCompleteKeeps ==
    ASSUME IInv, RP!IInv', NEW d \in Drivers, NEW guest, DriverComplete(d, guest) PROVE IInv'
<1> DEFINE e == drv[d].ev
           result == Reported(d, guest)
           u == IF result = "indeterminate" THEN e ELSE drv[d].unconf
<1>1. /\ calls' = calls /\ rec' = rec /\ out' = out /\ Orphan(d) /\ drv[d].pc = "guest"
  BY DEF DriverComplete, receipts, At
<1>2. \/ /\ Complete(e, result)
         /\ \/ drv' = [drv EXCEPT ![d].pc = "ready", ![d].ev = 0, ![d].uncertain = FALSE]
            \/ Unconfirmed(d, result)
      \/ Unconfirmed(d, result) /\ fate' = fate /\ (Pause("authorization") \/ con' = con)
  BY Zenon DEF DriverComplete
<1>3. e \in Events /\ u \in {0, drv[d].ev, drv[d].unconf}
  <2>1. e \in Nat /\ e # 0 /\ e <= out.n /\ out.n \in Nat /\ out.n <= MaxEvents
    BY <1>1, DriverFacts DEF DriverOK, IInv, OutboxOK, Outbox
  <2> QED BY <2>1, BoundsAssumption DEF Events
<1>4. Unconfirmed(d, result) => drv' = [drv EXCEPT ![d] = [Parked(d) EXCEPT !.unconf = u]]
  BY ParkedRecord DEF Unconfirmed
<1>5. Complete(e, result) => Calm /\ con'.cur \in {0, con.cur}
  BY <1>1, <1>3, CompleteCalm
<1>6. ASSUME Complete(e, result), NEW c \in Calls, who[c].driver = d PROVE con'.pause # None
  <2>1. result = "indeterminate"
    BY <1>6 DEF Reported
  <2>2. Pause("indeterminate") /\ con \in Consumer
    BY <1>6, <2>1, IndeterminatePauses DEF IInv, ConsumerOK
  <2> QED BY <2>2 DEF Pause, Consumer, None
<1> HIDE DEF e, result, u
<1>7. CASE Complete(e, result) /\ Unconfirmed(d, result)
  BY <1>1, <1>3, <1>4, <1>5, <1>7, ParkKeeps
<1>8. CASE Unconfirmed(d, result) /\ fate' = fate /\ (Pause("authorization") \/ con' = con)
  BY <1>1, <1>3, <1>4, <1>8, RefusedKeeps
<1>9. CASE /\ Complete(e, result)
           /\ drv' = [drv EXCEPT ![d].pc = "ready", ![d].ev = 0, ![d].uncertain = FALSE]
  <2> DEFINE r == [drv[d] EXCEPT !.pc = "ready", !.ev = 0, !.uncertain = FALSE]
  <2>1. /\ r \in Driver /\ r.pc = "ready" /\ r.lease = drv[d].lease
        /\ r.ev = 0 /\ r.unconf = drv[d].unconf
    BY DriverFacts DEF Driver, Pcs
  <2>2. drv' = [drv EXCEPT ![d] = r]
    BY <1>9, DriverFacts
  <2> HIDE DEF r
  <2>3. DriverOK(r, con', out')
    BY <1>5, <1>9, <2>1, RecordOK
  <2>4. Follows(d, r)
    BY <1>1, <1>6, <1>9 DEF Follows, Live
  <2>5. Delivers(d, r) /\ Works(drv[d])
    BY <1>1, <2>1 DEF Delivers, Works
  <2>6. r.lease \in {0, drv[d].lease} \/ r.lease > con.issued
    BY <2>1
  <2> QED BY <1>1, <1>5, <1>9, <2>1, <2>2, <2>3, <2>4, <2>5, <2>6, OneDriver
<1> QED BY <1>2, <1>7, <1>8, <1>9

\* A step after which driver d shows no lease and runs no guest.
LEMMA LeaselessKeeps ==
    ASSUME IInv, RP!IInv', calls' = calls, Calm, con'.cur \in {0, con.cur},
           NEW d \in Drivers, NEW r \in Driver, drv' = [drv EXCEPT ![d] = r],
           DriverOK(r, con', out'), r.lease = 0, r.pc \notin {"granting", "guest"},
           (who' = who /\ drv[d].pc # "guest") \/ Orphan(d)
    PROVE  IInv'
<1>1. ~Live(r.lease)'
  BY DEF Live, Fence
<1>2. Follows(d, r) /\ Delivers(d, r)
  BY <1>1 DEF Follows, Delivers
<1> QED BY <1>1, <1>2, OneDriver

LEMMA DownRecord ==
    /\ Down \in Driver /\ Down.pc = "down" /\ Down.lease = 0 /\ Down.ev = 0 /\ Down.unconf = 0
  BY DEF Down, Driver, Pcs, Thens

\* release: a driver without a confirmation that goes on keeps observing.
LEMMA ReleaseKeeps ==
    ASSUME IInv, RP!IInv', NEW d \in Drivers, DriverRelease(d) PROVE IInv'
<1> DEFINE after == [ready |-> "ready", failed |-> "failed", rearm |-> "ready"]
           refused == [after EXCEPT !.rearm = "failed"]
           Leave(pcs, l) ==
               IF drv[d].then = "down" THEN Down
               ELSE [drv[d] EXCEPT !.pc = pcs[drv[d].then], !.lease = l, !.then = "ready"]
           gone == Leave(after, 0)
           kept == Leave(refused, drv[d].lease)
<1>1. /\ calls' = calls /\ rec' = rec /\ out' = out /\ who' = who /\ fate' = fate
      /\ drv[d].pc = "stopping"
      /\ Release(drv[d].lease) \/ con' = con
      /\ drv' = [drv EXCEPT ![d] = gone] \/ drv' = [drv EXCEPT ![d] = kept]
  BY DEF DriverRelease, receipts, At
<1>2. Calm /\ con'.cur = con.cur
  BY <1>1, ReleaseCalm, SameCalm
<1>3. /\ gone \in Driver /\ gone.pc \in {"down", "ready", "failed"} /\ gone.lease = 0
      /\ gone.ev \in {0, drv[d].ev} /\ gone.unconf \in {0, drv[d].unconf}
  <2>1. CASE drv[d].then = "down"
    BY <2>1, DownRecord
  <2>2. CASE drv[d].then # "down"
    <3>1. after[drv[d].then] \in {"ready", "failed"}
      BY <2>2, DriverFacts DEF Thens
    <3> HIDE DEF after
    <3> QED BY <2>2, <3>1, DriverFacts DEF Driver, Pcs, Thens
  <2> QED BY <2>1, <2>2
<1>4. /\ kept \in Driver /\ kept.pc \in {"down", "ready", "failed"}
      /\ kept.lease \in {0, drv[d].lease} /\ (kept.pc = "down" => kept.lease = 0)
      /\ kept.ev \in {0, drv[d].ev} /\ kept.unconf \in {0, drv[d].unconf}
      /\ ~Works(kept)
  <2>1. CASE drv[d].then = "down"
    BY <2>1, DownRecord DEF Works
  <2>2. CASE drv[d].then # "down"
    <3>1. /\ refused[drv[d].then] \in {"ready", "failed"}
          /\ refused[drv[d].then] = "ready" => drv[d].then = "ready"
      BY <2>2, DriverFacts DEF Thens
    <3>2. drv[d].then = "ready" => drv[d].parked
      BY <1>1, DriverFacts DEF DriverOK
    <3> HIDE DEF refused
    <3>3. kept = [drv[d] EXCEPT !.pc = refused[drv[d].then], !.lease = drv[d].lease,
                                !.then = "ready"]
      BY <2>2
    <3>4. /\ kept.pc = refused[drv[d].then] /\ kept.lease = drv[d].lease
          /\ kept.ev = drv[d].ev /\ kept.unconf = drv[d].unconf
          /\ kept.parked = drv[d].parked
      BY <3>3, DriverFacts DEF Driver
    <3>5. kept \in Driver
      <4>1. refused[drv[d].then] \in Pcs /\ "ready" \in Thens
        BY <3>1 DEF Pcs, Thens
      <4> QED BY <3>3, <4>1, DriverFacts DEF Driver
    <3> HIDE DEF kept
    <3>6. ~Works(kept)
      BY <3>1, <3>2, <3>4 DEF Works
    <3> QED BY <3>1, <3>4, <3>5, <3>6
  <2> QED BY <2>1, <2>2
<1> HIDE DEF gone, kept
<1>5. CASE drv' = [drv EXCEPT ![d] = gone]
  <2>1. DriverOK(gone, con', out')
    BY <1>2, <1>3, RecordOK
  <2> QED BY <1>1, <1>2, <1>3, <1>5, <2>1, LeaselessKeeps
<1>6. CASE drv' = [drv EXCEPT ![d] = kept]
  <2>1. DriverOK(kept, con', out')
    BY <1>2, <1>4, RecordOK
  <2> QED BY <1>1, <1>2, <1>4, <1>6, <2>1, RestKeeps
<1> QED BY <1>1, <1>5, <1>6

LEMMA ObserveKeeps ==
    ASSUME IInv, RP!IInv', NEW d \in Drivers, DriverObserve(d) PROVE IInv'
<1>1. /\ calls' = calls /\ rec' = rec /\ out' = out /\ who' = who /\ fate' = fate /\ con' = con
      /\ drv[d].pc = "ready" /\ drv[d].parked
  BY DEF DriverObserve, receipts, At
<1>2. Calm
  BY <1>1, SameCalm
<1>3. ASSUME NEW r \in Driver, r.lease = 0, r.pc \in {"ready", "reconciling"},
             r.pc = "reconciling" => r.parked,
             r.ev = drv[d].ev, r.unconf \in {0, drv[d].unconf}, drv' = [drv EXCEPT ![d] = r]
      PROVE  IInv'
  <2>1. DriverOK(r, con', out')
    BY <1>2, <1>3, RecordOK
  <2> QED BY <1>1, <1>2, <1>3, <2>1, LeaselessKeeps
<1> DEFINE fenced == [drv[d] EXCEPT !.lease = 0]
<1>4. /\ fenced \in Driver /\ fenced.lease = 0 /\ fenced.pc = "ready" /\ fenced.parked = TRUE
      /\ fenced.ev = drv[d].ev /\ fenced.unconf = drv[d].unconf
  BY <1>1, DriverFacts DEF Driver
<1>5. \/ drv' = [drv EXCEPT ![d] = fenced]
      \/ drv' = [drv EXCEPT ![d] = [fenced EXCEPT !.pc = "reconciling"]]
      \/ drv' = [drv EXCEPT ![d] = [fenced EXCEPT !.parked = FALSE, !.unconf = 0]]
  BY DEF DriverObserve
<1> HIDE DEF fenced
<1>6. CASE drv' = [drv EXCEPT ![d] = fenced]
  BY <1>3, <1>4, <1>6
<1>7. CASE drv' = [drv EXCEPT ![d] = [fenced EXCEPT !.pc = "reconciling"]]
  <2> DEFINE r == [fenced EXCEPT !.pc = "reconciling"]
  <2>1. /\ r \in Driver /\ r.lease = 0 /\ r.pc = "reconciling" /\ r.parked = TRUE
        /\ r.ev = drv[d].ev /\ r.unconf = drv[d].unconf
    BY <1>4 DEF Driver, Pcs
  <2> HIDE DEF r
  <2>2. drv' = [drv EXCEPT ![d] = r]
    BY <1>7 DEF r
  <2> QED BY <1>3, <2>1, <2>2
<1>8. CASE drv' = [drv EXCEPT ![d] = [fenced EXCEPT !.parked = FALSE, !.unconf = 0]]
  <2> DEFINE r == [fenced EXCEPT !.parked = FALSE, !.unconf = 0]
  <2>1. /\ r \in Driver /\ r.lease = 0 /\ r.pc = "ready"
        /\ r.ev = drv[d].ev /\ r.unconf = 0
    BY <1>4 DEF Driver
  <2> HIDE DEF r
  <2>2. drv' = [drv EXCEPT ![d] = r]
    BY <1>8 DEF r
  <2> QED BY <1>3, <2>1, <2>2
<1> QED BY <1>5, <1>6, <1>7, <1>8

LEMMA ReconcileKeeps ==
    ASSUME IInv, RP!IInv', NEW d \in Drivers, DriverReconcile(d) PROVE IInv'
<1>1. /\ calls' = calls /\ rec' = rec /\ out' = out /\ who' = who
      /\ drv[d].pc = "reconciling"
  BY DEF DriverReconcile, receipts, At
<1>2. con.issued \in Nat /\ drv[d].parked = TRUE
  BY <1>1, DriverFacts DEF IInv, ConsumerOK, Consumer, DriverOK
<1>3. ASSUME Calm, con'.cur = con.cur, NEW l \in Nat,
             (l = con'.issued /\ l > con.issued) \/ l \in {0, drv[d].lease},
             NEW pc \in {"ready", "recompleting"},
             drv' = [drv EXCEPT ![d] = [drv[d] EXCEPT !.lease = l, !.pc = pc]]
      PROVE  IInv'
  <2> DEFINE r == [drv[d] EXCEPT !.lease = l, !.pc = pc]
  <2>1. /\ r \in Driver /\ r.pc = pc /\ r.parked = TRUE /\ r.lease = l
        /\ r.ev = drv[d].ev /\ r.unconf = drv[d].unconf
    BY <1>2, DriverFacts DEF Driver, Pcs
  <2>2. drv' = [drv EXCEPT ![d] = r]
    BY <1>3
  <2> HIDE DEF r
  <2>3. DriverOK(r, con', out') /\ ~Works(r)
    BY <1>3, <2>1, RecordOK DEF Works
  <2> QED BY <1>1, <1>3, <2>1, <2>2, <2>3, RestKeeps
<1>4. ASSUME Acquire, NEW l \in {0, con'.token}, NEW pc \in {"ready", "recompleting"},
             drv' = [drv EXCEPT ![d].lease = l, ![d].pc = pc]
      PROVE  IInv'
  <2>1. Calm /\ con'.cur = con.cur /\ con'.token = con'.issued /\ con'.issued = con.issued + 1
    BY <1>1, <1>4, AcquireCalm
  <2>2. l \in Nat /\ ((l = con'.issued /\ l > con.issued) \/ l \in {0, drv[d].lease})
    BY <1>2, <2>1
  <2>3. drv' = [drv EXCEPT ![d] = [drv[d] EXCEPT !.lease = l, !.pc = pc]]
    BY <1>4, DriverFacts
  <2> QED BY <1>3, <2>1, <2>2, <2>3
<1>5. ASSUME Goto(d, "ready"), con' = con, fate' = fate PROVE IInv'
  <2>1. Calm
    BY <1>1, <1>5, SameCalm
  <2>2. drv' = [drv EXCEPT ![d] = [drv[d] EXCEPT !.lease = drv[d].lease, !.pc = "ready"]]
    BY <1>5, DriverFacts DEF Goto, Driver
  <2> QED BY <1>3, <1>5, <2>1, <2>2, DriverFacts
<1>6. \/ Acquire /\ drv' = [drv EXCEPT ![d].lease = con'.token, ![d].pc = "recompleting"]
      \/ Acquire /\ \E l \in {0, con'.token} :
                        drv' = [drv EXCEPT ![d].lease = l, ![d].pc = "ready"]
      \/ Goto(d, "ready") /\ con' = con /\ fate' = fate
  BY Zenon DEF DriverReconcile
<1> QED BY <1>4, <1>5, <1>6

LEMMA RecompleteKeeps ==
    ASSUME IInv, RP!IInv', NEW d \in Drivers, DriverRecomplete(d) PROVE IInv'
<1>1. /\ calls' = calls /\ rec' = rec /\ out' = out /\ who' = who
      /\ drv[d].pc = "recompleting"
  BY DEF DriverRecomplete, receipts, At
<1>2. ASSUME NEW u \in {0, drv[d].unconf},
             drv' = [drv EXCEPT ![d] = [Parked(d) EXCEPT !.unconf = u]],
             Pause("indeterminate"), fate' = fate
      PROVE  IInv'
  <2>1. "indeterminate" \in Reason \ {None}
    BY DEF Reason, None
  <2>2. Calm /\ con'.cur = con.cur
    BY <1>1, <1>2, <2>1, PauseCalm
  <2> QED BY <1>1, <1>2, <2>2, ParkKeeps
<1>3. ASSUME Park(d), fate' = fate, Pause("authorization") \/ con' = con PROVE IInv'
  <2>1. drv' = [drv EXCEPT ![d] = [Parked(d) EXCEPT !.unconf = drv[d].unconf]]
    BY <1>3, PlainPark
  <2> QED BY <1>1, <1>3, <2>1, RefusedKeeps
<1>4. \/ /\ Complete(drv[d].unconf, "indeterminate")
         /\ \/ drv' = [drv EXCEPT ![d] = [Parked(d) EXCEPT !.unconf = 0]]
            \/ Park(d)
      \/ Park(d) /\ fate' = fate /\ (Pause("authorization") \/ con' = con)
  BY Zenon DEF DriverRecomplete
<1>5. CASE /\ Complete(drv[d].unconf, "indeterminate")
           /\ \/ drv' = [drv EXCEPT ![d] = [Parked(d) EXCEPT !.unconf = 0]]
              \/ Park(d)
  <2>1. Pause("indeterminate") /\ fate' = fate
    BY <1>5, IndeterminatePauses
  <2> QED BY <1>2, <1>5, <2>1, PlainPark
<1> QED BY <1>3, <1>4, <1>5

LEMMA TaskKeeps ==
    ASSUME IInv, RP!IInv', NEW d \in Drivers,
           Start(d) \/ Crash(d) \/ \E then \in {"down", "rearm"} : Cancel(d, then)
    PROVE  IInv'
<1>1. /\ calls' = calls /\ rec' = rec /\ out' = out /\ fate' = fate /\ con' = con
  BY DEF Start, Crash, Cancel, receipts
<1>2. Calm
  BY <1>1, SameCalm
<1>3. CASE Start(d)
  <2> DEFINE r == [drv[d] EXCEPT !.pc = "ready"]
  <2>1. drv[d].pc = "down" /\ who' = who /\ drv' = [drv EXCEPT ![d] = r]
    BY <1>3 DEF Start, At, Goto
  <2>2. /\ r \in Driver /\ r.pc = "ready" /\ r.lease = 0 /\ r.ev = drv[d].ev
        /\ r.unconf = drv[d].unconf
    BY <2>1, DriverFacts DEF Driver, DriverOK, Pcs
  <2> HIDE DEF r
  <2>3. DriverOK(r, con', out')
    BY <1>2, <2>2, RecordOK
  <2> QED BY <1>1, <1>2, <2>1, <2>2, <2>3, LeaselessKeeps
<1>4. CASE Crash(d)
  <2>1. drv' = [drv EXCEPT ![d] = Down] /\ Orphan(d)
    BY <1>4 DEF Crash
  <2>2. DriverOK(Down, con', out')
    BY <1>2, DownRecord, RecordOK
  <2> QED BY <1>1, <1>2, <2>1, <2>2, DownRecord, LeaselessKeeps
<1>5. ASSUME NEW then \in {"down", "rearm"}, Cancel(d, then) PROVE IInv'
  <2> DEFINE r == [drv[d] EXCEPT !.pc = "stopping", !.then = then, !.ev = 0, !.uncertain = FALSE]
  <2>1. Orphan(d) /\ drv' = [drv EXCEPT ![d] = r]
    BY <1>5, DriverFacts DEF Cancel
  <2>2. /\ r \in Driver /\ r.pc = "stopping" /\ r.then = then /\ r.lease = drv[d].lease
        /\ r.ev = 0 /\ r.unconf = drv[d].unconf
    BY DriverFacts DEF Driver, Pcs, Thens
  <2> HIDE DEF r
  <2>3. DriverOK(r, con', out') /\ ~Works(r)
    BY <1>2, <2>2, RecordOK DEF Works
  <2> QED BY <1>1, <1>2, <2>1, <2>2, <2>3, RestKeeps
<1> QED BY <1>3, <1>4, <1>5

------------------------------------------------------------------------------
\* The Sends of guests

\* A step of one Send: the consumer and all but a flag of the drivers stay.
LEMMA CallsKeep ==
    ASSUME IInv, RP!IInv', con' = con, out' = out, fate' = fate,
           drv' \in [Drivers -> Driver],
           \A d \in Drivers : /\ drv'[d].pc = drv[d].pc /\ drv'[d].lease = drv[d].lease
                              /\ drv'[d].ev = drv[d].ev /\ drv'[d].unconf = drv[d].unconf
                              /\ drv'[d].then = drv[d].then /\ drv'[d].parked = drv[d].parked,
           who' \in [Calls -> [driver : Drivers \cup {None}, lease : Nat]],
           NEW c \in Calls,
           \A x \in Calls \ {c} : who'[x] = who[x] /\ calls'[x] = calls[x],
           CallerOK(c)', OpenOK(c)', \A d \in Drivers : DeliveryOK(d, c)',
           \A e \in Events : AckedOK(e)'
    PROVE  IInv'
<1>1. \A d \in Drivers : DriverOK(drv[d], con, out)'
  BY DEF IInv, DriverOK
<1>2. LeasesDiffer'
  BY DEF IInv, LeasesDiffer
<1>3. ASSUME NEW x \in Calls PROVE CallerOK(x)' /\ OpenOK(x)'
  <2>1. CASE x = c
    BY <2>1
  <2>2. CASE x # c
    <3>1. /\ who'[x] = who[x] /\ calls'[x] = calls[x] /\ CallerOK(x) /\ OpenOK(x)
          /\ who[x].driver \in Drivers \cup {None}
      BY <2>2 DEF IInv
    <3>2. Live(who[x].lease)' <=> Live(who[x].lease)
      BY <3>1 DEF Live, Fence
    <3>3. \A d \in Drivers : Works(drv'[d]) <=> Works(drv[d])
      BY DEF Works
    <3>4. CallerOK(x)'
      BY <3>1, <3>2, <3>3 DEF CallerOK
    <3> QED BY <3>1, <3>4 DEF OpenOK, Open
  <2> QED BY <2>1, <2>2
<1>4. ASSUME NEW d \in Drivers, NEW x \in Calls PROVE DeliveryOK(d, x)'
  <2>1. CASE x = c
    BY <2>1
  <2>2. CASE x # c
    <3>1. who'[x] = who[x] /\ calls'[x] = calls[x] /\ DeliveryOK(d, x)
      BY <2>2 DEF IInv
    <3>2. Serving(drv[d].lease, drv[d].ev)' <=> Serving(drv[d].lease, drv[d].ev)
      BY DEF Serving, Fence
    <3> QED BY <3>1, <3>2 DEF DeliveryOK, Open
  <2> QED BY <2>1, <2>2
<1>5. RetainedIsNotSkipped'
  BY DEF IInv, RetainedIsNotSkipped
<1> QED BY <1>1, <1>2, <1>3, <1>4, <1>5 DEF IInv

LEMMA SendKeeps ==
    ASSUME IInv, RP!IInv', NEW d \in Drivers, NEW c \in Calls, NEW k \in Keys,
           GuestSend(d, c, k)
    PROVE  IInv'
<1>1. /\ con' = con /\ out' = out /\ fate' = fate /\ drv' = drv /\ rec' = rec
      /\ drv[d].pc = "guest"
      /\ who' = [who EXCEPT ![c] = [driver |-> d, lease |-> drv[d].lease]]
      /\ calls' = [calls EXCEPT ![c] = [pc |-> "admitting", inv |-> drv[d].ev, key |-> k,
                                        res |-> "unknown"]]
  BY DEF GuestSend, At, R!Send
<1>2. R!TypeOK
  BY ReceiptFacts DEF IInv
<1>3. /\ calls'[c] = [pc |-> "admitting", inv |-> drv[d].ev, key |-> k, res |-> "unknown"]
      /\ \A x \in Calls \ {c} : calls'[x] = calls[x]
  BY <1>1, <1>2 DEF R!TypeOK
<1>4. /\ who'[c] = [driver |-> d, lease |-> drv[d].lease]
      /\ \A x \in Calls \ {c} : who'[x] = who[x]
      /\ who' \in [Calls -> [driver : Drivers \cup {None}, lease : Nat]]
  BY <1>1, DriverFacts DEF IInv
<1>5. ~Open(c)'
  BY <1>3 DEF Open
<1>6. CallerOK(c)'
  <2>1. calls'[c] # R!NoCall
    BY <1>3 DEF R!NoCall
  <2>2. drv[d].lease <= con.issued
    BY DriverFacts DEF DriverOK
  <2> QED BY <1>1, <1>3, <1>4, <2>1, <2>2, DriversAssumption DEF CallerOK
<1>7. OpenOK(c)' /\ \A x \in Drivers : DeliveryOK(x, c)'
  BY <1>5 DEF OpenOK, DeliveryOK
<1>8. \A e \in Events : AckedOK(e)'
  BY <1>1 DEF IInv, AckedOK
<1>9. drv' \in [Drivers -> Driver]
  BY <1>1 DEF IInv
<1> QED BY <1>1, <1>3, <1>4, <1>6, <1>7, <1>8, <1>9, CallsKeep

LEMMA AnswerKeeps ==
    ASSUME IInv, RP!IInv', NEW c \in Calls, HostAnswer(c) PROVE IInv'
<1> DEFINE d == who[c].driver
           late == calls[c].res = "unknown" \/ R!Lapsed(calls[c].inv)
           Observe(u) == drv' = [x \in Drivers |->
                    IF x = d THEN [drv[x] EXCEPT !.uncertain = @ \/ u] ELSE drv[x]]
<1>0. /\ con' = con /\ out' = out /\ fate' = fate
      /\ who' = [who EXCEPT ![c] = Nobody]
      /\ \/ R!Answer(c) /\ Observe(late)
         \/ R!DropCall(c) /\ Observe(TRUE)
  BY Zenon DEF HostAnswer
<1>1. PICK unknown :
        /\ con' = con /\ out' = out /\ fate' = fate /\ rec' = rec
        /\ who' = [who EXCEPT ![c] = Nobody]
        /\ calls' = [calls EXCEPT ![c] = R!NoCall]
        /\ Observe(unknown)
  <2>1. rec' = rec /\ calls' = [calls EXCEPT ![c] = R!NoCall]
    BY <1>0 DEF R!Answer, R!DropCall
  <2> HIDE DEF Observe, late
  <2> QED BY <1>0, <2>1
<1>2. R!TypeOK /\ drv \in [Drivers -> Driver]
  BY ReceiptFacts DEF IInv
<1>3. calls'[c] = R!NoCall /\ \A x \in Calls \ {c} : calls'[x] = calls[x]
  BY <1>1, <1>2 DEF R!TypeOK
<1>4. /\ who'[c] = Nobody /\ \A x \in Calls \ {c} : who'[x] = who[x]
      /\ who' \in [Calls -> [driver : Drivers \cup {None}, lease : Nat]]
  BY <1>1 DEF IInv, Nobody
<1>5. ASSUME NEW x \in Drivers
      PROVE  /\ drv'[x] \in Driver
             /\ drv'[x].pc = drv[x].pc /\ drv'[x].lease = drv[x].lease
             /\ drv'[x].ev = drv[x].ev /\ drv'[x].unconf = drv[x].unconf
             /\ drv'[x].then = drv[x].then /\ drv'[x].parked = drv[x].parked
  <2>1. drv[x] \in Driver
    BY <1>2
  <2>2. CASE x = d
    <3>1. drv'[x] = [drv[x] EXCEPT !.uncertain = drv[x].uncertain \/ unknown]
      BY <1>1, <2>2
    <3>2. (drv[x].uncertain \/ unknown) \in BOOLEAN
      OBVIOUS
    <3> QED BY <2>1, <3>1, <3>2 DEF Driver
  <2>3. CASE x # d
    BY <1>1, <2>1, <2>3
  <2> QED BY <2>2, <2>3
<1>6. drv' \in [Drivers -> Driver]
  BY <1>1, <1>5
<1>7. ~Open(c)'
  BY <1>3 DEF Open, R!NoCall
<1>8. CallerOK(c)'
  <2>1. con.issued \in Nat
    BY DEF IInv, ConsumerOK, Consumer
  <2> QED BY <1>1, <1>4, <2>1 DEF CallerOK, Nobody, Live, Fence
<1>9. OpenOK(c)' /\ \A x \in Drivers : DeliveryOK(x, c)'
  BY <1>7 DEF OpenOK, DeliveryOK
<1>10. \A e \in Events : AckedOK(e)'
  BY <1>1 DEF IInv, AckedOK
<1> QED BY <1>1, <1>3, <1>4, <1>5, <1>6, <1>8, <1>9, <1>10, CallsKeep

\* What a step of a Send changes: a receipt is inserted only under authority, and
\* only a Send that is open writes an outcome or lets a request leave.
LEMMA CallStepChanges ==
    ASSUME R!TypeOK, NEW c \in Calls, NEW ok \in BOOLEAN, R!CallStep(c, ok)
    PROVE  /\ \A x \in Calls \ {c} : calls'[x] = calls[x]
           /\ calls[c] # R!NoCall /\ calls'[c] # R!NoCall
           /\ calls'[c].inv = calls[c].inv
           /\ Open(c)' => Open(c) \/ ok
           /\ \/ rec' = rec
              \/ /\ ok \/ Open(c)
                 /\ \E v : rec' = [rec EXCEPT ![calls[c].inv][calls[c].key] = v]
           /\ \/ sent' = sent
              \/ /\ Open(c)
                 /\ sent' = [sent EXCEPT ![calls[c].inv][calls[c].key] = @ + 1]
<1>1. calls \in [Calls -> R!Call] /\ calls[c] \in R!Call
  BY DEF R!TypeOK
<1>2. calls[c].pc # "idle"
  BY DEF R!CallStep, R!EffectAdmit, R!Recheck, R!Guard, R!Transmit, R!Respond, R!Abort,
         R!EffectComplete, R!Publish
<1>3. /\ calls[c] # R!NoCall
      /\ calls[c] \in [pc : R!Stage \ {"idle"}, inv : Events, key : Keys, res : R!Outcome]
  BY <1>1, <1>2 DEF R!Call, R!NoCall
<1>4. ASSUME NEW pc \in R!Stage \ {"idle"}, R!Goto(c, pc)
      PROVE  /\ \A x \in Calls \ {c} : calls'[x] = calls[x]
             /\ calls'[c].pc = pc /\ calls'[c] # R!NoCall /\ calls'[c].inv = calls[c].inv
  <2>1. calls'[c] = [calls[c] EXCEPT !.pc = pc]
    BY <1>1, <1>4 DEF R!Goto
  <2> QED BY <1>1, <1>3, <1>4, <2>1 DEF R!Goto, R!NoCall
<1>5. ASSUME NEW pc \in R!Stage \ {"idle"}, NEW res, R!Result(c, pc, res)
      PROVE  /\ \A x \in Calls \ {c} : calls'[x] = calls[x]
             /\ calls'[c].pc = pc /\ calls'[c] # R!NoCall /\ calls'[c].inv = calls[c].inv
  <2>1. calls'[c] = [calls[c] EXCEPT !.pc = pc, !.res = res]
    BY <1>1, <1>5 DEF R!Result
  <2> QED BY <1>1, <1>3, <1>5, <2>1 DEF R!Result, R!NoCall
<1>6. CASE R!EffectAdmit(c, ok)
  <2>1. /\ sent' = sent
        /\ \/ /\ ok /\ R!Goto(c, "dispatching")
              /\ rec' = [rec EXCEPT ![calls[c].inv][calls[c].key] = "pending"]
           \/ rec' = rec /\ \E res : R!Result(c, "publishing", res)
           \/ rec' = rec /\ \E res : R!Result(c, "answered", res)
    BY <1>6, Zenon DEF R!EffectAdmit
  <2>2. CASE /\ ok /\ R!Goto(c, "dispatching")
             /\ rec' = [rec EXCEPT ![calls[c].inv][calls[c].key] = "pending"]
    <3>1. "dispatching" \in R!Stage \ {"idle"}
      BY DEF R!Stage
    <3>2. /\ \A x \in Calls \ {c} : calls'[x] = calls[x]
          /\ calls'[c] # R!NoCall /\ calls'[c].inv = calls[c].inv
      BY <1>4, <2>2, <3>1
    <3> QED BY <1>3, <2>1, <2>2, <3>2
  <2>3. CASE rec' = rec /\ \E pc \in {"publishing", "answered"} : \E res : R!Result(c, pc, res)
    <3>1. PICK pc \in {"publishing", "answered"} : \E res : R!Result(c, pc, res)
      BY <2>3
    <3>2. pc \in R!Stage \ {"idle"}
      BY DEF R!Stage
    <3>3. /\ \A x \in Calls \ {c} : calls'[x] = calls[x]
          /\ calls'[c].pc = pc /\ calls'[c] # R!NoCall /\ calls'[c].inv = calls[c].inv
      BY <1>5, <3>1, <3>2
    <3> QED BY <1>3, <2>1, <2>3, <3>3 DEF Open
  <2> QED BY <2>1, <2>2, <2>3
<1>7. CASE R!EffectComplete(c, ok)
  <2>1. /\ sent' = sent /\ Open(c)
        /\ \/ /\ R!Goto(c, "publishing")
              /\ rec' = [rec EXCEPT ![calls[c].inv][calls[c].key] = calls[c].res]
           \/ rec' = rec /\ R!Result(c, "answered", "unknown")
    BY <1>7 DEF R!EffectComplete, Open
  <2> QED BY <1>3, <1>4, <1>5, <2>1 DEF R!Stage, Open
<1>8. CASE R!Recheck(c, ok)
  <2>1. /\ sent' = sent /\ rec' = rec /\ Open(c)
        /\ \/ R!Goto(c, "connecting")
           \/ \E res : R!Result(c, "answered", res)
    BY <1>8, Zenon DEF R!Recheck, Open
  <2> QED BY <1>3, <1>4, <1>5, <2>1 DEF R!Stage, Open
<1>9. CASE R!Guard(c, ok)
  <2>1. /\ sent' = sent /\ rec' = rec /\ Open(c)
        /\ R!Goto(c, "sending") \/ R!Result(c, "completing", "refused")
    BY <1>9 DEF R!Guard, Open
  <2> QED BY <1>3, <1>4, <1>5, <2>1 DEF R!Stage, Open
<1>10. CASE R!Transmit(c)
  <2>1. /\ sent' = [sent EXCEPT ![calls[c].inv][calls[c].key] = @ + 1] /\ rec' = rec /\ Open(c)
        /\ R!Goto(c, "sent")
    BY <1>10 DEF R!Transmit, Open
  <2> QED BY <1>3, <1>4, <2>1 DEF R!Stage, Open
<1>11. CASE R!Respond(c) \/ R!Abort(c)
  <2>1. /\ sent' = sent /\ rec' = rec /\ Open(c)
        /\ \E res : R!Result(c, "completing", res)
    BY <1>11 DEF R!Respond, R!Abort, Open
  <2> QED BY <1>3, <1>5, <2>1 DEF R!Stage, Open
<1>12. CASE R!Publish(c)
  <2>1. /\ sent' = sent /\ rec' = rec /\ R!Goto(c, "answered")
    BY <1>12 DEF R!Publish
  <2> QED BY <1>3, <1>4, <2>1 DEF R!Stage, Open
<1> QED BY <1>6, <1>7, <1>8, <1>9, <1>10, <1>11, <1>12 DEF R!CallStep

\* The receipt of an acknowledged event is not written by a Send.
LEMMA AckedIsClosed ==
    ASSUME IInv, NEW e \in Events, fate[e] = "acked", NEW c \in Calls, calls[c].inv = e
    PROVE  /\ ~Open(c)
           /\ \A l : ~Serving(l, e)
<1>1. AckedOK(e) /\ e \in Nat /\ e # 0
  BY EventIsNat DEF IInv
<1>2. ~Open(c)
  BY <1>1, ReceiptFacts DEF IInv, AckedOK
<1>3. con.cur # e
  BY <1>1 DEF IInv, ConsumerOK, Consumer, AckedOK
<1> QED BY <1>2, <1>3 DEF Serving

LEMMA HostStepKeeps ==
    ASSUME IInv, RP!IInv', NEW c \in Calls, HostStep(c) PROVE IInv'
<1>1. con' = con /\ out' = out /\ drv' = drv /\ who' = who /\ fate' = fate
  BY DEF HostStep
<1> DEFINE served == Serving(who[c].lease, calls[c].inv)
<1>2. PICK ok \in BOOLEAN : R!CallStep(c, ok) /\ (ok => served)
  <2>1. R!CallStep(c, served) \/ R!CallStep(c, FALSE)
    BY DEF HostStep
  <2> HIDE DEF served
  <2>2. R!CallStep(c, served) => (R!CallStep(c, TRUE) /\ served) \/ R!CallStep(c, FALSE)
    BY DEF R!CallStep, R!EffectAdmit, R!Recheck, R!Guard, R!EffectComplete
  <2> QED BY <2>1, <2>2
<1> HIDE DEF served
<1>3. R!TypeOK
  BY ReceiptFacts DEF IInv
<1>4. /\ \A x \in Calls \ {c} : calls'[x] = calls[x]
      /\ calls[c] # R!NoCall /\ calls'[c] # R!NoCall
      /\ calls'[c].inv = calls[c].inv
      /\ Open(c)' => Open(c) \/ ok
      /\ \/ rec' = rec
         \/ /\ ok \/ Open(c)
            /\ \E v : rec' = [rec EXCEPT ![calls[c].inv][calls[c].key] = v]
  BY <1>2, <1>3, CallStepChanges
<1>5. CallerOK(c) /\ OpenOK(c) /\ who[c] \in [driver : Drivers \cup {None}, lease : Nat]
  BY DEF IInv
<1>6. CallerOK(c)'
  <2>1. Live(who[c].lease)' <=> Live(who[c].lease)
    BY <1>1 DEF Live, Fence
  <2> QED BY <1>1, <1>4, <1>5, <2>1 DEF CallerOK
<1>7. OpenOK(c)'
  <2>1. ok => calls[c].inv = con.cur
    BY <1>2 DEF served, Serving
  <2> QED BY <1>1, <1>4, <1>5, <2>1 DEF OpenOK
<1>8. ASSUME NEW d \in Drivers PROVE DeliveryOK(d, c)'
  <2> SUFFICES ASSUME drv'[d].pc \in {"granting", "guest"},
                      Serving(drv[d].lease, drv[d].ev)', fate'[drv'[d].ev] # "gap",
                      Open(c)', calls'[c].inv = drv'[d].ev
               PROVE  drv'[d].pc = "guest" /\ who'[c].driver = d
    BY DEF DeliveryOK
  <2>1. Serving(drv[d].lease, drv[d].ev)
    BY <1>1 DEF Serving, Fence
  <2>2. CASE Open(c)
    BY <1>1, <1>4, <2>1, <2>2 DEF IInv, DeliveryOK
  <2>3. CASE ok
    <3>1. /\ Live(who[c].lease) /\ drv[d].lease = who[c].lease /\ who[c].lease # 0
      BY <1>2, <2>1, <2>3 DEF served, Serving, Live, Fence
    <3>2. Works(drv[d])
      BY <1>1 DEF Works
    <3>3. who[c].driver # None
      BY <1>5, <3>1, <3>2 DEF CallerOK
    <3>4. who[c].driver \in Drivers /\ drv[who[c].driver].pc = "guest"
          /\ drv[who[c].driver].lease = who[c].lease
      BY <1>5, <3>3 DEF CallerOK
    <3>5. who[c].driver = d
      BY <3>1, <3>4 DEF IInv, LeasesDiffer
    <3> QED BY <1>1, <3>4, <3>5
  <2> QED BY <1>4, <2>2, <2>3
<1>9. ASSUME NEW e \in Events PROVE AckedOK(e)'
  <2>1. AckedOK(e)
    BY DEF IInv
  <2> SUFFICES ASSUME fate[e] = "acked" PROVE rec'[e] = rec[e]
    BY <1>1, <2>1 DEF AckedOK
  <2>2. CASE calls[c].inv = e
    <3>1. ~Open(c) /\ ~served
      BY <2>2, AckedIsClosed DEF served
    <3> QED BY <1>2, <1>4, <3>1
  <2>3. CASE calls[c].inv # e
    BY <1>3, <1>4, <2>3 DEF R!TypeOK
  <2> QED BY <2>2, <2>3
<1>10. drv' \in [Drivers -> Driver] /\ who' \in [Calls -> [driver : Drivers \cup {None}, lease : Nat]]
  BY <1>1 DEF IInv
<1> QED BY <1>1, <1>4, <1>6, <1>7, <1>8, <1>9, <1>10, CallsKeep

------------------------------------------------------------------------------
\* The theorems

LEMMA InitEstablishes == Init => IInv
<1> SUFFICES ASSUME Init PROVE IInv
  OBVIOUS
<1>1. RP!IInv
  BY RP!InitEstablishes, SameInit DEF Init
<1>2. None \in Reason /\ None \in Fates
  BY DEF Reason, Fates
<1>3. /\ OutboxOK(out) /\ out.n = 0 /\ out.floor = 0
  BY BoundsAssumption DEF Init, OutboxOK, Outbox
<1>4. /\ con \in Consumer /\ con.known = FALSE /\ con.cursor = 0 /\ con.drain = 0 /\ con.cur = 0
      /\ con.attempt = 0 /\ con.token = 0 /\ con.issued = 0 /\ con.lastAck = 0
  BY <1>2 DEF Init, Consumer
<1>5. ConsumerOK(con, out)
  BY <1>3, <1>4, BoundsAssumption DEF ConsumerOK
<1>6. /\ drv \in [Drivers -> Driver]
      /\ \A d \in Drivers : drv[d] = Down
  BY DownRecord DEF Init
<1>7. \A d \in Drivers : DriverOK(drv[d], con, out)
  BY <1>3, <1>4, <1>6, DownRecord DEF DriverOK
<1>8. LeasesDiffer
  BY <1>6, DownRecord DEF LeasesDiffer
<1>9. /\ who \in [Calls -> [driver : Drivers \cup {None}, lease : Nat]]
      /\ \A c \in Calls : who[c] = Nobody
  BY DEF Init, Nobody
<1>10. \A c \in Calls : ~Open(c)
  BY DEF Init, R!Init, R!NoCall, Open
<1>11. \A c \in Calls : CallerOK(c)
  BY <1>4, <1>9 DEF CallerOK, Nobody, Live, Fence
<1>12. fate \in [Events -> Fates] /\ \A e \in Events : fate[e] = None
  BY <1>2 DEF Init
<1>13. \A e \in Events : AckedOK(e)
  BY <1>12 DEF AckedOK, None
<1>14. RetainedIsNotSkipped
  BY <1>4 DEF RetainedIsNotSkipped
<1> QED BY <1>1, <1>3, <1>5, <1>6, <1>7, <1>8, <1>9, <1>10, <1>11, <1>12, <1>13, <1>14
           DEF IInv, OpenOK, DeliveryOK

LEMMA NextKeeps == IInv /\ [Next]_vars => IInv'
<1> SUFFICES ASSUME IInv, [Next]_vars PROVE IInv'
  OBVIOUS
<1>1. RP!IInv'
  BY ServiceReceipts, ReceiptsKeep DEF IInv
<1>2. ASSUME NEW d \in Drivers, DriverStep(d) PROVE IInv'
  BY <1>1, <1>2, AcquireKeeps, PollKeeps, GrantKeeps, DriverCompleteKeeps, ReleaseKeeps,
     ObserveKeeps, ReconcileKeeps, RecompleteKeeps DEF DriverStep
<1>3. ASSUME NEW d \in Drivers, NEW c \in Calls, NEW k \in Keys, GuestSend(d, c, k) PROVE IInv'
  BY <1>1, <1>3, SendKeeps
<1>4. ASSUME NEW d \in Drivers, GuestRefused(d) PROVE IInv'
  BY <1>1, <1>4, GuestRefusedKeeps
<1>5. ASSUME NEW c \in Calls, HostStep(c) \/ HostAnswer(c) PROVE IInv'
  BY <1>1, <1>5, HostStepKeeps, AnswerKeeps
<1>6. CASE Recover
  BY <1>1, <1>6, RecoverKeeps
<1>7. ASSUME NEW d \in Drivers,
             Start(d) \/ Crash(d) \/ \E then \in {"down", "rearm"} : Cancel(d, then)
      PROVE  IInv'
  BY <1>1, <1>7, TaskKeeps
<1>8. CASE Lapse \/ WaitOver
  BY <1>1, <1>8, ClockKeeps
<1>9. CASE Append \/ Age
  BY <1>1, <1>9, OutboxKeeps
<1>10. ASSUME NEW e \in Events, ReceiptDeadline(e) PROVE IInv'
  BY <1>1, <1>10, DeadlineKeeps
<1>11. CASE UNCHANGED vars
  BY <1>1, <1>11, StutterKeeps
<1> QED BY <1>2, <1>3, <1>4, <1>5, <1>6, <1>7, <1>8, <1>9, <1>10, <1>11 DEF Next

\* The inductive invariant holds for any number of drivers, events, Sends, faults
\* and management decisions: one lease has one driver (acquire), a Send lives with
\* its guest or shows a lease no working driver has (Effects), and an open Send is
\* for an event behind the cursor, being delivered or given up (poll, complete).
THEOREM ServiceInvariant == Spec => []IInv
  BY InitEstablishes, NextKeeps, PTL DEF Spec

\* Refinement: whatever its drivers, its lease and its recovery do, the Service
\* uses the receipts as PluginReceipt allows; so all that is proved of them holds
\* under the Service, whose begin, effect_admit and effect_complete these are.
THEOREM ServiceRefinesReceipts == Spec => ReceiptSpec
<1>1. Init => R!Init
  BY DEF Init
<1>2. IInv /\ [Next]_vars => [R!Next]_R!receipts
  BY ServiceReceipts DEF receipts, R!receipts
<1> QED
  BY <1>1, <1>2, ServiceInvariant, PTL DEF Spec, ReceiptSpec, R!Spec

\* An event that is delivered again, by the same or by another driver, repeats no
\* effect: the peer sees at most one request for a key of an event (effect_admit).
THEOREM RedeliveryRepeatsNothing == Spec => [](\A e \in Events, k \in Keys : sent[e][k] <= 1)
<1>1. IInv => \A e \in Events, k \in Keys : sent[e][k] <= 1
  BY DEF IInv, RP!IInv, RP!EffectOnce
<1> QED
  BY <1>1, ServiceInvariant, PTL

\* The rows of the consumer keep the bounds that plugin_service_schema.sql checks:
\* poll counts an attempt only below MAX_ATTEMPTS, and cursor, blocked event and
\* last acknowledgement stay within the outbox.
THEOREM ServiceTyped == Spec => []TypeOK
<1>1. IInv => TypeOK
  <2> SUFFICES ASSUME IInv PROVE TypeOK
    OBVIOUS
  <2>1. R!TypeOK
    BY ReceiptFacts DEF IInv
  <2>2. out \in Outbox /\ out.floor <= out.aged /\ out.aged <= out.n
    BY DEF IInv, OutboxOK
  <2>3. con \in [known : BOOLEAN, cursor : 0..out.n, drain : 0..out.n, pause : Reason,
                cur : 0..out.n, attempt : 0..MaxAttempts, waiting : BOOLEAN,
                token : 0..con.issued, issued : Nat, leased : BOOLEAN, lastAck : 0..out.n]
    <3>1. /\ con.cursor \in 0..out.n /\ con.drain \in 0..out.n /\ con.cur \in 0..out.n
          /\ con.lastAck \in 0..out.n /\ con.attempt \in 0..MaxAttempts
          /\ con.token \in 0..con.issued
      BY <2>2, BoundsAssumption DEF IInv, ConsumerOK, Consumer, Outbox
    <3>2. con \in Consumer
      BY DEF IInv, ConsumerOK
    <3> QED BY <3>1, <3>2 DEF Consumer
  <2>4. \A d \in Drivers : drv[d] \in
          [pc : Pcs, lease : 0..con.issued, ev : 0..out.n, uncertain : BOOLEAN,
           parked : BOOLEAN, unconf : 0..out.n, then : Thens]
    <3> SUFFICES ASSUME NEW d \in Drivers
                 PROVE  drv[d] \in [pc : Pcs, lease : 0..con.issued, ev : 0..out.n,
                                    uncertain : BOOLEAN, parked : BOOLEAN,
                                    unconf : 0..out.n, then : Thens]
      OBVIOUS
    <3>1. /\ drv[d].lease \in 0..con.issued /\ drv[d].ev \in 0..out.n
          /\ drv[d].unconf \in 0..out.n
      BY <2>2, DriverFacts DEF DriverOK, IInv, ConsumerOK, Consumer, Outbox
    <3> QED BY <3>1, DriverFacts DEF Driver
  <2>5. \A c \in Calls : who[c] \in [driver : Drivers \cup {None}, lease : 0..con.issued]
    BY DEF IInv, CallerOK, ConsumerOK, Consumer
  <2>6. /\ drv \in [Drivers -> Driver] /\ fate \in [Events -> Fates]
        /\ who \in [Calls -> [driver : Drivers \cup {None}, lease : Nat]]
    BY DEF IInv
  <2> QED BY <2>1, <2>2, <2>3, <2>4, <2>5, <2>6 DEF TypeOK, Pcs, Thens, Fates
<1> QED
  BY <1>1, ServiceInvariant, PTL

\* A guest that runs under the live lease meets no Send of an earlier attempt or of
\* another driver on its event, unless the event was given up with a gap and came
\* back (unknown_effect before the delivery, the fence before every admission).
THEOREM AttemptsNeverOverlap == Spec => []AttemptsDoNotOverlap
<1>1. IInv => AttemptsDoNotOverlap
  BY DEF IInv, DeliveryOK, AttemptsDoNotOverlap, At, Open
<1> QED
  BY <1>1, ServiceInvariant, PTL

\* The cursor passes no subscribed event that is still in the outbox unless it was
\* acknowledged or a decision named it (complete, recover, prune_outbox).
THEOREM NothingRetainedIsSkipped == Spec => []RetainedIsNotSkipped
<1>1. IInv => RetainedIsNotSkipped
  BY DEF IInv
<1> QED
  BY <1>1, ServiceInvariant, PTL

\* Only a step of a Send lets a request leave.
LEMMA SentByHost ==
    ASSUME IInv, [Next]_vars PROVE sent' = sent \/ \E c \in Calls : HostStep(c)
<1>1. ASSUME NEW d \in Drivers, DriverStep(d) PROVE sent' = sent
  <2>1. CASE DriverPoll(d)
    BY <2>1 DEF DriverPoll, Poll, R!Begin, receipts
  <2>2. CASE ~DriverPoll(d)
    BY <1>1, <2>2 DEF DriverStep, DriverAcquire, DriverGrant, DriverComplete, DriverRelease,
                      DriverObserve, DriverReconcile, DriverRecomplete, receipts
  <2> QED BY <2>1, <2>2
<1>2. ASSUME NEW d \in Drivers, NEW c \in Calls, NEW k \in Keys, GuestSend(d, c, k)
      PROVE  sent' = sent
  BY <1>2 DEF GuestSend, R!Send
<1>3. ASSUME NEW c \in Calls, HostAnswer(c) PROVE sent' = sent
  BY <1>3, Zenon DEF HostAnswer, R!Answer, R!DropCall
<1>4. ASSUME NEW e \in Events, ReceiptDeadline(e) PROVE sent' = sent
  BY <1>4 DEF ReceiptDeadline, R!DeadlinePasses
<1>5. CASE \/ \E d \in Drivers : GuestRefused(d) \/ Start(d) \/ Crash(d)
                                 \/ \E then \in {"down", "rearm"} : Cancel(d, then)
           \/ Recover \/ Lapse \/ WaitOver \/ Append \/ Age \/ UNCHANGED vars
  BY <1>5 DEF GuestRefused, Start, Crash, Cancel, Recover, Resume, AcceptGap, Skip, Lapse,
              WaitOver, Append, Age, receipts, vars
<1> QED BY <1>1, <1>2, <1>3, <1>4, <1>5 DEF Next

\* After an acknowledgement the effects of the event are known and nothing leaves
\* for it, also not from a Send its guest did not wait for (complete refuses to
\* acknowledge while unknown_effect holds; the fence admits nothing later).
THEOREM AckStays == Spec => AckIsFinal
<1> DEFINE Final == \A e \in Events, k \in Keys : fate[e] = "acked"
                      => sent'[e][k] = sent[e][k] /\ rec[e][k] \notin {"pending", "unknown"}
<1>1. IInv /\ [Next]_vars => [Final]_vars
  <2> SUFFICES ASSUME IInv, [Next]_vars, NEW e \in Events, NEW k \in Keys, fate[e] = "acked"
               PROVE  sent'[e][k] = sent[e][k] /\ rec[e][k] \notin {"pending", "unknown"}
    OBVIOUS
  <2>1. rec[e][k] \notin {"pending", "unknown"}
    BY DEF IInv, AckedOK
  <2>2. CASE sent' = sent
    BY <2>1, <2>2
  <2>3. ASSUME NEW c \in Calls, HostStep(c) PROVE sent'[e] = sent[e]
    <3>1. R!TypeOK
      BY ReceiptFacts DEF IInv
    <3>2. PICK ok \in BOOLEAN : R!CallStep(c, ok)
      BY <2>3 DEF HostStep, R!CallStep, R!EffectAdmit, R!Recheck, R!Guard, R!EffectComplete
    <3>3. \/ sent' = sent
          \/ /\ Open(c)
             /\ sent' = [sent EXCEPT ![calls[c].inv][calls[c].key] = @ + 1]
      BY <3>1, <3>2, CallStepChanges
    <3>4. Open(c) => calls[c].inv # e
      BY AckedIsClosed
    <3> QED BY <3>1, <3>3, <3>4 DEF R!TypeOK
  <2> QED BY <2>1, <2>2, <2>3, SentByHost
<1> QED
  BY <1>1, ServiceInvariant, PTL DEF Spec, AckIsFinal
==============================================================================
