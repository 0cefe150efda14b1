------------------------ MODULE PluginReceiptProofs -------------------------
(***************************************************************************)
(* Effect receipts for any number of invocations, keys and Send requests.   *)
(*                                                                          *)
(* EffectOnce is not inductive: it needs that an admitted Send owns its     *)
(* effect until its outcome is written, that its receipt stays open         *)
(* meanwhile, and that each stage knows whether the request has left.       *)
(***************************************************************************)
EXTENDS PluginReceipt, TLAPS

\* Stages between the insertion of a receipt and the record of its outcome.
Open == {"dispatching", "connecting", "sending", "sent", "completing"}

\* An effect is in the hands of one Send.
Exclusive ==
    \A c, d \in Calls :
        /\ calls[c].pc \in Open /\ calls[d].pc \in Open
        /\ calls[c].inv = calls[d].inv /\ calls[c].key = calls[d].key
        => c = d

\* What the stage of a Send says about its receipt and the peer.
Knows(c) ==
    LET n == sent[calls[c].inv][calls[c].key]
    IN  /\ calls[c].pc \in Open => rec[calls[c].inv][calls[c].key] \in {"pending", "expired"}
        /\ calls[c].pc \in {"dispatching", "connecting", "sending"} => n = 0
        /\ calls[c].pc = "sent" => n = 1
        /\ calls[c].pc = "completing" =>
            (calls[c].res = "refused" => n = 0) /\ (calls[c].res = "response" => n = 1)
        /\ calls[c].pc \in {"publishing", "answered"} /\ calls[c].res = "response" => n = 1

RecordsTrue ==
    \A i \in Invocations, k \in Keys :
        /\ rec[i][k] \in {"none", "refused"} => sent[i][k] = 0
        /\ rec[i][k] = "response" => sent[i][k] = 1

IInv ==
    /\ TypeOK
    /\ EffectOnce
    /\ RecordsTrue
    /\ Exclusive
    /\ \A c \in Calls : Knows(c)

------------------------------------------------------------------------------
\* How one request changes

Busy == [pc : Stage \ {"idle"}, inv : Invocations, key : Keys, res : Outcome]

LEMMA BusyCall ==
    ASSUME TypeOK, NEW c \in Calls, calls[c].pc # "idle"
    PROVE  calls[c] \in Busy
  BY DEF TypeOK, Call, NoCall, Busy

\* Goto and Result touch one request and keep whose effect it is.
LEMMA CallMoves ==
    ASSUME TypeOK, NEW c \in Calls, calls[c].pc # "idle",
           NEW pc \in Stage \ {"idle"}, NEW res \in Outcome,
           \/ Goto(c, pc) /\ res = calls[c].res
           \/ Result(c, pc, res)
    PROVE  /\ calls' \in [Calls -> Call]
           /\ calls'[c].pc = pc /\ calls'[c].res = res
           /\ calls'[c].inv = calls[c].inv /\ calls'[c].key = calls[c].key
           /\ \A d \in Calls : d # c => calls'[d] = calls[d]
<1>1. calls[c] \in Busy
  BY BusyCall
<1>2. calls \in [Calls -> Call]
  BY DEF TypeOK
<1>3. calls'[c] \in Busy /\ calls'[c].pc = pc /\ calls'[c].res = res
      /\ calls'[c].inv = calls[c].inv /\ calls'[c].key = calls[c].key
  BY <1>1, <1>2 DEF Goto, Result, Busy
<1>4. \A d \in Calls : d # c => calls'[d] = calls[d]
  BY <1>2 DEF Goto, Result
<1>5. calls' = [d \in Calls |-> calls'[d]]
  BY <1>2 DEF Goto, Result
<1>6. \A d \in Calls : calls'[d] \in Call
  BY <1>2, <1>3, <1>4 DEF Call, Busy
<1> QED
  BY <1>3, <1>4, <1>5, <1>6

\* A step that only moves one request, and tells it nothing wrong.
LEMMA MoveKeeps ==
    ASSUME IInv, NEW c \in Calls, calls[c].pc # "idle",
           NEW pc \in Stage \ {"idle"}, NEW res \in Outcome,
           \/ Goto(c, pc) /\ res = calls[c].res
           \/ Result(c, pc, res),
           UNCHANGED <<inv, rec, sent>>,
           pc \in Open => calls[c].pc \in Open,
           Knows(c)'
    PROVE  IInv'
<1>1. /\ calls' \in [Calls -> Call]
      /\ calls'[c].pc = pc /\ calls'[c].res = res
      /\ calls'[c].inv = calls[c].inv /\ calls'[c].key = calls[c].key
      /\ \A d \in Calls : d # c => calls'[d] = calls[d]
  BY CallMoves DEF IInv
<1>2. TypeOK'
  BY <1>1 DEF IInv, TypeOK
<1>3. EffectOnce' /\ RecordsTrue'
  BY DEF IInv, EffectOnce, RecordsTrue
<1>4. Exclusive'
  BY <1>1 DEF IInv, Exclusive
<1>5. ASSUME NEW d \in Calls PROVE Knows(d)'
  BY <1>1 DEF IInv, Knows
<1> QED
  BY <1>2, <1>3, <1>4, <1>5 DEF IInv

\* The identity and what hangs on it.
LEMMA CallEffect ==
    ASSUME TypeOK, NEW c \in Calls, calls[c].pc # "idle"
    PROVE  /\ calls[c].inv \in Invocations /\ calls[c].key \in Keys
           /\ calls[c].res \in Outcome
           /\ rec[calls[c].inv][calls[c].key] \in {"none", "pending", "expired"} \cup Outcome
           /\ sent[calls[c].inv][calls[c].key] \in Nat
  BY BusyCall DEF TypeOK, Busy

------------------------------------------------------------------------------

LEMMA InitEstablishes == Init => IInv
<1> SUFFICES ASSUME Init PROVE IInv
  OBVIOUS
<1>1. TypeOK
  BY DEF Init, TypeOK, NoInvocation, Call
<1>2. \A c \in Calls : calls[c].pc = "idle"
  BY DEF Init, NoCall
<1>3. Exclusive /\ \A c \in Calls : Knows(c)
  BY <1>2 DEF Exclusive, Knows, Open
<1>4. EffectOnce /\ RecordsTrue
  BY DEF Init, EffectOnce, RecordsTrue
<1> QED
  BY <1>1, <1>3, <1>4 DEF IInv

\* Steps on an invocation's own row.
LEMMA RowKeeps ==
    ASSUME IInv, NEW i \in Invocations, Begin(i) \/ DeadlinePasses(i) \/ Cancel(i)
    PROVE  IInv'
<1>1. inv' \in [Invocations -> [begun : BOOLEAN, due : BOOLEAN,
                                cancelled : BOOLEAN, expired : BOOLEAN]]
  BY DEF IInv, TypeOK, Begin, DeadlinePasses, Cancel
<1>2. UNCHANGED <<rec, calls, sent>>
  BY DEF Begin, DeadlinePasses, Cancel
<1> QED
  BY <1>1, <1>2 DEF IInv, TypeOK, EffectOnce, RecordsTrue, Exclusive, Knows

LEMMA PruneKeeps ==
    ASSUME IInv, Prune
    PROVE  IInv'
<1>1. inv' \in [Invocations -> [begun : BOOLEAN, due : BOOLEAN,
                                cancelled : BOOLEAN, expired : BOOLEAN]]
  <2> DEFINE Row == [begun : BOOLEAN, due : BOOLEAN, cancelled : BOOLEAN, expired : BOOLEAN]
             gone(i) == inv[i].expired \/ inv[i].due
  <2>1. ASSUME NEW i \in Invocations, NEW b \in BOOLEAN
        PROVE  [inv[i] EXCEPT !.expired = b] \in Row
    BY DEF IInv, TypeOK
  <2>2. \A i \in Invocations : gone(i) \in BOOLEAN
    OBVIOUS
  <2>3. inv' = [i \in Invocations |-> [inv[i] EXCEPT !.expired = gone(i)]]
    BY Zenon DEF Prune
  <2> HIDE DEF Row, gone
  <2> QED
    BY <2>1, <2>2, <2>3, Zenon DEF Row
<1>2. \A i \in Invocations, k \in Keys :
        rec'[i][k] = rec[i][k] \/ (rec'[i][k] = "expired" /\ rec[i][k] # "none")
  BY DEF Prune
<1>3. rec' \in [Invocations -> [Keys -> {"none", "pending", "expired"} \cup Outcome]]
  BY DEF IInv, TypeOK, Prune
<1>4. UNCHANGED <<calls, sent>>
  BY DEF Prune
<1>5. TypeOK'
  BY <1>1, <1>3, <1>4 DEF IInv, TypeOK
<1>6. EffectOnce' /\ Exclusive'
  BY <1>4 DEF IInv, EffectOnce, Exclusive
<1>7. RecordsTrue'
  BY <1>2, <1>4 DEF IInv, RecordsTrue
<1>8. ASSUME NEW c \in Calls PROVE Knows(c)'
  <2>1. Knows(c)
    BY DEF IInv
  <2>2. CASE calls[c].pc = "idle"
    BY <1>4, <2>2 DEF Knows, Open
  <2>3. CASE calls[c].pc # "idle"
    <3>1. calls[c].inv \in Invocations /\ calls[c].key \in Keys
      BY <2>3, CallEffect DEF IInv
    <3> QED
      BY <1>2, <1>4, <2>1, <3>1 DEF Knows
  <2> QED
    BY <2>2, <2>3
<1> QED
  BY <1>5, <1>6, <1>7, <1>8 DEF IInv

------------------------------------------------------------------------------
\* Steps of a Send

LEMMA AdmitKeeps ==
    ASSUME IInv, NEW c \in Calls, NEW ok \in BOOLEAN, EffectAdmit(c, ok)
    PROVE  IInv'
<1> DEFINE i == calls[c].inv
           k == calls[c].key
<1>1. calls[c].pc = "admitting" /\ UNCHANGED <<inv, sent>>
  BY DEF EffectAdmit
<1>2. /\ i \in Invocations /\ k \in Keys /\ calls[c].res \in Outcome
      /\ rec[i][k] \in {"none", "pending", "expired"} \cup Outcome
      /\ TypeOK
  BY <1>1, CallEffect DEF IInv
<1>3. CASE rec[i][k] = "none" /\ Goto(c, "dispatching")
           /\ rec' = [rec EXCEPT ![i][k] = "pending"]
  <2>1. /\ calls' \in [Calls -> Call]
        /\ calls'[c].pc = "dispatching"
        /\ calls'[c].inv = i /\ calls'[c].key = k
        /\ \A d \in Calls : d # c => calls'[d] = calls[d]
    BY <1>1, <1>2, <1>3, CallMoves DEF Stage
  <2>2. TypeOK'
    BY <1>1, <1>2, <1>3, <2>1 DEF TypeOK
  <2>3. \A d \in Calls : d # c /\ calls[d].pc \in Open
            => ~(calls[d].inv = i /\ calls[d].key = k)
    BY <1>3 DEF IInv, Knows
  <2>4. Exclusive'
    BY <2>1, <2>3 DEF IInv, Exclusive
  <2>5. /\ rec'[i][k] = "pending"
        /\ \A j \in Invocations, x \in Keys : ~(j = i /\ x = k) => rec'[j][x] = rec[j][x]
    BY <1>2, <1>3 DEF TypeOK
  <2>6. EffectOnce' /\ RecordsTrue'
    BY <1>1, <2>5 DEF IInv, EffectOnce, RecordsTrue
  <2>7. sent[i][k] = 0
    BY <1>2, <1>3 DEF IInv, RecordsTrue
  <2>8. ASSUME NEW d \in Calls PROVE Knows(d)'
    <3>1. CASE d = c
      BY <1>1, <2>1, <2>5, <2>7, <3>1 DEF Knows, Open
    <3>2. CASE d # c /\ calls[d].pc \notin Open
      BY <1>1, <2>1, <3>2 DEF IInv, Knows, Open
    <3>3. CASE d # c /\ calls[d].pc \in Open
      <4>1. calls[d].inv \in Invocations /\ calls[d].key \in Keys
        BY <1>2, <3>3, CallEffect DEF Open
      <4>2. rec'[calls[d].inv][calls[d].key] = rec[calls[d].inv][calls[d].key]
        BY <2>3, <2>5, <3>3, <4>1
      <4> QED
        BY <1>1, <2>1, <3>3, <4>2 DEF IInv, Knows
    <3> QED
      BY <3>1, <3>2, <3>3
  <2> QED
    BY <2>2, <2>4, <2>6, <2>8 DEF IInv
<1>4. CASE /\ rec[i][k] # "none" /\ UNCHANGED rec
           /\ Result(c, "publishing", IF rec[i][k] \in Outcome THEN rec[i][k] ELSE "unknown")
  <2> DEFINE res == IF rec[i][k] \in Outcome THEN rec[i][k] ELSE "unknown"
  <2>1. res \in Outcome
    BY DEF Outcome
  <2>2. /\ calls'[c].pc = "publishing" /\ calls'[c].res = res
        /\ calls'[c].inv = i /\ calls'[c].key = k
    <3> HIDE DEF res
    <3> QED
      BY <1>1, <1>2, <1>4, <2>1, CallMoves DEF Stage, res
  <2>3. res = "response" => sent[i][k] = 1
    BY <1>2 DEF IInv, RecordsTrue
  <2>4. Knows(c)'
    BY <1>1, <2>2, <2>3 DEF Knows, Open
  <2> HIDE DEF res
  <2> QED
    BY <1>1, <1>4, <2>1, <2>4, MoveKeeps DEF Stage, Open, res
<1>5. CASE /\ UNCHANGED rec
           /\ Result(c, "answered", IF ok THEN "unknown" ELSE "refused")
  <2> DEFINE res == IF ok THEN "unknown" ELSE "refused"
  <2>1. res \in Outcome /\ res # "response"
    BY DEF Outcome
  <2> HIDE DEF res
  <2>2. calls'[c].pc = "answered" /\ calls'[c].res = res
    BY <1>1, <1>2, <1>5, <2>1, CallMoves DEF Stage, res
  <2>3. Knows(c)'
    BY <2>1, <2>2 DEF Knows, Open
  <2> QED
    BY <1>1, <1>5, <2>1, <2>3, MoveKeeps DEF Stage, Open, res
<1> QED
  BY <1>3, <1>4, <1>5 DEF EffectAdmit

\* Recheck, Guard, Respond, Abort and Publish move a request.
LEMMA TransportKeeps ==
    ASSUME IInv, NEW c \in Calls, NEW ok \in BOOLEAN,
           Recheck(c, ok) \/ Guard(c, ok) \/ Respond(c) \/ Abort(c) \/ Publish(c)
    PROVE  IInv'
<1>1. calls[c].pc # "idle" /\ UNCHANGED <<inv, rec, sent>> /\ TypeOK /\ Knows(c)
  BY DEF IInv, Recheck, Guard, Respond, Abort, Publish
<1>2. calls[c].res \in Outcome
  BY <1>1, CallEffect
<1>3. ASSUME NEW pc \in {"connecting", "sending"}, Goto(c, pc),
             calls[c].pc \in {"dispatching", "connecting"}
      PROVE  IInv'
  <2>1. /\ calls'[c].pc = pc /\ calls'[c].inv = calls[c].inv /\ calls'[c].key = calls[c].key
    BY <1>1, <1>2, <1>3, CallMoves DEF Stage
  <2>2. Knows(c)'
    BY <1>1, <1>3, <2>1 DEF Knows, Open
  <2> QED
    BY <1>1, <1>2, <1>3, <2>2, MoveKeeps DEF Stage, Open
<1>4. ASSUME NEW res \in {"refused", "unknown"}, Result(c, "answered", res)
      PROVE  IInv'
  <2>1. calls'[c].pc = "answered" /\ calls'[c].res = res
    BY <1>1, <1>4, CallMoves DEF Stage, Outcome
  <2>2. Knows(c)'
    BY <2>1 DEF Knows, Open
  <2> QED
    BY <1>1, <1>4, <2>2, MoveKeeps DEF Stage, Open, Outcome
<1>5. ASSUME NEW res \in Outcome, Result(c, "completing", res), calls[c].pc \in Open,
             res = "refused" => calls[c].pc = "connecting",
             res = "response" => calls[c].pc = "sent"
      PROVE  IInv'
  <2>1. /\ calls'[c].pc = "completing" /\ calls'[c].res = res
        /\ calls'[c].inv = calls[c].inv /\ calls'[c].key = calls[c].key
    BY <1>1, <1>5, CallMoves DEF Stage
  <2>2. Knows(c)'
    BY <1>1, <1>5, <2>1 DEF Knows, Open
  <2> QED
    BY <1>1, <1>5, <2>2, MoveKeeps DEF Stage
<1>6. CASE Recheck(c, ok)
  <2> DEFINE res == IF ok /\ ~Usable(calls[c].inv) THEN "unknown" ELSE "refused"
  <2>1. res \in {"refused", "unknown"}
    OBVIOUS
  <2>2. \/ Goto(c, "connecting") /\ calls[c].pc = "dispatching"
        \/ Result(c, "answered", res)
    BY <1>6 DEF Recheck
  <2> HIDE DEF res
  <2> QED
    BY <1>3, <1>4, <2>1, <2>2
<1>7. CASE Guard(c, ok)
  BY <1>3, <1>5, <1>7 DEF Guard, Outcome, Open
<1>8. CASE Respond(c)
  BY <1>5, <1>8 DEF Respond, Outcome, Open
<1>9. CASE Abort(c)
  BY <1>5, <1>9 DEF Abort, Outcome, Open
<1>10. CASE Publish(c)
  <2>1. Goto(c, "answered") /\ calls[c].pc = "publishing"
    BY <1>10 DEF Publish
  <2>2. /\ calls'[c].pc = "answered" /\ calls'[c].res = calls[c].res
        /\ calls'[c].inv = calls[c].inv /\ calls'[c].key = calls[c].key
    BY <1>1, <1>2, <2>1, CallMoves DEF Stage
  <2>3. Knows(c)'
    BY <1>1, <2>1, <2>2 DEF Knows, Open
  <2> QED
    BY <1>1, <1>2, <2>1, <2>3, MoveKeeps DEF Stage, Open
<1> QED
  BY <1>6, <1>7, <1>8, <1>9, <1>10

LEMMA TransmitKeeps ==
    ASSUME IInv, NEW c \in Calls, Transmit(c)
    PROVE  IInv'
<1> DEFINE i == calls[c].inv
           k == calls[c].key
<1>1. /\ calls[c].pc = "sending" /\ Goto(c, "sent") /\ UNCHANGED <<inv, rec>>
      /\ sent' = [sent EXCEPT ![i][k] = @ + 1]
      /\ TypeOK
  BY DEF Transmit, IInv
<1>2. i \in Invocations /\ k \in Keys /\ calls[c].res \in Outcome
  BY <1>1, CallEffect
<1>3. sent[i][k] = 0 /\ rec[i][k] \in {"pending", "expired"}
  BY <1>1 DEF IInv, Knows, Open
<1>4. /\ sent' \in [Invocations -> [Keys -> Nat]]
      /\ sent'[i][k] = 1
      /\ \A j \in Invocations, x \in Keys : ~(j = i /\ x = k) => sent'[j][x] = sent[j][x]
  BY <1>1, <1>2, <1>3 DEF TypeOK
<1>5. /\ calls' \in [Calls -> Call]
      /\ calls'[c].pc = "sent" /\ calls'[c].inv = i /\ calls'[c].key = k
      /\ \A d \in Calls : d # c => calls'[d] = calls[d]
  BY <1>1, <1>2, CallMoves DEF Stage
<1>6. TypeOK'
  BY <1>1, <1>4, <1>5 DEF TypeOK
<1>7. EffectOnce'
  BY <1>4 DEF IInv, EffectOnce
<1>8. RecordsTrue'
  BY <1>1, <1>3, <1>4 DEF IInv, RecordsTrue
<1>9. Exclusive'
  BY <1>1, <1>5 DEF IInv, Exclusive, Open
<1>10. ASSUME NEW d \in Calls PROVE Knows(d)'
  <2>1. CASE d = c
    BY <1>1, <1>3, <1>4, <1>5, <2>1 DEF Knows, Open
  <2>2. CASE d # c /\ calls[d].pc = "idle"
    BY <1>5, <2>2 DEF Knows, Open
  <2>3. CASE d # c /\ calls[d].pc # "idle"
    <3>1. calls[d].inv \in Invocations /\ calls[d].key \in Keys
      BY <1>1, <2>3, CallEffect
    <3>2. CASE calls[d].inv = i /\ calls[d].key = k
      <4>1. calls[d].pc \notin Open
        BY <1>1, <2>3, <3>2 DEF IInv, Exclusive, Open
      <4>2. Knows(d)
        BY DEF IInv
      <4> QED
        BY <1>3, <1>5, <2>3, <3>2, <4>1, <4>2 DEF Knows, Open
    <3>3. CASE ~(calls[d].inv = i /\ calls[d].key = k)
      <4>1. sent'[calls[d].inv][calls[d].key] = sent[calls[d].inv][calls[d].key]
        BY <1>4, <3>1, <3>3
      <4> QED
        BY <1>1, <1>5, <2>3, <4>1 DEF IInv, Knows
    <3> QED
      BY <3>2, <3>3
  <2> QED
    BY <2>1, <2>2, <2>3
<1> QED
  BY <1>6, <1>7, <1>8, <1>9, <1>10 DEF IInv

LEMMA CompleteKeeps ==
    ASSUME IInv, NEW c \in Calls, NEW ok \in BOOLEAN, EffectComplete(c, ok)
    PROVE  IInv'
<1> DEFINE i == calls[c].inv
           k == calls[c].key
           res == calls[c].res
<1>1. calls[c].pc = "completing" /\ UNCHANGED <<inv, sent>> /\ TypeOK /\ Knows(c)
  BY DEF EffectComplete, IInv
<1>2. i \in Invocations /\ k \in Keys /\ res \in Outcome
  BY <1>1, CallEffect
<1>3. CASE /\ Goto(c, "publishing")
           /\ rec' = [rec EXCEPT ![i][k] = res]
  <2>1. /\ calls' \in [Calls -> Call]
        /\ calls'[c].pc = "publishing" /\ calls'[c].res = res
        /\ calls'[c].inv = i /\ calls'[c].key = k
        /\ \A d \in Calls : d # c => calls'[d] = calls[d]
    BY <1>1, <1>2, <1>3, CallMoves DEF Stage
  <2>2. /\ rec'[i][k] = res
        /\ \A j \in Invocations, x \in Keys : ~(j = i /\ x = k) => rec'[j][x] = rec[j][x]
    BY <1>1, <1>2, <1>3 DEF TypeOK
  <2>3. TypeOK'
    BY <1>1, <1>2, <1>3, <2>1 DEF TypeOK
  <2>4. (res = "refused" => sent[i][k] = 0) /\ (res = "response" => sent[i][k] = 1)
    BY <1>1 DEF Knows
  <2>5. EffectOnce'
    BY <1>1 DEF IInv, EffectOnce
  <2>6. RecordsTrue'
    BY <1>1, <1>2, <2>2, <2>4 DEF IInv, RecordsTrue, Outcome
  <2>7. Exclusive'
    BY <2>1 DEF IInv, Exclusive, Open
  <2>8. ASSUME NEW d \in Calls PROVE Knows(d)'
    <3>1. CASE d = c
      BY <1>1, <2>1, <2>4, <3>1 DEF Knows, Open
    <3>2. CASE d # c /\ calls[d].pc \notin Open
      BY <1>1, <2>1, <3>2 DEF IInv, Knows, Open
    <3>3. CASE d # c /\ calls[d].pc \in Open
      <4>1. calls[d].inv \in Invocations /\ calls[d].key \in Keys
        BY <1>1, <3>3, CallEffect DEF Open
      <4>2. ~(calls[d].inv = i /\ calls[d].key = k)
        BY <1>1, <3>3 DEF IInv, Exclusive, Open
      <4>3. rec'[calls[d].inv][calls[d].key] = rec[calls[d].inv][calls[d].key]
        BY <2>2, <4>1, <4>2
      <4> QED
        BY <1>1, <2>1, <3>3, <4>3 DEF IInv, Knows
    <3> QED
      BY <3>1, <3>2, <3>3
  <2> QED
    BY <2>3, <2>5, <2>6, <2>7, <2>8 DEF IInv
<1>4. CASE UNCHANGED rec /\ Result(c, "answered", "unknown")
  <2>1. calls'[c].pc = "answered" /\ calls'[c].res = "unknown"
    BY <1>1, <1>4, CallMoves DEF Stage, Outcome
  <2>2. Knows(c)'
    BY <2>1 DEF Knows, Open
  <2> QED
    BY <1>1, <1>4, <2>2, MoveKeeps DEF Stage, Open, Outcome
<1> QED
  BY <1>3, <1>4 DEF EffectComplete

\* A request appears or disappears.
LEMMA EndsKeep ==
    ASSUME IInv, NEW c \in Calls,
           \/ Answer(c) \/ DropCall(c)
           \/ \E i \in Invocations, k \in Keys, ok \in BOOLEAN : Send(c, i, k, ok)
    PROVE  IInv'
<1>1. UNCHANGED <<inv, rec, sent>> /\ TypeOK
  BY DEF Answer, DropCall, Send, IInv
<1>2. PICK v \in Call : calls' = [calls EXCEPT ![c] = v] /\ v.pc \in {"idle", "admitting"}
  <2>1. CASE Answer(c) \/ DropCall(c)
    BY <2>1 DEF Answer, DropCall, Call, NoCall
  <2>2. CASE \E i \in Invocations, k \in Keys, ok \in BOOLEAN : Send(c, i, k, ok)
    <3>1. PICK i \in Invocations, k \in Keys, ok \in BOOLEAN : Send(c, i, k, ok)
      BY <2>2
    <3> DEFINE v == [pc |-> "admitting", inv |-> i, key |-> k, res |-> "unknown"]
    <3>2. v \in Call /\ v.pc = "admitting"
      BY DEF Call, Stage, Outcome
    <3>3. calls' = [calls EXCEPT ![c] = v]
      BY <3>1 DEF Send
    <3> QED
      BY <3>2, <3>3
  <2> QED
    BY <2>1, <2>2
<1>3. /\ calls' \in [Calls -> Call]
      /\ calls'[c].pc \in {"idle", "admitting"}
      /\ \A d \in Calls : d # c => calls'[d] = calls[d]
  BY <1>1, <1>2 DEF TypeOK
<1>4. TypeOK'
  BY <1>1, <1>3 DEF TypeOK
<1>5. EffectOnce' /\ RecordsTrue'
  BY <1>1 DEF IInv, EffectOnce, RecordsTrue
<1>6. Exclusive'
  BY <1>3 DEF IInv, Exclusive, Open
<1>7. ASSUME NEW d \in Calls PROVE Knows(d)'
  BY <1>1, <1>3 DEF IInv, Knows, Open
<1> QED
  BY <1>4, <1>5, <1>6, <1>7 DEF IInv

LEMMA NextKeeps == IInv /\ [Next]_receipts => IInv'
<1> SUFFICES ASSUME IInv, [Next]_receipts PROVE IInv'
  OBVIOUS
<1>1. CASE UNCHANGED receipts
  BY <1>1 DEF receipts, IInv, TypeOK, EffectOnce, RecordsTrue, Exclusive, Knows
<1>2. ASSUME NEW i \in Invocations, Begin(i) \/ DeadlinePasses(i) \/ Cancel(i)
      PROVE  IInv'
  BY <1>2, RowKeeps
<1>3. CASE Prune
  BY <1>3, PruneKeeps
<1>4. ASSUME NEW c \in Calls, NEW ok \in BOOLEAN, CallStep(c, ok)
      PROVE  IInv'
  BY <1>4, AdmitKeeps, TransportKeeps, TransmitKeeps, CompleteKeeps DEF CallStep
<1>5. ASSUME NEW c \in Calls,
             \/ Answer(c) \/ DropCall(c)
             \/ \E i \in Invocations, k \in Keys, ok \in BOOLEAN : Send(c, i, k, ok)
      PROVE  IInv'
  BY <1>5, EndsKeep
<1> QED
  BY <1>1, <1>2, <1>3, <1>4, <1>5 DEF Next

------------------------------------------------------------------------------

\* The inductive invariant of the receipts (effect_admit to effect_complete):
\* an admitted Send owns its effect until its outcome is written.
THEOREM ReceiptInvariant == Spec => []IInv
  BY InitEstablishes, NextKeeps, PTL DEF Spec

\* The rows and requests keep their types.
THEOREM ReceiptsTyped == Spec => []TypeOK
<1>1. IInv => TypeOK
  BY DEF IInv
<1> QED
  BY <1>1, ReceiptInvariant, PTL

\* For any number of invocations, keys and concurrent Sends the peer sees at
\* most one request for an effect key of an invocation (effect_admit).
THEOREM EffectSentOnce == Spec => []EffectOnce
<1>1. IInv => EffectOnce
  BY DEF IInv
<1> QED
  BY <1>1, ReceiptInvariant, PTL

\* No receipt, and no answer to a caller, says more than what happened at the
\* peer (effect_complete, sent_transport_error, SavedEffect::result).
THEOREM ReceiptsSayTheTruth == Spec => []ReceiptsAreTrue
<1>1. IInv => ReceiptsAreTrue
  BY DEF IInv, RecordsTrue, ReceiptsAreTrue, Knows
<1> QED
  BY <1>1, ReceiptInvariant, PTL

\* After a recorded outcome nothing leaves for the effect, and the record
\* changes only to be erased (effect_complete, prune).
THEOREM OutcomeStays == Spec => OutcomeIsFinal
<1> DEFINE Final == \A i \in Invocations, k \in Keys : rec[i][k] \in Outcome
                      => sent'[i][k] = sent[i][k] /\ rec'[i][k] \in {rec[i][k], "expired"}
<1>1. IInv /\ [Next]_receipts => [Final]_receipts
  <2> SUFFICES ASSUME IInv, [Next]_receipts PROVE Final
    OBVIOUS
  <2>1. TypeOK
    BY DEF IInv
  <2>2. \A c \in Calls, i \in Invocations, k \in Keys :
            calls[c].pc \in Open /\ calls[c].inv = i /\ calls[c].key = k
            => rec[i][k] \notin Outcome
    BY DEF IInv, Knows, Outcome
  <2>3. CASE UNCHANGED <<rec, sent>>
    BY <2>3
  <2>4. CASE Prune
    BY <2>4 DEF Prune
  <2>5. ASSUME NEW c \in Calls, NEW ok \in BOOLEAN, EffectAdmit(c, ok)
        PROVE  Final
    <3>1. calls[c].inv \in Invocations /\ calls[c].key \in Keys
      BY <2>1, <2>5, CallEffect DEF EffectAdmit
    <3>2. \/ UNCHANGED rec
          \/ /\ rec[calls[c].inv][calls[c].key] = "none"
             /\ rec' = [rec EXCEPT ![calls[c].inv][calls[c].key] = "pending"]
      BY <2>5 DEF EffectAdmit
    <3>3. UNCHANGED sent
      BY <2>5 DEF EffectAdmit
    <3>4. "none" \notin Outcome
      BY DEF Outcome
    <3>5. CASE UNCHANGED rec
      BY <3>3, <3>5
    <3>6. CASE /\ rec[calls[c].inv][calls[c].key] = "none"
               /\ rec' = [rec EXCEPT ![calls[c].inv][calls[c].key] = "pending"]
      <4>1. \A i \in Invocations, k \in Keys :
                ~(i = calls[c].inv /\ k = calls[c].key) => rec'[i][k] = rec[i][k]
        BY <2>1, <3>1, <3>6 DEF TypeOK
      <4> QED
        BY <3>3, <3>4, <3>6, <4>1
    <3> QED
      BY <3>2, <3>5, <3>6
  <2>6. ASSUME NEW c \in Calls, Transmit(c)
        PROVE  Final
    <3>1. calls[c].inv \in Invocations /\ calls[c].key \in Keys
      BY <2>1, <2>6, CallEffect DEF Transmit
    <3>2. rec[calls[c].inv][calls[c].key] \notin Outcome
      BY <2>2, <2>6, <3>1 DEF Transmit, Open
    <3> QED
      BY <2>1, <2>6, <3>1, <3>2 DEF Transmit, TypeOK
  <2>7. ASSUME NEW c \in Calls, NEW ok \in BOOLEAN, EffectComplete(c, ok)
        PROVE  Final
    <3>1. calls[c].inv \in Invocations /\ calls[c].key \in Keys
      BY <2>1, <2>7, CallEffect DEF EffectComplete
    <3>2. rec[calls[c].inv][calls[c].key] \notin Outcome
      BY <2>2, <2>7, <3>1 DEF EffectComplete, Open
    <3>3. \/ UNCHANGED rec
          \/ rec' = [rec EXCEPT ![calls[c].inv][calls[c].key] = calls[c].res]
      BY <2>7 DEF EffectComplete
    <3>4. UNCHANGED sent
      BY <2>7 DEF EffectComplete
    <3> QED
      BY <2>1, <3>1, <3>2, <3>3, <3>4 DEF TypeOK
  <2>8. ASSUME NEW c \in Calls, NEW ok \in BOOLEAN,
               Recheck(c, ok) \/ Guard(c, ok) \/ Respond(c) \/ Abort(c) \/ Publish(c)
        PROVE  UNCHANGED <<rec, sent>>
    BY <2>8 DEF Recheck, Guard, Respond, Abort, Publish
  <2>9. ASSUME NEW c \in Calls,
               \/ Answer(c) \/ DropCall(c)
               \/ \E i \in Invocations, k \in Keys, ok \in BOOLEAN : Send(c, i, k, ok)
        PROVE  UNCHANGED <<rec, sent>>
    BY <2>9 DEF Answer, DropCall, Send
  <2>10. ASSUME NEW i \in Invocations, Begin(i) \/ DeadlinePasses(i) \/ Cancel(i)
         PROVE  UNCHANGED <<rec, sent>>
    BY <2>10 DEF Begin, DeadlinePasses, Cancel
  <2>11. CASE UNCHANGED receipts
    BY <2>3, <2>11 DEF receipts
  <2> HIDE DEF Final
  <2> QED
    BY <2>3, <2>4, <2>5, <2>6, <2>7, <2>8, <2>9, <2>10, <2>11 DEF Next, CallStep
<1> QED
  BY <1>1, ReceiptInvariant, PTL DEF Spec, OutcomeIsFinal
==============================================================================
