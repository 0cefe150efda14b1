---------------------------- MODULE PluginReceipt ----------------------------
(***************************************************************************)
(* Effect receipts of Plugins: one external request per invocation and key. *)
(*                                                                          *)
(*   crates/workspace-server/src/plugin_receipt.rs      invocations and     *)
(*                                                      receipts in SQLite  *)
(*   crates/workspace-server/src/server_plugin_host.rs  the Send request    *)
(*   crates/workspace-server/src/plugin_https.rs        the transport       *)
(*                                                                          *)
(* A Send checks authority, admits the effect in a transaction, checks      *)
(* again, connects, checks once more, transmits and records the outcome in  *)
(* a second transaction.  Its future may be dropped, and the Backend may    *)
(* die, between any two of these.  Authority (grants, plan, and the lease   *)
(* of a Service) may be lost at any time: every step that asks for it takes *)
(* the answer as a parameter.  Clocks enter as the moment a deadline has    *)
(* passed.  A request that reuses a key with another fingerprint is refused *)
(* and changes nothing, so requests are identified with their keys.         *)
(***************************************************************************)
EXTENDS Naturals

CONSTANTS
    Invocations,    \* durable consumer identities: a Tool call or an event
    Keys,           \* effect keys
    Calls           \* Send requests being handled

VARIABLES
    inv,        \* plugin_invocations
    rec,        \* plugin_effect_receipts: state and what the outcome says
    calls,      \* the Send requests in progress
    sent        \* auxiliary: how often a request left for the peer

receipts == <<inv, rec, calls, sent>>

\* What a recorded or reported outcome says about the effect.
Outcome == {"response", "refused", "unknown"}

\* The first step in which a request may leave is Transmit.
Stage == {"idle", "admitting", "dispatching", "connecting", "sending", "sent",
          "completing", "publishing", "answered"}

NoCall == [pc |-> "idle"]
Call == {NoCall} \cup
    [pc : Stage \ {"idle"}, inv : Invocations, key : Keys, res : Outcome]

Goto(c, pc) == calls' = [calls EXCEPT ![c].pc = pc]
Result(c, pc, res) == calls' = [calls EXCEPT ![c].pc = pc, ![c].res = res]

NoInvocation == [begun |-> FALSE, due |-> FALSE, cancelled |-> FALSE, expired |-> FALSE]

Init ==
    /\ inv = [i \in Invocations |-> NoInvocation]
    /\ rec = [i \in Invocations |-> [k \in Keys |-> "none"]]
    /\ calls = [c \in Calls |-> NoCall]
    /\ sent = [i \in Invocations |-> [k \in Keys |-> 0]]

------------------------------------------------------------------------------
\* plugin_receipt.rs

\* begin; a replay returns the saved identity and keeps its deadline.
Begin(i) ==
    /\ ~inv[i].begun
    /\ inv' = [inv EXCEPT ![i].begun = TRUE]
    /\ UNCHANGED <<rec, calls, sent>>

\* expires_at_ms is reached.
DeadlinePasses(i) ==
    /\ inv[i].begun /\ ~inv[i].due
    /\ inv' = [inv EXCEPT ![i].due = TRUE]
    /\ UNCHANGED <<rec, calls, sent>>

\* cancel.
Cancel(i) ==
    /\ inv[i].begun /\ ~inv[i].cancelled
    /\ inv' = [inv EXCEPT ![i].cancelled = TRUE]
    /\ UNCHANGED <<rec, calls, sent>>

\* prune: payloads are erased, identities and keys stay.
Prune ==
    /\ \E i \in Invocations : inv[i].due /\ ~inv[i].expired
    /\ inv' = [i \in Invocations |-> [inv[i] EXCEPT !.expired = @ \/ inv[i].due]]
    /\ rec' = [i \in Invocations |-> [k \in Keys |->
                IF inv'[i].expired /\ rec[i][k] # "none" THEN "expired" ELSE rec[i][k]]]
    /\ UNCHANGED <<calls, sent>>

Lapsed(i) == inv[i].due \/ inv[i].expired

\* The state that server_plugin_host.rs's `invocation` accepts.
Usable(i) == inv[i].begun /\ ~inv[i].cancelled /\ ~Lapsed(i)

\* Mutant: an effect whose outcome is not known is tried once more.
EffectAdmitRetrying(c, ok) ==
    LET i == calls[c].inv
        k == calls[c].key
    IN  /\ calls[c].pc = "admitting"
        /\ ok /\ Usable(i)
        /\ rec[i][k] \in {"none", "pending", "unknown"}
        /\ rec' = [rec EXCEPT ![i][k] = "pending"]
        /\ Goto(c, "dispatching")
        /\ UNCHANGED <<inv, sent>>

\* effect_admit: only the insertion of a receipt permits a dispatch; any receipt
\* that exists answers for the effect.
EffectAdmit(c, ok) ==
    LET i == calls[c].inv
        k == calls[c].key
    IN  /\ calls[c].pc = "admitting"
        /\ \/ /\ ok /\ Usable(i) /\ rec[i][k] = "none"
              /\ rec' = [rec EXCEPT ![i][k] = "pending"]
              /\ Goto(c, "dispatching")
           \/ /\ ok /\ Usable(i) /\ rec[i][k] # "none"
              /\ Result(c, "publishing", IF rec[i][k] \in Outcome THEN rec[i][k] ELSE "unknown")
              /\ UNCHANGED rec
           \/ /\ ok => ~Usable(i)
              /\ Result(c, "answered", IF ok THEN "unknown" ELSE "refused")
              /\ UNCHANGED rec
        /\ UNCHANGED <<inv, sent>>

\* effect_complete: the first outcome stays, the same one again is harmless, and a
\* response that cannot be stored leaves the receipt as inserted.  Every error is
\* reported as an unknown outcome.
EffectComplete(c, ok) ==
    LET i == calls[c].inv
        k == calls[c].key
    IN  /\ calls[c].pc = "completing"
        /\ \/ /\ ok /\ ~inv[i].expired /\ rec[i][k] \in {"pending", calls[c].res}
              /\ rec' = [rec EXCEPT ![i][k] = calls[c].res]
              /\ Goto(c, "publishing")
           \/ /\ Result(c, "answered", "unknown")
              /\ UNCHANGED rec
        /\ UNCHANGED <<inv, sent>>

------------------------------------------------------------------------------
\* server_plugin_host.rs: execute_with_transport, PluginHostRequest::Send

Send(c, i, k, ok) ==
    /\ calls[c] = NoCall
    /\ ok /\ Usable(i)
    /\ calls' = [calls EXCEPT ![c] =
                    [pc |-> "admitting", inv |-> i, key |-> k, res |-> "unknown"]]
    /\ UNCHANGED <<inv, rec, sent>>

\* The check after admission.  When it fails, or the secret or the transport is
\* not available, the request ends here and the receipt stays as inserted.
Recheck(c, ok) ==
    /\ calls[c].pc = "dispatching"
    /\ \/ ok /\ Usable(calls[c].inv) /\ Goto(c, "connecting")
       \/ Result(c, "answered", IF ok /\ ~Usable(calls[c].inv) THEN "unknown" ELSE "refused")
    /\ UNCHANGED <<inv, rec, sent>>

\* execute_inner up to `guard`, which is the last check before the bytes leave.
Guard(c, ok) ==
    /\ calls[c].pc = "connecting"
    /\ \/ ok /\ Usable(calls[c].inv) /\ Goto(c, "sending")
       \/ Result(c, "completing", "refused")
    /\ UNCHANGED <<inv, rec, sent>>

Transmit(c) ==
    /\ calls[c].pc = "sending"
    /\ sent' = [sent EXCEPT ![calls[c].inv][calls[c].key] = @ + 1]
    /\ Goto(c, "sent")
    /\ UNCHANGED <<inv, rec>>

\* The peer answered (also with a response that is not accepted).
Respond(c) ==
    /\ calls[c].pc = "sent"
    /\ Result(c, "completing", "response")
    /\ UNCHANGED <<inv, rec, sent>>

\* Mutant: an aborted request counts as one that was not dispatched.
AbortRefused(c) ==
    /\ calls[c].pc \in {"connecting", "sending", "sent"}
    /\ Result(c, "completing", "refused")
    /\ UNCHANGED <<inv, rec, sent>>

\* A deadline, a broken connection or monitor_invocation ends the transport.
Abort(c) ==
    /\ calls[c].pc \in {"connecting", "sending", "sent"}
    /\ Result(c, "completing", "unknown")
    /\ UNCHANGED <<inv, rec, sent>>

\* The two checks before a result is published: a refused one withholds the
\* response and keeps what was observed of the effect.
Publish(c) ==
    /\ calls[c].pc = "publishing"
    /\ Goto(c, "answered")
    /\ UNCHANGED <<inv, rec, sent>>

\* The answer reaches the caller.
Answer(c) ==
    /\ calls[c].pc = "answered"
    /\ calls' = [calls EXCEPT ![c] = NoCall]
    /\ UNCHANGED <<inv, rec, sent>>

\* The future is dropped, the connection lost or the Backend dead.
DropCall(c) ==
    /\ calls[c] # NoCall
    /\ calls' = [calls EXCEPT ![c] = NoCall]
    /\ UNCHANGED <<inv, rec, sent>>

------------------------------------------------------------------------------

\* The steps of one request; ok is the answer of the authority it asks.
CallStep(c, ok) ==
    \/ EffectAdmit(c, ok)
    \/ Recheck(c, ok)
    \/ Guard(c, ok)
    \/ Transmit(c)
    \/ Respond(c)
    \/ Abort(c)
    \/ EffectComplete(c, ok)
    \/ Publish(c)

Next ==
    \/ \E i \in Invocations : Begin(i) \/ DeadlinePasses(i) \/ Cancel(i)
    \/ Prune
    \/ \E c \in Calls, ok \in BOOLEAN :
        \/ CallStep(c, ok)
        \/ \E i \in Invocations, k \in Keys : Send(c, i, k, ok)
    \/ \E c \in Calls : Answer(c) \/ DropCall(c)

Spec == Init /\ [][Next]_receipts

------------------------------------------------------------------------------

\* The state of receipts and requests.
TypeOK ==
    /\ inv \in [Invocations -> [begun : BOOLEAN, due : BOOLEAN,
                                cancelled : BOOLEAN, expired : BOOLEAN]]
    /\ rec \in [Invocations -> [Keys -> {"none", "pending", "expired"} \cup Outcome]]
    /\ calls \in [Calls -> Call]
    /\ sent \in [Invocations -> [Keys -> Nat]]

\* However often a request is repeated, dropped, aborted or cancelled, and
\* whatever the Backend forgets in between, the peer sees at most one request
\* for an effect key of an invocation (plugin_receipt.rs, effect_admit).
EffectOnce == \A i \in Invocations, k \in Keys : sent[i][k] <= 1

\* A receipt never says more than what happened: a key without a receipt and one
\* recorded as refused were not sent, a recorded or replayed response was
\* (effect_complete, sent_transport_error and SavedEffect::result).
ReceiptsAreTrue ==
    /\ \A i \in Invocations, k \in Keys :
        /\ rec[i][k] \in {"none", "refused"} => sent[i][k] = 0
        /\ rec[i][k] = "response" => sent[i][k] = 1
    /\ \A c \in Calls :
        calls[c].pc \in {"publishing", "answered"} /\ calls[c].res = "response"
            => sent[calls[c].inv][calls[c].key] = 1

\* A recorded outcome is the end of the effect: no request leaves after it, also
\* not from a call that was still in the transport when it was written, and it
\* changes only to be erased (the triggers of schema.sql, effect_complete).
OutcomeIsFinal ==
    [][\A i \in Invocations, k \in Keys : rec[i][k] \in Outcome
        => sent'[i][k] = sent[i][k] /\ rec'[i][k] \in {rec[i][k], "expired"}]_receipts
==============================================================================
