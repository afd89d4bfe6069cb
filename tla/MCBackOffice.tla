---------------------------- MODULE MCBackOffice ----------------------------
(***************************************************************************)
(* Model-checking instance of the parts of the rail beside the payments:   *)
(* the fee ledger, the emergency pause, reconciliation, the settlement     *)
(* export and the webhooks.  They share no state, so a behaviour of the    *)
(* instance is a behaviour of one of them while the others rest.           *)
(***************************************************************************)
EXTENDS FeeLedger, PauseService, Reconciliation, SettlementExport, Webhooks, TLC

VARIABLE part   \* the part that moves

vars == <<part, ledgerVars, pauseVars, reconVars, exportVars, webhookVars>>

CONSTANTS
    Parts,       \* the parts the run is about
    p1, p2, p3

MCFeeOf == p1 :> 1 @@ p2 :> 2 @@ p3 :> 0

\* A subscription asks for one of the two events, or for both.
MCEventSets == {{"e1"}, {"e1", "e2"}}

MCAsked == {<<"settlement">>, <<"settlement", "streaming">>}

Everything == [status |-> AnyStatus, from |-> 0, to |-> MaxStamp + 1]

MCQueries ==
    {Everything, [Everything EXCEPT !.status = "pending"],
     [status |-> "settled", from |-> 1, to |-> MaxStamp + 1]}

Init ==
    /\ part \in Parts
    /\ LedgerInit /\ PauseInit /\ ReconInit /\ ExportInit /\ WebhookInit
    /\ part # "export" => export.query = Everything

Rest(others) == UNCHANGED part /\ UNCHANGED others

Fees(A) ==
    part = "fees" /\ A /\ Rest(<<pauseVars, reconVars, exportVars, webhookVars>>)
Pause(A) ==
    part = "pause" /\ A /\ Rest(<<ledgerVars, reconVars, exportVars, webhookVars>>)
Recon(A) ==
    part = "reconciliation" /\ A /\ Rest(<<ledgerVars, pauseVars, exportVars, webhookVars>>)
Export(A) ==
    part = "export" /\ A /\ Rest(<<ledgerVars, pauseVars, reconVars, webhookVars>>)
Hooks(A) ==
    part = "webhooks" /\ A /\ Rest(<<ledgerVars, pauseVars, reconVars, exportVars>>)

Next ==
    \/ Fees(LedgerNext) \/ Pause(PauseNext) \/ Recon(ReconNext)
    \/ Export(ExportNext) \/ Hooks(WebhookNext)

\* PauseFairness, ReconFairness and WebhookFairness, of the part that moves.
Fairness ==
    /\ \A n \in Node : WF_vars(Pause(refresh(n))) /\ WF_vars(Pause(Applies(n)))
    /\ WF_vars(Recon(run)) /\ WF_vars(Recon(RunGoesOn))
    /\ WF_vars(Hooks(Poll)) /\ WF_vars(Hooks(Elapse))
    /\ \A d \in Delivery : WF_vars(Hooks(Answered(d)))

Spec == Init /\ [][Next]_vars /\ Fairness
=============================================================================
