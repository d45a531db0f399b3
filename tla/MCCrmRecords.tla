---------------------------- MODULE MCCrmRecords ----------------------------
(* CrmRecords on a small instance. *)
EXTENDS CrmRecords, TLC

CONSTANTS rep, boss, co, client, lead, contact, activity, enquiry, task, opportunity, campaign,
          step, followUp, useCase

MCKindOf ==
    rep :> "user" @@ boss :> "user" @@ co :> "company" @@ client :> "company"
    @@ contact :> "contact" @@ lead :> "lead" @@ activity :> "activity" @@ enquiry :> "activity"
    @@ task :> "task" @@ opportunity :> "opportunity" @@ campaign :> "campaign" @@ step :> "step"
    @@ followUp :> "followUp" @@ useCase :> "useCase"

\* A company with an opportunity; an activity and a task without a company; the
\* rest is for new rows, an assessment's among them.
MCInitial ==
    rep :> {} @@ boss :> {} @@ co :> {rep} @@ activity :> {rep} @@ followUp :> {activity, rep}
    @@ task :> {rep} @@ opportunity :> {co, rep} @@ useCase :> {opportunity}
    @@ campaign :> {rep} @@ step :> {campaign}

Symmetry == Permutations(Callers) \cup Permutations(Stages)
=============================================================================
