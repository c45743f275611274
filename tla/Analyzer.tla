------------------------------ MODULE Analyzer ------------------------------
(***************************************************************************)
(* What an application reads of a finished graph (includes/udho/           *)
(* activities.h): accessor, which looks into the collector, and analyzer,  *)
(* which calls the callback that fits what the collector holds.            *)
(***************************************************************************)
EXTENDS ActivitiesInv

Callbacks == {"incomplete", "canceled", "error", "failure", "success"}

-----------------------------------------------------------------------------
(* accessor: s is what the collector holds for the activity, or None *)

Exists(s) == s # None
IsCompleted(s) == Exists(s) /\ s.completed
IsCanceled(s) == Exists(s) /\ s.canceled

\* Both are true of an activity that was skipped.
IsFailed(s) == Exists(s) => Failed(s)
IsOkay(s) == Exists(s) => s.completed /\ ~Failed(s) /\ ~s.canceled

-----------------------------------------------------------------------------
(* analyzer: set are the callbacks it was given.  It calls at most one, and *)
(* returns a state, which is that of its last application when it says      *)
(* nothing.                                                                 *)

Says(set, callback) == [called |-> set \cap {callback}, state |-> callback]
SaysNothing(before) == [called |-> {}, state |-> before]

\* An error callback silences these for a canceled activity.
Unless(set, s, callback, before) ==
  IF "error" \in set /\ IsCanceled(s) THEN SaysNothing(before) ELSE Says(set, callback)

OnIncomplete(set, s, before) == Unless(set, s, "incomplete", before)
OnFailure(set, s, before) == Unless(set, s, "failure", before)
OnSuccess(set) == Says(set, "success")

OnCanceled(set, s) ==
  IF "canceled" \in set THEN Says(set, "canceled")
  ELSE IF ~IsFailed(s) THEN Says(set, "error")
  ELSE IF IsCompleted(s) THEN Says(set, "failure")
  ELSE Says(set, "incomplete")

\* Mutated: a failure is told as such even if it canceled the activity.
ApplyFailedFirst(set, s, before) ==
  IF ~Exists(s) THEN SaysNothing(before)
  ELSE IF ~s.completed THEN OnIncomplete(set, s, before)
  ELSE IF Failed(s) THEN OnFailure(set, s, before)
  ELSE IF s.canceled THEN OnCanceled(set, s)
  ELSE OnSuccess(set)

\* accessor::apply() and result_data::apply() of an analyzer.
Apply(set, s, before) ==
  IF ~Exists(s) THEN SaysNothing(before)
  ELSE IF ~s.completed THEN OnIncomplete(set, s, before)
  ELSE IF s.canceled THEN OnCanceled(set, s)
  ELSE IF Failed(s) THEN OnFailure(set, s, before)
  ELSE OnSuccess(set)

-----------------------------------------------------------------------------
\* The callback for what has become of an activity that ran to its end.
Fitting(n, set) ==
  IF emitted[n] = "signal" THEN IF data[n].success THEN "success" ELSE "failure"
  ELSE IF "canceled" \in set THEN "canceled"
  ELSE IF data[n].success THEN "error" ELSE "failure"

(***************************************************************************)
(* Whatever callbacks an analyzer is given, it tells of an activity that   *)
(* ran how it ended, and says nothing of one that did not.  That is what   *)
(* the code does and what its comment in operator() says (525: "ignoring   *)
(* what other callback is set"), where the documentation says otherwise:   *)
(*                                                                         *)
(*  - a canceled callback is called whether or not there is an error       *)
(*    callback (573-577: "if ... there is no error callback"), and then    *)
(*    neither the error callback (582-588) nor the failure callback        *)
(*    (593-599) is, although the conditions given there hold;              *)
(*  - of a skipped activity there is no data, so the incomplete callback   *)
(*    promised for it (562-568; 378-382: "invoked exactly once") is never  *)
(*    called, and apply() answers what it did the time before;             *)
(*  - the accessor does not tell a skipped activity from a failed one, nor *)
(*    from one that is okay (failed(), okay()).                            *)
(***************************************************************************)
AnalyzerTells ==
  \A n \in Node \ {Final}, set \in SUBSET Callbacks, before \in {"unknown", "success"} :
    LET ended == invoked[n] > 0 /\ emitted[n] # "nothing"
        says == Apply(set, store[n], before)
    IN /\ says = IF ended THEN Says(set, Fitting(n, set)) ELSE SaysNothing(before)
       /\ IsOkay(store[n]) /\ IsFailed(store[n]) <=> ~ended
       /\ ended => (IsOkay(store[n]) <=> emitted[n] = "signal" /\ data[n].success)
=============================================================================
