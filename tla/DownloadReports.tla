--------------------------- MODULE DownloadReports ---------------------------
(***************************************************************************)
(* What a DownloadClient promises to its listener about one batch of URLs, *)
(* whatever the network, the timer and the cancelling thread do:           *)
(*                                                                         *)
(*   - the URLs are reported one by one, in the order of the batch, and    *)
(*     each is reported once, as downloaded or as failed;                  *)
(*   - the batch is finished only after its last URL was reported;         *)
(*   - once the batch is cancelled no new report is decided: at most the   *)
(*     one already decided is still delivered.                             *)
(*                                                                         *)
(* ImageManager relies on this: it ends a transfer when it is told about   *)
(* the URL with the last index.  Module DownloadClient implements it.      *)
(***************************************************************************)
EXTENDS Naturals, Sequences

CONSTANT Count  \* number of URLs in the batch, a natural number

VARIABLES
  outcomes,  \* outcomes[k]: whether the k-th report said "downloaded"
  pending,   \* a report is decided, and not yet delivered
  finished,  \* the batch is over
  canceled   \* the batch was cancelled

reportVars == <<outcomes, pending, finished, canceled>>

Init ==
  /\ outcomes = <<>>
  /\ pending = FALSE
  /\ finished = FALSE
  /\ canceled = FALSE

Decide ==
  /\ ~pending
  /\ ~canceled
  /\ Len(outcomes) < Count
  /\ pending' = TRUE
  /\ UNCHANGED <<outcomes, finished, canceled>>

Deliver ==
  /\ pending
  /\ pending' = FALSE
  /\ \E ok \in BOOLEAN : outcomes' = Append(outcomes, ok)
  /\ UNCHANGED <<finished, canceled>>

Finish ==
  /\ ~pending
  /\ ~finished
  /\ ~canceled
  /\ Len(outcomes) = Count
  /\ finished' = TRUE
  /\ UNCHANGED <<outcomes, pending, canceled>>

Cancel ==
  /\ ~canceled
  /\ canceled' = TRUE
  /\ UNCHANGED <<outcomes, pending, finished>>

Next == Decide \/ Deliver \/ Finish \/ Cancel

Spec == Init /\ [][Next]_reportVars

(* A batch that nobody cancels reports all its URLs and finishes. *)
Fairness ==
  /\ WF_reportVars(Decide)
  /\ WF_reportVars(Deliver)
  /\ WF_reportVars(Finish)
=============================================================================
