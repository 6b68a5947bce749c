----------------------------- MODULE MCIdealoz -----------------------------
(* Instances of Idealoz for TLC. *)
EXTENDS Idealoz

\* One notification of each kind that idealoz treats differently.
SomeNotices == {"NodeEvent", "NodeQueriesComplete", "Sleep"}
=============================================================================
