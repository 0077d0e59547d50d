------------------------- MODULE MCPolicyEvaluation -------------------------
(* A small instance of PolicyEvaluation for TLC.                            *)
EXTENDS PolicyEvaluation

MCNoJitter == [r \in Revisions |-> 0]

MCInterval(missed) == [mode |-> "interval", missed |-> missed]
MCCalendar(missed) == [mode |-> "calendar", missed |-> missed]

\* One schedule per mode and per missed-run policy.
MCAll == {MCInterval("coalesce"), MCInterval("skip"), MCCalendar("catch_up_one")}
=============================================================================
