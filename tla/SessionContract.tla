-------------------------- MODULE SessionContract --------------------------
(***************************************************************************)
(* What one crawling session promises to the callers of /submit, without   *)
(* channels, goroutines or races:                                          *)
(*   - the id of the session is listed once and dropped at most once;      *)
(*   - the session publishes at most one outcome ("fail" or                *)
(*     "finish_fetch_data"), and that outcome is taken at most once;       *)
(*   - the id is dropped only when the outcome has been taken, or when the *)
(*     live time of the session is over.                                   *)
(* TaskSession implements this contract (TaskSession!Contract).            *)
(***************************************************************************)

VARIABLES listing,   \* "new", "listed" or "dropped": the id in the CommandCache
          outcome,   \* "none", "published" (waiting for a caller) or "taken"
          expired    \* the live time is over

contractVars == <<listing, outcome, expired>>

ContractTypeOK ==
    /\ listing \in {"new", "listed", "dropped"}
    /\ outcome \in {"none", "published", "taken"}
    /\ expired \in BOOLEAN

Init ==
    /\ listing = "new"
    /\ outcome = "none"
    /\ expired = FALSE

List ==
    /\ listing = "new"
    /\ listing' = "listed"
    /\ UNCHANGED <<outcome, expired>>

(* A session may finish before its creator has listed it.                  *)
Publish ==
    /\ outcome = "none"
    /\ outcome' = "published"
    /\ UNCHANGED <<listing, expired>>

Take ==
    /\ outcome = "published"
    /\ outcome' = "taken"
    /\ UNCHANGED <<listing, expired>>

Expire ==
    /\ listing # "new"
    /\ expired' = TRUE
    /\ UNCHANGED <<listing, outcome>>

Drop ==
    /\ listing = "listed"
    /\ outcome = "taken" \/ expired
    /\ listing' = "dropped"
    /\ UNCHANGED <<outcome, expired>>

Next == List \/ Publish \/ Take \/ Expire \/ Drop

Spec == Init /\ [][Next]_contractVars
=============================================================================
