------------------------------- MODULE Browser -------------------------------
(***************************************************************************)
(* What the pages of the admin panel have in common: they call the API     *)
(* through apiFetch with the token of the moment, nothing cancels a call,  *)
(* and a page that is left forgets its answers.                            *)
(***************************************************************************)
EXTENDS Naturals, Sequences, FiniteSets, SequencesExt

CONSTANTS
  None,
  Calls,        \* BOUND: API calls of the browser in flight
  Mishaps       \* what a run lets go wrong

\* network: a call fails or its answer is lost; token: the cookie is gone;
\* elsewhere: other staff change the same data.
ASSUME BrowserAssumption ==
  /\ None \notin Calls
  /\ Mishaps \subseteq {"network", "token", "elsewhere"}

\* getAuthToken: the cookie is there, or it has expired or been dropped.
TokenHere == IF "token" \in Mishaps THEN BOOLEAN ELSE {TRUE}
=============================================================================
