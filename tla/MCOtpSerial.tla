---------------------------- MODULE MCOtpSerial ----------------------------
(* Behaviours of OtpAuth in which calls overlap, beside those in which they *)
(* do not.                                                                  *)
EXTENDS OtpAuth

VARIABLE serial

AtMostOneBusy == Cardinality({h \in Handlers : handler[h].pc # "idle"}) <= 1

SerialOrNot ==
  /\ Init /\ serial \in BOOLEAN
  /\ [][Next /\ (serial => AtMostOneBusy') /\ UNCHANGED serial]_<<vars, serial>>
  /\ Fairness

\* While a code is in Redis it is compared at most MaxAttempts times, the limit
\* that the refusal states, if calls do not overlap and the DEL that starts the
\* count of this code was executed: whatever else fails or dies.
SerialGuessLimit == serial /\ "requestDel" \notin leaked => GuessLimit

-----------------------------------------------------------------------------
(* Strengthening *)

\* While a call has SET a new code and not yet DELeted the attempts of the last
\* one, nothing is compared; in every other state each comparison with the code in
\* Redis, made or paid for, is counted in the counter that is there, if that DEL
\* was executed.
CodeIsCounted ==
  IF \E h \in Handlers : handler[h].pc = "requestDel" THEN tries = 0
  ELSE codeKey.value # NoCode /\ "requestDel" \notin leaked =>
         /\ tries <= attemptsKey.count /\ tries <= MaxAttempts
         /\ Paying # {} => tries < attemptsKey.count /\ tries < MaxAttempts

SerialInv == serial => AtMostOneBusy /\ CodeIsCounted
=============================================================================
