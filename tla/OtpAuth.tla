------------------------------ MODULE OtpAuth ------------------------------
(***************************************************************************)
(* Login by one-time code: AuthService.requestOtp and verifyOtp for one    *)
(* mobile number.  The service keeps no state of its own: the code, the    *)
(* number of verify attempts and the number of requests in the window are  *)
(* three Redis keys named after the mobile, so numbers do not interact.    *)
(*                                                                         *)
(* Every Redis command is awaited on its own.  Requests for one number     *)
(* overlap (two tabs, an impatient user, a client's retry), so each        *)
(* command is a step.  Redis keys expire: a ttl counts Tick steps down,    *)
(* and a key with a count and ttl 0 never expires (INCR creates it so).    *)
(* An awaited command may reject, and the call is over with a 500.         *)
(***************************************************************************)
EXTENDS Naturals, FiniteSets

CONSTANTS
  Handlers,     \* requestOtp and verifyOtp calls in flight
  Codes,        \* values of a code
  NoCode,       \* no code key
  CodeTtl,      \* otp.ttlSeconds, in ticks
  WindowTtl,    \* REQUEST_WINDOW_SECONDS, in ticks
  MaxRequests,  \* REQUEST_MAX_PER_WINDOW
  MaxAttempts,  \* otp.maxAttempts
  Faults        \* what can go wrong in this run: "crash", "reject"

ASSUME OtpAssumption ==
  /\ IsFiniteSet(Handlers)
  /\ NoCode \notin Codes
  /\ CodeTtl \in Nat \ {0}
  /\ WindowTtl \in Nat \ {0}
  /\ MaxRequests \in Nat \ {0}
  /\ MaxAttempts \in Nat \ {0}
  /\ Faults \subseteq {"crash", "reject"}

VARIABLES
  codeKey,      \* otp:code: its value, and ttl
  attemptsKey,  \* otp:verify-attempts: its count, 0 when absent, and ttl
  requestKey,   \* otp:request-count: its count, 0 when absent, and ttl
  user,         \* the User row of this mobile
  handler,      \* where each call is and the code it read and was given
  readers,      \* history: calls that have read the code now issued
  tries,        \* history: comparisons with the code now issued
  resets,       \* history: attempt counts lost since the first of them
  logins,       \* history: tokens signed for the code now issued
  leaked        \* history: commands that a call owes the keys that are there and
                \* that it never got executed, being killed or answered with 500

vars == <<codeKey, attemptsKey, requestKey, user, handler, readers,
          tries, resets, logins, leaked>>
tally == <<tries, resets, logins>>

\* An absent counter.
NoCount == [count |-> 0, ttl |-> 0]
NoKey   == [value |-> NoCode, ttl |-> 0]
Idle    == [pc |-> "idle", stored |-> NoCode, given |-> NoCode]

\* The command a call sends next.
CallPc == {"idle", "requestExpire", "requestSet", "requestDel",
           "verifyIncr", "verifyExpire", "verifyLock", "verifyDel",
           "verifyUser", "verifySign"}
\* What a call that ends before it leaves undone for others to trip over: the
\* end of the window it opened, the count of the code it replaced.
Owed == {"requestExpire", "requestDel"}
CallState == [pc     : CallPc,
              stored : Codes \cup {NoCode},
              given  : Codes \cup {NoCode}]

TypeOK ==
  /\ codeKey \in [value : Codes \cup {NoCode}, ttl : 0 .. CodeTtl]
  /\ attemptsKey \in [count : 0 .. MaxAttempts + 1, ttl : 0 .. CodeTtl]
  /\ requestKey \in [count : 0 .. MaxRequests + 1, ttl : 0 .. WindowTtl]
  /\ user \in {"absent", "active", "inactive"}
  /\ handler \in [Handlers -> CallState]
  /\ readers \subseteq Handlers
  /\ tries \in Nat
  /\ resets \in Nat
  /\ logins \in Nat
  /\ leaked \subseteq Owed

Init ==
  /\ codeKey = NoKey
  /\ attemptsKey = NoCount
  /\ requestKey = NoCount
  /\ user = "absent"
  /\ handler = [h \in Handlers |-> Idle]
  /\ readers = {}
  /\ tries = 0
  /\ resets = 0
  /\ logins = 0
  /\ leaked = {}

-----------------------------------------------------------------------------
(* Redis *)

\* INCR: a new key has no expiry.  BOUND: counts stop at max + 1, where the
\* code no longer tells them apart.
Incr(key, max) ==
  [key EXCEPT !.count = IF key.count <= max THEN key.count + 1 ELSE key.count]

\* EXPIRE: no effect on a key that is gone.
Expire(key, ttl) == IF key.count = 0 THEN key ELSE [key EXCEPT !.ttl = ttl]

\* One tick of a counter's expiry.
Elapse(key) ==
  IF key.ttl = 0 THEN key
  ELSE IF key.ttl = 1 THEN NoCount ELSE [key EXCEPT !.ttl = @ - 1]

\* History: the counter that paid for comparisons with the current code, made
\* or about to be made, is gone.
Charged ==
  \/ tries > 0
  \/ \E h \in Handlers : handler[h].pc = "verifyExpire" /\ h \in readers
ForgetAttempts ==
  resets' = IF Charged /\ attemptsKey.count > 0 THEN resets + 1 ELSE resets

\* A call goes on to its next command, or it answers.
GoTo(h, pc) == handler' = [handler EXCEPT ![h].pc = pc] /\ readers' = readers
Done(h) == handler' = [handler EXCEPT ![h] = Idle] /\ readers' = readers \ {h}

-----------------------------------------------------------------------------
(* requestOtp *)

\* Mutant: the window is opened by the second request instead of the first.
RequestIncrLate(h) ==
  LET k == Incr(requestKey, MaxRequests) IN
  /\ handler[h].pc = "idle"
  /\ requestKey' = k
  /\ IF k.count = 2 THEN GoTo(h, "requestExpire")
     ELSE IF k.count > MaxRequests THEN Done(h) ELSE GoTo(h, "requestSet")
  /\ UNCHANGED <<codeKey, attemptsKey, user, tally, leaked>>

\* INCR and what its answer decides: open the window, refuse with 429, go on.
RequestIncr(h) ==
  LET k == Incr(requestKey, MaxRequests) IN
  /\ handler[h].pc = "idle"
  /\ requestKey' = k
  /\ IF k.count = 1 THEN GoTo(h, "requestExpire")
     ELSE IF k.count > MaxRequests THEN Done(h) ELSE GoTo(h, "requestSet")
  /\ UNCHANGED <<codeKey, attemptsKey, user, tally, leaked>>

\* Mutant: the expiry is set on the other counter.
RequestExpireWrongKey(h) ==
  /\ handler[h].pc = "requestExpire"
  /\ attemptsKey' = Expire(attemptsKey, CodeTtl)
  /\ GoTo(h, "requestSet")
  /\ UNCHANGED <<codeKey, requestKey, user, tally, leaked>>

RequestExpire(h) ==
  /\ handler[h].pc = "requestExpire"
  /\ requestKey' = Expire(requestKey, WindowTtl)
  /\ GoTo(h, "requestSet")
  /\ leaked' = leaked \ {"requestExpire"}
  /\ UNCHANGED <<codeKey, attemptsKey, user, tally>>

\* Mutant: a new code is issued and the attempts of the last one are kept.
RequestSetKeepsAttempts(h, c) ==
  /\ handler[h].pc = "requestSet"
  /\ codeKey' = [value |-> c, ttl |-> CodeTtl]
  /\ handler' = [handler EXCEPT ![h] = Idle]
  /\ readers' = {}
  /\ tries' = 0 /\ resets' = 0 /\ logins' = 0
  /\ leaked' = leaked \ {"requestDel"}
  /\ UNCHANGED <<attemptsKey, requestKey, user>>

\* SET code EX ttl: from here on comparisons with older codes do not count, and
\* it is this call that owes the DEL.
RequestSet(h, c) ==
  /\ handler[h].pc = "requestSet"
  /\ codeKey' = [value |-> c, ttl |-> CodeTtl]
  /\ handler' = [handler EXCEPT ![h].pc = "requestDel"]
  /\ readers' = {}
  /\ tries' = 0 /\ resets' = 0 /\ logins' = 0
  /\ leaked' = leaked \ {"requestDel"}
  /\ UNCHANGED <<attemptsKey, requestKey, user>>

\* DEL attempts.  The SMS that follows changes nothing that is kept here, sent or
\* not.
RequestDel(h) ==
  /\ handler[h].pc = "requestDel"
  /\ attemptsKey' = NoCount
  /\ ForgetAttempts
  /\ Done(h)
  /\ leaked' = leaked \ {"requestDel"}
  /\ UNCHANGED <<codeKey, requestKey, user, tries, logins>>

-----------------------------------------------------------------------------
(* verifyOtp *)

\* GET: a missing code is a 400 that changes nothing.
VerifyGet(h, c) ==
  /\ handler[h].pc = "idle"
  /\ codeKey.value # NoCode
  /\ handler' = [handler EXCEPT ![h] =
       [pc |-> "verifyIncr", stored |-> codeKey.value, given |-> c]]
  /\ readers' = readers \cup {h}
  /\ UNCHANGED <<codeKey, attemptsKey, requestKey, user, tally, leaked>>

\* isCodeMatch: 401, or on to the cleanup.
Compare(h) ==
  /\ IF handler[h].given = handler[h].stored THEN GoTo(h, "verifyDel") ELSE Done(h)
  /\ tries' = IF h \in readers THEN tries + 1 ELSE tries

\* Mutant: one attempt too many is compared.
VerifyIncrOffByOne(h) ==
  LET k == Incr(attemptsKey, MaxAttempts) IN
  /\ handler[h].pc = "verifyIncr"
  /\ attemptsKey' = k
  /\ IF k.count = 1
     THEN GoTo(h, "verifyExpire") /\ UNCHANGED tries
     ELSE IF attemptsKey.count > MaxAttempts
          THEN GoTo(h, "verifyLock") /\ UNCHANGED tries
          ELSE Compare(h)
  /\ UNCHANGED <<codeKey, requestKey, user, resets, logins, leaked>>

\* INCR and what its answer decides: start the counter's expiry, refuse for
\* good, or compare the codes.
VerifyIncr(h) ==
  LET k == Incr(attemptsKey, MaxAttempts) IN
  /\ handler[h].pc = "verifyIncr"
  /\ attemptsKey' = k
  /\ IF k.count = 1
     THEN GoTo(h, "verifyExpire") /\ UNCHANGED tries
     ELSE IF k.count > MaxAttempts
          THEN GoTo(h, "verifyLock") /\ UNCHANGED tries
          ELSE Compare(h)
  /\ UNCHANGED <<codeKey, requestKey, user, resets, logins, leaked>>

\* Mutant: the counter gets the expiry of the request window.
VerifyExpireWindow(h) ==
  /\ handler[h].pc = "verifyExpire"
  /\ attemptsKey' = Expire(attemptsKey, WindowTtl)
  /\ Compare(h)
  /\ UNCHANGED <<codeKey, requestKey, user, resets, logins, leaked>>

VerifyExpire(h) ==
  /\ handler[h].pc = "verifyExpire"
  /\ attemptsKey' = Expire(attemptsKey, CodeTtl)
  /\ Compare(h)
  /\ UNCHANGED <<codeKey, requestKey, user, resets, logins, leaked>>

\* Too many attempts: DEL code, 429.
VerifyLock(h) ==
  /\ handler[h].pc = "verifyLock"
  /\ codeKey' = NoKey
  /\ Done(h)
  /\ UNCHANGED <<attemptsKey, requestKey, user, tally, leaked>>

\* Mutant: success clears the counters and leaves the code.
VerifyDelKeepsCode(h) ==
  /\ handler[h].pc = "verifyDel"
  /\ attemptsKey' = NoCount
  /\ requestKey' = NoCount
  /\ ForgetAttempts
  /\ GoTo(h, "verifyUser")
  /\ leaked' = {}
  /\ UNCHANGED <<codeKey, user, tries, logins>>

\* The codes match: one DEL of all three keys, whatever they hold by now.
VerifyDel(h) ==
  /\ handler[h].pc = "verifyDel"
  /\ codeKey' = NoKey
  /\ attemptsKey' = NoCount
  /\ requestKey' = NoCount
  /\ ForgetAttempts
  /\ GoTo(h, "verifyUser")
  /\ leaked' = {}
  /\ UNCHANGED <<user, tries, logins>>

\* findOrCreateByMobile; an inactive user gets a 403.
VerifyUser(h) ==
  /\ handler[h].pc = "verifyUser"
  /\ user' = IF user = "absent" THEN "active" ELSE user
  /\ IF user = "inactive" THEN Done(h) ELSE GoTo(h, "verifySign")
  /\ UNCHANGED <<codeKey, attemptsKey, requestKey, tally, leaked>>

VerifySign(h) ==
  /\ handler[h].pc = "verifySign"
  /\ logins' = IF h \in readers THEN logins + 1 ELSE logins
  /\ Done(h)
  /\ UNCHANGED <<codeKey, attemptsKey, requestKey, user, tries, resets, leaked>>

-----------------------------------------------------------------------------
(* Around the two calls *)

\* An admin switches the account on or off.
SetActive ==
  /\ user # "absent"
  /\ user' = IF user = "active" THEN "inactive" ELSE "active"
  /\ UNCHANGED <<codeKey, attemptsKey, requestKey, handler, readers, tally, leaked>>

\* Time passes in Redis.
Tick ==
  /\ codeKey.ttl + attemptsKey.ttl + requestKey.ttl > 0
  /\ codeKey' = IF codeKey.ttl <= 1 THEN NoKey ELSE [codeKey EXCEPT !.ttl = @ - 1]
  /\ attemptsKey' = Elapse(attemptsKey)
  /\ requestKey' = Elapse(requestKey)
  /\ resets' = IF attemptsKey.ttl = 1 /\ Charged THEN resets + 1 ELSE resets
  /\ leaked' = IF requestKey'.count = 0 THEN leaked \ {"requestExpire"} ELSE leaked
  /\ UNCHANGED <<user, handler, readers, tries, logins>>

\* The awaited command rejects (ioredis gives up after maxRetriesPerRequest, or
\* the database or the signing fails) and the call answers 500.  It was not
\* executed.  When it was and only its reply was lost, the keys are those of the
\* command's own step followed by this one.  GET changes nothing when it rejects;
\* an INCR of requestOtp that ioredis sends again after a lost reply is such a
\* lost call followed by RequestIncr.
CommandFails(h) ==
  /\ "reject" \in Faults
  /\ handler[h].pc # "idle"
  /\ Done(h)
  /\ leaked' = leaked \cup ({handler[h].pc} \cap Owed)
  /\ UNCHANGED <<codeKey, attemptsKey, requestKey, user, tally>>

\* The two commands whose answer decides about a comparison are executed and the
\* reply is lost.  INCR: the call still waits and sends it again, to an answer that
\* need not be 1 any more, or rejects.  EXPIRE: sent again it sets the same expiry,
\* so only its rejection is another step.
ReplyLost(h) ==
  /\ "reject" \in Faults
  /\ \/ /\ handler[h].pc = "verifyIncr"
        /\ attemptsKey' = Incr(attemptsKey, MaxAttempts)
        /\ UNCHANGED <<handler, readers>>
     \/ /\ handler[h].pc = "verifyExpire"
        /\ attemptsKey' = Expire(attemptsKey, CodeTtl)
        /\ Done(h)
  /\ UNCHANGED <<codeKey, requestKey, user, tally, leaked>>

\* The process dies with every call in flight; Redis and the user row survive.
Crash ==
  /\ "crash" \in Faults
  /\ handler' = [h \in Handlers |-> Idle]
  /\ readers' = {}
  /\ leaked' = leaked \cup ({handler[h].pc : h \in Handlers} \cap Owed)
  /\ UNCHANGED <<codeKey, attemptsKey, requestKey, user, tally>>

-----------------------------------------------------------------------------
RequestOtp(h) ==
  \/ RequestExpire(h)
  \/ \E c \in Codes : RequestSet(h, c)
  \/ RequestDel(h)

VerifyOtp(h) ==
  \/ VerifyIncr(h)
  \/ VerifyExpire(h)
  \/ VerifyLock(h)
  \/ VerifyDel(h)
  \/ VerifyUser(h)
  \/ VerifySign(h)

Next ==
  \/ \E h \in Handlers : RequestIncr(h)
  \/ \E h \in Handlers : RequestOtp(h)
  \/ \E h \in Handlers, c \in Codes : VerifyGet(h, c)
  \/ \E h \in Handlers : VerifyOtp(h)
  \/ \E h \in Handlers : CommandFails(h) \/ ReplyLost(h)
  \/ SetActive
  \/ Tick
  \/ Crash

Spec == Init /\ [][Next]_vars

\* A call that was accepted goes on or fails, and time passes.
Fairness ==
  /\ \A h \in Handlers : WF_vars(RequestOtp(h) \/ VerifyOtp(h))
  /\ WF_vars(Tick)

FairSpec == Spec /\ Fairness

-----------------------------------------------------------------------------
(* Properties *)

\* A request counter without an expiry, which would refuse its number for good,
\* has a call on its way to EXPIRE it, or the call that owed it the EXPIRE died or
\* was rejected, and nobody has executed one since: no order of overlapping calls,
\* expiries and successful logins makes one.
WindowHasEnd ==
  requestKey.count > 0 /\ requestKey.ttl = 0 =>
    \/ \E h \in Handlers : handler[h].pc = "requestExpire"
    \/ "requestExpire" \in leaked

\* The attempt counter never expires before the code it protects, except while
\* a new code has been SET and the counter of the last one is not yet DELeted, or
\* that DEL died or was rejected and no later one has been executed.
CounterOutlivesCode ==
  codeKey.value # NoCode /\ attemptsKey.count > 0 /\ attemptsKey.ttl > 0 =>
    \/ attemptsKey.ttl >= codeKey.ttl
    \/ \E h \in Handlers : handler[h].pc = "requestDel"
    \/ "requestDel" \in leaked

\* What makes CounterOutlivesCode inductive: INCR creates a counter without an
\* expiry, so an absent counter must not carry one.
AbsentHasNoExpiry == attemptsKey.count = 0 => attemptsKey.ttl = 0
CounterInv == CounterOutlivesCode /\ AbsentHasNoExpiry

\* A code is compared at most MaxAttempts times for each time its counter is
\* forgotten: overlapping requests are the only way to more than MaxAttempts.
TriesBounded == tries <= MaxAttempts * (1 + resets)

\* The limit the refusal message states, when calls do not overlap: while the
\* code is in Redis.  A call that read it just before it and its counter expired
\* still compares once, on a counter of its own.
GuessLimit == codeKey.value # NoCode => tries <= MaxAttempts

\* One code signs at most one token per call that overlaps its use: once the
\* first success has deleted it, nobody who reads later can use it.
CodeUseBounded == logins <= Cardinality(Handlers)

\* "Try again a little later": a number that is refused is served again.
LockoutEnds ==
  requestKey.count > MaxRequests ~> requestKey.count <= MaxRequests

\* The same, as far as the code keeps it: whatever calls overlap, fail or die, a
\* refusal ends, unless the one EXPIRE that ends the window was itself missed.
LockoutEndsOrLeaks ==
  requestKey.count > MaxRequests ~>
    requestKey.count <= MaxRequests \/ "requestExpire" \in leaked

-----------------------------------------------------------------------------
(* Strengthening: what makes the last two invariants inductive *)

\* Calls whose INCR has paid for a comparison with the current code.
Paying == {h \in Handlers : handler[h].pc = "verifyExpire" /\ h \in readers}

\* Every comparison, made or paid for, is counted in the counter that is there
\* or in one that was forgotten.
TriesInv ==
  tries + Cardinality(Paying) <=
    MaxAttempts * resets
      + (IF attemptsKey.count < MaxAttempts THEN attemptsKey.count ELSE MaxAttempts)

\* As soon as one call has used the code, it is gone, so no call joins those
\* that have read it.
UseInv ==
  /\ logins + Cardinality(readers) <= Cardinality(Handlers)
  /\ \/ logins > 0
     \/ \E h \in readers : handler[h].pc \in {"verifyUser", "verifySign"}
     => codeKey.value = NoCode
  /\ \A h \in readers : handler[h].pc # "idle"
=============================================================================
