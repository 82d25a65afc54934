--------------------------- MODULE OtpAuth_proofs ---------------------------
(***************************************************************************)
(* Theorems about OtpAuth for every number of overlapping calls, every     *)
(* limit and every expiry: type correctness, the two invariants about the  *)
(* expiry of the counters, and how often one code is compared and used,    *)
(* each inductive together with TypeOK, whatever commands reject and       *)
(* whenever the process dies.  The last part is about calls that do not    *)
(* overlap.                                                                *)
(***************************************************************************)
EXTENDS MCOtpSerial, FiniteSetTheorems, TLAPS

-----------------------------------------------------------------------------
(* What the Redis operators return *)

\* INCR keeps a counter within its bound, keeps its expiry and leaves it present.
LEMMA IncrLemma ==
  ASSUME NEW max \in Nat, NEW T \in Nat,
         NEW key \in [count : 0 .. max + 1, ttl : 0 .. T]
  PROVE  /\ Incr(key, max) \in [count : 0 .. max + 1, ttl : 0 .. T]
         /\ Incr(key, max).ttl = key.ttl
         /\ Incr(key, max).count > 0
         /\ Incr(key, max).count \in Nat /\ Incr(key, max).count >= key.count
         /\ Incr(key, max).count = 1 <=> key.count = 0 \/ max = 0
  BY DEF Incr

\* EXPIRE gives a counter that is there the expiry, and never creates one.
LEMMA ExpireLemma ==
  ASSUME NEW max \in Nat, NEW T \in Nat, NEW t \in 0 .. T,
         NEW key \in [count : 0 .. max + 1, ttl : 0 .. T]
  PROVE  /\ Expire(key, t) \in [count : 0 .. max + 1, ttl : 0 .. T]
         /\ Expire(key, t).count = key.count /\ key.count \in Nat
         /\ key.count > 0 => Expire(key, t).ttl = t
  BY DEF Expire

\* A tick takes one from the expiry or removes the counter; a counter without
\* expiry is left alone.
LEMMA ElapseLemma ==
  ASSUME NEW max \in Nat, NEW T \in Nat,
         NEW key \in [count : 0 .. max + 1, ttl : 0 .. T]
  PROVE  /\ Elapse(key) \in [count : 0 .. max + 1, ttl : 0 .. T]
         /\ key.ttl = 0 => Elapse(key) = key
         /\ key.ttl = 1 => Elapse(key) = NoCount
         /\ key.ttl > 1 => Elapse(key).ttl = key.ttl - 1
  BY DEF Elapse, NoCount

\* A command whose reply is lost takes nothing from the attempt counter.
LEMMA LostCount ==
  ASSUME TypeOK, NEW h \in Handlers, ReplyLost(h)
  PROVE  attemptsKey'.count \in Nat /\ attemptsKey'.count >= attemptsKey.count
<1>1. attemptsKey \in [count : 0 .. MaxAttempts + 1, ttl : 0 .. CodeTtl]
  BY DEF TypeOK
<1>2. CASE attemptsKey' = Incr(attemptsKey, MaxAttempts)
  BY <1>1, <1>2, IncrLemma, OtpAssumption
<1>3. CASE attemptsKey' = Expire(attemptsKey, CodeTtl)
  <2>1. attemptsKey'.count = attemptsKey.count /\ attemptsKey.count \in Nat
    BY <1>1, <1>3, ExpireLemma, OtpAssumption
  <2> QED BY <2>1
<1> QED BY <1>2, <1>3 DEF ReplyLost

-----------------------------------------------------------------------------
(* Type correctness *)

\* The two assignments every handler step ends with keep the handlers typed.
LEMMA HandlerLemma ==
  ASSUME TypeOK, NEW h \in Handlers,
         NEW p \in CallPc,
         GoTo(h, p) \/ Done(h)
  PROVE  /\ handler' \in [Handlers -> CallState]
         /\ readers' \subseteq Handlers
  BY DEF TypeOK, GoTo, Done, Idle, CallState, CallPc

\* Every variable keeps its type: in particular the counters stay within their
\* limits and the keys within their expiries.
THEOREM TypeCorrect == Spec => []TypeOK
<1>1. Init => TypeOK
  BY OtpAssumption DEF Init, TypeOK, NoKey, NoCount, Idle, CallState, CallPc
<1>2. TypeOK /\ [Next]_vars => TypeOK'
  <2> SUFFICES ASSUME TypeOK, [Next]_vars PROVE TypeOK'
    OBVIOUS
  <2> USE OtpAssumption DEF CallState, CallPc, Owed
  <2>1. ASSUME NEW h \in Handlers, RequestIncr(h) PROVE TypeOK'
    <3>1. requestKey' \in [count : 0 .. MaxRequests + 1, ttl : 0 .. WindowTtl]
      BY <2>1, IncrLemma DEF RequestIncr, TypeOK
    <3>2. PICK p \in {"idle", "requestExpire", "requestSet"} : GoTo(h, p) \/ Done(h)
      BY <2>1 DEF RequestIncr
    <3> QED BY <2>1, <3>1, <3>2, HandlerLemma DEF RequestIncr, TypeOK, tally
  <2>2. ASSUME NEW h \in Handlers, RequestExpire(h) PROVE TypeOK'
    <3>1. requestKey' \in [count : 0 .. MaxRequests + 1, ttl : 0 .. WindowTtl]
      BY <2>2, ExpireLemma DEF RequestExpire, TypeOK
    <3> QED BY <2>2, <3>1, HandlerLemma DEF RequestExpire, TypeOK, tally
  <2>3. ASSUME NEW h \in Handlers, NEW c \in Codes, RequestSet(h, c) PROVE TypeOK'
    BY <2>3 DEF RequestSet, TypeOK
  <2>4. ASSUME NEW h \in Handlers, RequestDel(h) PROVE TypeOK'
    BY <2>4, HandlerLemma DEF RequestDel, TypeOK, ForgetAttempts, NoCount
  <2>5. ASSUME NEW h \in Handlers, NEW c \in Codes, VerifyGet(h, c) PROVE TypeOK'
    BY <2>5 DEF VerifyGet, TypeOK, tally
  <2>6. ASSUME NEW h \in Handlers, VerifyIncr(h) PROVE TypeOK'
    <3>1. attemptsKey' \in [count : 0 .. MaxAttempts + 1, ttl : 0 .. CodeTtl]
      BY <2>6, IncrLemma DEF VerifyIncr, TypeOK
    <3>2. /\ tries' \in Nat
          /\ \E p \in {"idle", "verifyExpire", "verifyLock", "verifyDel"} :
               GoTo(h, p) \/ Done(h)
      BY <2>6 DEF VerifyIncr, Compare, TypeOK
    <3> QED BY <2>6, <3>1, <3>2, HandlerLemma DEF VerifyIncr, TypeOK
  <2>7. ASSUME NEW h \in Handlers, VerifyExpire(h) PROVE TypeOK'
    <3>1. attemptsKey' \in [count : 0 .. MaxAttempts + 1, ttl : 0 .. CodeTtl]
      BY <2>7, ExpireLemma DEF VerifyExpire, TypeOK
    <3>2. tries' \in Nat /\ (GoTo(h, "verifyDel") \/ Done(h))
      BY <2>7 DEF VerifyExpire, Compare, TypeOK
    <3> QED BY <2>7, <3>1, <3>2, HandlerLemma DEF VerifyExpire, TypeOK
  <2>8. ASSUME NEW h \in Handlers, VerifyLock(h) PROVE TypeOK'
    BY <2>8, HandlerLemma DEF VerifyLock, TypeOK, tally, NoKey
  <2>9. ASSUME NEW h \in Handlers, VerifyDel(h) PROVE TypeOK'
    BY <2>9, HandlerLemma DEF VerifyDel, TypeOK, ForgetAttempts, NoKey, NoCount
  <2>10. ASSUME NEW h \in Handlers, VerifyUser(h) PROVE TypeOK'
    BY <2>10, HandlerLemma DEF VerifyUser, TypeOK, tally
  <2>11. ASSUME NEW h \in Handlers, VerifySign(h) PROVE TypeOK'
    BY <2>11, HandlerLemma DEF VerifySign, TypeOK
  <2>12. CASE SetActive
    BY <2>12 DEF SetActive, TypeOK, tally
  <2>13. CASE Tick
    <3>1. attemptsKey' \in [count : 0 .. MaxAttempts + 1, ttl : 0 .. CodeTtl]
      BY <2>13, ElapseLemma DEF Tick, TypeOK
    <3>2. requestKey' \in [count : 0 .. MaxRequests + 1, ttl : 0 .. WindowTtl]
      BY <2>13, ElapseLemma DEF Tick, TypeOK
    <3>3. codeKey' \in [value : Codes \cup {NoCode}, ttl : 0 .. CodeTtl]
      BY <2>13 DEF Tick, TypeOK, NoKey
    <3> QED BY <2>13, <3>1, <3>2, <3>3 DEF Tick, TypeOK
  <2>14. CASE Crash
    BY <2>14 DEF Crash, TypeOK, tally, Idle
  <2>15. CASE UNCHANGED vars
    BY <2>15 DEF vars, TypeOK
  <2>16. ASSUME NEW h \in Handlers, CommandFails(h) PROVE TypeOK'
    BY <2>16, HandlerLemma DEF CommandFails, TypeOK, tally
  <2>17. ASSUME NEW h \in Handlers, ReplyLost(h) PROVE TypeOK'
    <3>1. attemptsKey' \in [count : 0 .. MaxAttempts + 1, ttl : 0 .. CodeTtl]
      BY <2>17, IncrLemma, ExpireLemma DEF ReplyLost, TypeOK
    <3>2. handler' \in [Handlers -> CallState] /\ readers' \subseteq Handlers
      BY <2>17, HandlerLemma DEF ReplyLost, TypeOK
    <3> QED BY <2>17, <3>1, <3>2 DEF ReplyLost, TypeOK, tally
  <2> QED
    BY <2>1, <2>2, <2>3, <2>4, <2>5, <2>6, <2>7, <2>8, <2>9, <2>10, <2>11,
       <2>12, <2>13, <2>14, <2>15, <2>16, <2>17 DEF Next, RequestOtp, VerifyOtp
<1> QED
  BY <1>1, <1>2, PTL DEF Spec

-----------------------------------------------------------------------------
(* A request counter without expiry *)

\* A request counter without expiry has a call on its way to set one, or that call
\* died or was rejected and no EXPIRE has been executed since: nothing else in the
\* code, overlapping calls and logins that delete the counter included, makes one.
THEOREM WindowCloses == Spec => []WindowHasEnd
<1>1. Init => WindowHasEnd
  BY DEF Init, WindowHasEnd, NoCount
<1>2. TypeOK /\ WindowHasEnd /\ [Next]_vars => WindowHasEnd'
  <2> SUFFICES ASSUME TypeOK, WindowHasEnd, [Next]_vars PROVE WindowHasEnd'
    OBVIOUS
  <2> USE OtpAssumption DEF TypeOK, WindowHasEnd, CallState, GoTo, Done, Owed
  <2>1. ASSUME NEW h \in Handlers, RequestIncr(h) PROVE WindowHasEnd'
    <3>1. /\ requestKey'.ttl = requestKey.ttl
          /\ requestKey'.count = 1 <=> requestKey.count = 0
          /\ requestKey'.count > 0
          /\ requestKey'.count \in Nat
      BY <2>1, IncrLemma DEF RequestIncr
    <3>2. CASE requestKey.count = 0
      <4>1. handler'[h].pc = "requestExpire"
        BY <2>1, <3>1, <3>2 DEF RequestIncr
      <4> QED BY <4>1
    <3>3. CASE requestKey.count # 0
      <4>1. \A g \in Handlers : handler[g].pc = "requestExpire" =>
                                   handler'[g].pc = "requestExpire"
        BY <2>1 DEF RequestIncr
      <4>2. leaked' = leaked
        BY <2>1 DEF RequestIncr
      <4> QED BY <3>1, <3>3, <4>1, <4>2
    <3> QED BY <3>2, <3>3
  <2>2. ASSUME NEW h \in Handlers, RequestExpire(h) PROVE WindowHasEnd'
    <3>1. requestKey' = Expire(requestKey, WindowTtl)
      BY <2>2 DEF RequestExpire
    <3>2. requestKey'.count > 0 => requestKey'.ttl = WindowTtl
      BY <3>1, ExpireLemma
    <3> QED BY <3>2
  <2>3. ASSUME NEW h \in Handlers, NEW c \in Codes, RequestSet(h, c)
        PROVE  WindowHasEnd'
    BY <2>3 DEF RequestSet
  <2>4. ASSUME NEW h \in Handlers, RequestDel(h) PROVE WindowHasEnd'
    BY <2>4 DEF RequestDel
  <2>5. ASSUME NEW h \in Handlers, NEW c \in Codes, VerifyGet(h, c)
        PROVE  WindowHasEnd'
    BY <2>5 DEF VerifyGet
  <2>6. ASSUME NEW h \in Handlers, VerifyIncr(h) PROVE WindowHasEnd'
    BY <2>6 DEF VerifyIncr, Compare
  <2>7. ASSUME NEW h \in Handlers, VerifyExpire(h) PROVE WindowHasEnd'
    BY <2>7 DEF VerifyExpire, Compare
  <2>8. ASSUME NEW h \in Handlers, VerifyLock(h) PROVE WindowHasEnd'
    BY <2>8 DEF VerifyLock
  <2>9. ASSUME NEW h \in Handlers, VerifyDel(h) PROVE WindowHasEnd'
    BY <2>9 DEF VerifyDel, NoCount
  <2>10. ASSUME NEW h \in Handlers, VerifyUser(h) PROVE WindowHasEnd'
    BY <2>10 DEF VerifyUser
  <2>11. ASSUME NEW h \in Handlers, VerifySign(h) PROVE WindowHasEnd'
    BY <2>11 DEF VerifySign
  <2>12. CASE SetActive
    BY <2>12 DEF SetActive
  <2>13. CASE Tick
    <3>1. requestKey'.count > 0 /\ requestKey'.ttl = 0 => requestKey' = requestKey
      BY <2>13, ElapseLemma DEF Tick, NoCount
    <3>2. requestKey'.count > 0 => leaked' = leaked
      BY <2>13 DEF Tick
    <3> QED BY <2>13, <3>1, <3>2 DEF Tick
  <2>14. CASE Crash
    <3>1. requestKey' = requestKey /\ leaked \subseteq leaked'
      BY <2>14 DEF Crash
    <3>2. ASSUME NEW h \in Handlers, handler[h].pc = "requestExpire"
          PROVE  "requestExpire" \in leaked'
      BY <2>14, <3>2 DEF Crash
    <3> QED BY <3>1, <3>2
  <2>15. CASE UNCHANGED vars
    BY <2>15 DEF vars
  <2>16. ASSUME NEW h \in Handlers, CommandFails(h) PROVE WindowHasEnd'
    <3>1. requestKey' = requestKey /\ leaked \subseteq leaked'
      BY <2>16 DEF CommandFails
    <3>2. handler[h].pc = "requestExpire" => "requestExpire" \in leaked'
      BY <2>16 DEF CommandFails
    <3>3. \A g \in Handlers \ {h} : handler'[g] = handler[g]
      BY <2>16 DEF CommandFails
    <3> QED BY <3>1, <3>2, <3>3
  <2>17. ASSUME NEW h \in Handlers, ReplyLost(h) PROVE WindowHasEnd'
    <3>1. UNCHANGED <<requestKey, leaked>> /\ handler[h].pc # "requestExpire"
      BY <2>17 DEF ReplyLost
    <3>2. \A g \in Handlers \ {h} : handler'[g] = handler[g]
      BY <2>17 DEF ReplyLost
    <3> QED BY <3>1, <3>2
  <2> QED
    BY <2>1, <2>2, <2>3, <2>4, <2>5, <2>6, <2>7, <2>8, <2>9, <2>10, <2>11,
       <2>12, <2>13, <2>14, <2>15, <2>16, <2>17 DEF Next, RequestOtp, VerifyOtp
<1> QED
  BY <1>1, <1>2, TypeCorrect, PTL DEF Spec

-----------------------------------------------------------------------------
(* The attempt counter and the code it protects *)

\* While its code can still be guessed the attempt counter does not expire,
\* whatever calls overlap: only a DEL that is pending, was rejected or died with its
\* process can leave the code with an older counter.
\* The proof needs to know that a counter INCR creates starts without expiry.
THEOREM CounterIsKept == Spec => []CounterOutlivesCode
<1>1. Init => CounterInv
  BY DEF Init, CounterInv, CounterOutlivesCode, AbsentHasNoExpiry, NoCount
<1>2. TypeOK /\ CounterInv /\ [Next]_vars => CounterInv'
  <2> SUFFICES ASSUME TypeOK, CounterInv, [Next]_vars
               PROVE  CounterInv'
    OBVIOUS
  <2> USE OtpAssumption DEF TypeOK, CounterInv, CounterOutlivesCode, AbsentHasNoExpiry,
                        CallState, GoTo, Done, Owed
  <2>1. ASSUME NEW h \in Handlers, RequestIncr(h) PROVE CounterInv'
    BY <2>1 DEF RequestIncr
  <2>2. ASSUME NEW h \in Handlers, RequestExpire(h) PROVE CounterInv'
    BY <2>2 DEF RequestExpire
  <2>3. ASSUME NEW h \in Handlers, NEW c \in Codes, RequestSet(h, c)
        PROVE  CounterInv'
    BY <2>3 DEF RequestSet
  <2>4. ASSUME NEW h \in Handlers, RequestDel(h) PROVE CounterInv'
    BY <2>4 DEF RequestDel, NoCount
  <2>5. ASSUME NEW h \in Handlers, NEW c \in Codes, VerifyGet(h, c)
        PROVE  CounterInv'
    BY <2>5 DEF VerifyGet
  <2>6. ASSUME NEW h \in Handlers, VerifyIncr(h) PROVE CounterInv'
    <3>1. attemptsKey'.ttl = attemptsKey.ttl
      BY <2>6, IncrLemma DEF VerifyIncr
    <3>2. attemptsKey'.count > 0
      BY <2>6, IncrLemma DEF VerifyIncr
    <3> QED BY <2>6, <3>1, <3>2 DEF VerifyIncr, Compare
  <2>7. ASSUME NEW h \in Handlers, VerifyExpire(h) PROVE CounterInv'
    <3>1. /\ attemptsKey'.count > 0 => attemptsKey'.ttl = CodeTtl
          /\ attemptsKey'.count = 0 => attemptsKey'.ttl = 0
      BY <2>7, ExpireLemma DEF VerifyExpire, Expire
    <3>2. codeKey' = codeKey
      BY <2>7 DEF VerifyExpire
    <3> QED BY <3>1, <3>2
  <2>8. ASSUME NEW h \in Handlers, VerifyLock(h) PROVE CounterInv'
    BY <2>8 DEF VerifyLock, NoKey
  <2>9. ASSUME NEW h \in Handlers, VerifyDel(h) PROVE CounterInv'
    BY <2>9 DEF VerifyDel, NoKey, NoCount
  <2>10. ASSUME NEW h \in Handlers, VerifyUser(h) PROVE CounterInv'
    BY <2>10 DEF VerifyUser
  <2>11. ASSUME NEW h \in Handlers, VerifySign(h) PROVE CounterInv'
    BY <2>11 DEF VerifySign
  <2>12. CASE SetActive
    BY <2>12 DEF SetActive
  <2>13. CASE Tick
    <3>1. codeKey'.value # NoCode => codeKey'.ttl = codeKey.ttl - 1 /\ codeKey.value # NoCode
      BY <2>13 DEF Tick, NoKey
    <3>2. attemptsKey'.count > 0 /\ attemptsKey'.ttl > 0 =>
            /\ attemptsKey'.ttl = attemptsKey.ttl - 1
            /\ attemptsKey.count > 0
      BY <2>13, ElapseLemma DEF Tick, NoCount, Elapse
    <3>3. attemptsKey'.count = 0 => attemptsKey'.ttl = 0
      BY <2>13 DEF Tick, Elapse, NoCount
    <3>4. handler' = handler /\ ("requestDel" \in leaked => "requestDel" \in leaked')
      BY <2>13 DEF Tick
    <3> QED BY <3>1, <3>2, <3>3, <3>4
  <2>14. CASE Crash
    <3>1. codeKey' = codeKey /\ attemptsKey' = attemptsKey /\ leaked \subseteq leaked'
      BY <2>14 DEF Crash
    <3>2. ASSUME NEW h \in Handlers, handler[h].pc = "requestDel"
          PROVE  "requestDel" \in leaked'
      BY <2>14, <3>2 DEF Crash
    <3> QED BY <3>1, <3>2
  <2>15. CASE UNCHANGED vars
    BY <2>15 DEF vars
  <2>16. ASSUME NEW h \in Handlers, CommandFails(h) PROVE CounterInv'
    <3>1. codeKey' = codeKey /\ attemptsKey' = attemptsKey /\ leaked \subseteq leaked'
      BY <2>16 DEF CommandFails
    <3>2. handler[h].pc = "requestDel" => "requestDel" \in leaked'
      BY <2>16 DEF CommandFails
    <3>3. \A g \in Handlers \ {h} : handler'[g] = handler[g]
      BY <2>16 DEF CommandFails
    <3> QED BY <3>1, <3>2, <3>3
  <2>17. ASSUME NEW h \in Handlers, ReplyLost(h) PROVE CounterInv'
    <3>1. UNCHANGED <<codeKey, leaked>> /\ handler[h].pc # "requestDel"
      BY <2>17 DEF ReplyLost
    <3>2. \A g \in Handlers \ {h} : handler'[g] = handler[g]
      BY <2>17 DEF ReplyLost
    <3>3. CASE handler[h].pc = "verifyIncr"
      <4>1. attemptsKey'.ttl = attemptsKey.ttl /\ attemptsKey'.count > 0
        BY <2>17, <3>3, IncrLemma DEF ReplyLost
      <4>2. handler' = handler
        BY <2>17, <3>3 DEF ReplyLost
      <4> QED BY <3>1, <4>1, <4>2
    <3>4. CASE handler[h].pc = "verifyExpire"
      <4>1. /\ attemptsKey'.count > 0 => attemptsKey'.ttl = CodeTtl
            /\ attemptsKey'.count = 0 => attemptsKey'.ttl = 0
        BY <2>17, <3>4, ExpireLemma DEF ReplyLost, Expire
      <4> QED BY <3>1, <4>1
    <3> QED BY <2>17, <3>3, <3>4 DEF ReplyLost
  <2> QED
    BY <2>1, <2>2, <2>3, <2>4, <2>5, <2>6, <2>7, <2>8, <2>9, <2>10, <2>11,
       <2>12, <2>13, <2>14, <2>15, <2>16, <2>17 DEF Next, RequestOtp, VerifyOtp
<1>3. CounterInv => CounterOutlivesCode
  BY DEF CounterInv
<1> QED
  BY <1>1, <1>2, <1>3, TypeCorrect, PTL DEF Spec

-----------------------------------------------------------------------------
(* How often one code is used *)

\* Calls are finitely many, and so are those that have read the code.
LEMMA ReadersFinite ==
  ASSUME TypeOK
  PROVE  /\ IsFiniteSet(readers) /\ Cardinality(readers) \in Nat
         /\ Cardinality(readers) <= Cardinality(Handlers)
         /\ Cardinality(Handlers) \in Nat
         /\ \A h \in readers : /\ Cardinality(readers \ {h}) = Cardinality(readers) - 1
                              /\ Cardinality(readers \ {h}) \in Nat
         /\ Cardinality({}) = 0
  BY OtpAssumption, FS_CardinalityType, FS_Subset, FS_EmptySet, FS_RemoveElement
     DEF TypeOK

\* A call that goes on to a command before the use of the code, or answers
\* without a token, lets nobody in.
LEMMA UseKept ==
  ASSUME TypeOK, UseInv, NEW h \in Handlers, handler[h].pc # "idle",
         NEW p \in CallPc \ {"idle", "verifyUser", "verifySign"},
         GoTo(h, p) \/ Done(h),
         codeKey' = codeKey \/ codeKey'.value = NoCode, logins' = logins
  PROVE  UseInv'
<1>1. CASE GoTo(h, p)
  BY <1>1 DEF UseInv, GoTo, TypeOK, CallState
<1>2. CASE Done(h)
  <2>1. Cardinality(readers') <= Cardinality(readers) /\ Cardinality(readers') \in Nat
    <3>1. CASE h \in readers
      BY <1>2, <3>1, ReadersFinite DEF Done, TypeOK
    <3>2. CASE h \notin readers
      <4>1. readers' = readers
        BY <1>2, <3>2 DEF Done
      <4> QED BY <4>1, ReadersFinite
    <3> QED BY <3>1, <3>2, ReadersFinite
  <2> QED BY <1>2, <2>1, ReadersFinite DEF UseInv, Done, TypeOK, CallState, Idle
<1> QED BY <1>1, <1>2

\* Only calls that had read the code before its first use can use it again.
THEOREM CodeUseIsBounded == Spec => []CodeUseBounded
<1>1. Init => UseInv
  <2>1. Cardinality({}) = 0 /\ Cardinality(Handlers) \in Nat
    BY OtpAssumption, FS_EmptySet, FS_CardinalityType
  <2> QED BY <2>1 DEF Init, UseInv
<1>2. TypeOK /\ UseInv /\ [Next]_vars => UseInv'
  <2> SUFFICES ASSUME TypeOK, UseInv, [Next]_vars PROVE UseInv'
    OBVIOUS
  <2> USE OtpAssumption, ReadersFinite DEF CallState, CallPc
  <2>1. ASSUME NEW h \in Handlers, RequestIncr(h) PROVE UseInv'
    <3>1. h \notin readers
      BY <2>1 DEF RequestIncr, UseInv
    <3>2. readers' = readers
      BY <2>1, <3>1 DEF RequestIncr, GoTo, Done
    <3>3. \A d \in readers : handler'[d] = handler[d]
      BY <2>1, <3>1 DEF RequestIncr, GoTo, Done, TypeOK
    <3> QED BY <2>1, <3>2, <3>3 DEF RequestIncr, UseInv, tally, TypeOK
  <2>2. ASSUME NEW h \in Handlers, RequestExpire(h) PROVE UseInv'
    BY <2>2, UseKept DEF RequestExpire, tally
  <2>3. ASSUME NEW h \in Handlers, NEW c \in Codes, RequestSet(h, c) PROVE UseInv'
    BY <2>3 DEF RequestSet, UseInv
  <2>4. ASSUME NEW h \in Handlers, RequestDel(h) PROVE UseInv'
    BY <2>4, UseKept DEF RequestDel
  <2>5. ASSUME NEW h \in Handlers, NEW c \in Codes, VerifyGet(h, c) PROVE UseInv'
    <3>1. logins = 0 /\ \A d \in readers : handler[d].pc \notin {"verifyUser", "verifySign"}
      BY <2>5 DEF VerifyGet, UseInv, TypeOK
    <3>2. Cardinality(readers') <= Cardinality(Handlers)
      <4>1. readers' \in SUBSET Handlers
        BY <2>5 DEF VerifyGet, TypeOK
      <4> QED BY <4>1, FS_Subset
    <3>3. logins' = 0 /\ codeKey' = codeKey
      BY <2>5, <3>1 DEF VerifyGet, tally
    <3>4. Cardinality(readers') \in Nat
      BY <2>5, FS_AddElement, FS_CardinalityType DEF VerifyGet
    <3>5. \A d \in readers' : handler'[d].pc \notin {"idle", "verifyUser", "verifySign"}
      BY <2>5, <3>1 DEF VerifyGet, UseInv, TypeOK
    <3> QED BY <3>2, <3>3, <3>4, <3>5 DEF UseInv
  <2>6. ASSUME NEW h \in Handlers, VerifyIncr(h) PROVE UseInv'
    <3>1. \E p \in {"verifyExpire", "verifyLock", "verifyDel"} : GoTo(h, p) \/ Done(h)
      BY <2>6 DEF VerifyIncr, Compare
    <3> QED BY <2>6, <3>1, UseKept DEF VerifyIncr
  <2>7. ASSUME NEW h \in Handlers, VerifyExpire(h) PROVE UseInv'
    <3>1. GoTo(h, "verifyDel") \/ Done(h)
      BY <2>7 DEF VerifyExpire, Compare
    <3> QED BY <2>7, <3>1, UseKept DEF VerifyExpire
  <2>8. ASSUME NEW h \in Handlers, VerifyLock(h) PROVE UseInv'
    BY <2>8, UseKept DEF VerifyLock, tally, NoKey
  <2>9. ASSUME NEW h \in Handlers, VerifyDel(h) PROVE UseInv'
    BY <2>9 DEF VerifyDel, UseInv, GoTo, NoKey, TypeOK
  <2>10. ASSUME NEW h \in Handlers, VerifyUser(h) PROVE UseInv'
    <3>1. CASE user = "inactive"
      BY <2>10, <3>1, UseKept DEF VerifyUser, tally
    <3>2. CASE user # "inactive"
      BY <2>10, <3>2 DEF VerifyUser, UseInv, GoTo, tally, TypeOK
    <3> QED BY <3>1, <3>2
  <2>11. ASSUME NEW h \in Handlers, VerifySign(h) PROVE UseInv'
    <3>1. CASE h \in readers
      <4>1. logins' = logins + 1 /\ readers' = readers \ {h}
        BY <2>11, <3>1 DEF VerifySign, Done
      <4>2. Cardinality(readers') = Cardinality(readers) - 1
        BY <3>1, <4>1
      <4>3. codeKey.value = NoCode
        BY <2>11, <3>1 DEF VerifySign, UseInv
      <4> QED BY <2>11, <4>1, <4>2, <4>3 DEF VerifySign, UseInv, Done, TypeOK
    <3>2. CASE h \notin readers
      BY <2>11, <3>2, UseKept DEF VerifySign
    <3> QED BY <3>1, <3>2
  <2>12. CASE SetActive
    BY <2>12 DEF SetActive, UseInv, tally
  <2>13. CASE Tick
    BY <2>13 DEF Tick, UseInv, NoKey
  <2>14. CASE Crash
    BY <2>14 DEF Crash, UseInv, tally, TypeOK
  <2>15. CASE UNCHANGED vars
    BY <2>15 DEF vars, UseInv
  <2>16. ASSUME NEW h \in Handlers, CommandFails(h) PROVE UseInv'
    BY <2>16, UseKept DEF CommandFails, tally
  <2>17. ASSUME NEW h \in Handlers, ReplyLost(h) PROVE UseInv'
    <3>1. CASE handler[h].pc = "verifyIncr"
      BY <2>17, <3>1 DEF ReplyLost, UseInv, tally
    <3>2. CASE handler[h].pc = "verifyExpire"
      BY <2>17, <3>2, UseKept DEF ReplyLost, tally
    <3> QED BY <2>17, <3>1, <3>2 DEF ReplyLost
  <2> QED
    BY <2>1, <2>2, <2>3, <2>4, <2>5, <2>6, <2>7, <2>8, <2>9, <2>10, <2>11,
       <2>12, <2>13, <2>14, <2>15, <2>16, <2>17 DEF Next, RequestOtp, VerifyOtp
<1>3. TypeOK /\ UseInv => CodeUseBounded
  BY ReadersFinite DEF UseInv, CodeUseBounded, TypeOK
<1> QED
  BY <1>1, <1>2, <1>3, TypeCorrect, PTL DEF Spec

-----------------------------------------------------------------------------
(* How often one code is compared *)

\* The comparisons that a counter at n can have paid for.
Counted(n) == IF n < MaxAttempts THEN n ELSE MaxAttempts

\* The product in TriesBounded, taken apart for the provers.
LEMMA OneMoreReset ==
  ASSUME NEW n \in Nat
  PROVE  /\ MaxAttempts * (1 + n) = MaxAttempts * n + MaxAttempts
         /\ MaxAttempts * (n + 1) = MaxAttempts * n + MaxAttempts
         /\ MaxAttempts * n \in Nat
         /\ MaxAttempts * 0 = 0
  BY OtpAssumption

\* Calls about to compare are finitely many.
LEMMA PayingFinite ==
  /\ IsFiniteSet(Paying) /\ Cardinality(Paying) \in Nat
  /\ \A h \in Paying : Cardinality(Paying \ {h}) = Cardinality(Paying) - 1
  /\ Cardinality({}) = 0
<1>1. IsFiniteSet(Paying)
  BY OtpAssumption, FS_Subset DEF Paying
<1> QED
  BY <1>1, FS_CardinalityType, FS_EmptySet, FS_RemoveElement

\* A call that goes on, or answers, without paying or comparing.
LEMMA PayingKept ==
  ASSUME TypeOK, NEW h \in Handlers, handler[h].pc # "verifyExpire",
         NEW p \in CallPc \ {"verifyExpire"}, GoTo(h, p) \/ Done(h)
  PROVE  Paying' = Paying
  BY DEF Paying, GoTo, Done, TypeOK, CallState, Idle

\* A forgotten counter was worth at most MaxAttempts comparisons, and nothing
\* when no comparison had been charged to it.
LEMMA ForgottenIsCounted ==
  ASSUME TypeOK, TriesInv, Cardinality(Paying') <= Cardinality(Paying),
         Cardinality(Paying') \in Nat,
         attemptsKey' = NoCount, tries' = tries,
         resets' = IF Charged /\ attemptsKey.count > 0 THEN resets + 1 ELSE resets
  PROVE  TriesInv'
<1> USE OtpAssumption, PayingFinite DEF TypeOK
<1>1. tries + Cardinality(Paying) <= MaxAttempts * resets + Counted(attemptsKey.count)
  BY DEF TriesInv, Counted
<1>2. Counted(attemptsKey.count) <= MaxAttempts /\ Counted(attemptsKey.count) \in Nat
  BY DEF Counted
<1>3. CASE Charged /\ attemptsKey.count > 0
  <2>1. resets' = resets + 1
    BY <1>3
  <2>2. tries' + Cardinality(Paying') <= MaxAttempts * resets'
    BY <1>1, <1>2, <2>1, OneMoreReset
  <2> QED BY <2>1, <2>2, OneMoreReset DEF TriesInv, NoCount
<1>4. CASE ~ Charged
  <2>1. tries = 0 /\ Paying = {}
    BY <1>4 DEF Charged, Paying
  <2>2. Cardinality(Paying') = 0
    BY <2>1
  <2>3. resets' = resets /\ MaxAttempts * resets \in Nat
    BY <1>4, OneMoreReset
  <2> QED BY <2>1, <2>2, <2>3 DEF TriesInv, NoCount
<1>5. CASE ~ attemptsKey.count > 0
  <2>1. Counted(attemptsKey.count) = 0
    BY <1>5 DEF Counted
  <2> QED BY <1>1, <1>5, <2>1, OneMoreReset DEF TriesInv, NoCount
<1> QED BY <1>3, <1>4, <1>5

\* The counter need not be there when a code is compared, but every comparison
\* has been counted by one that was.
THEOREM TriesAreBounded == Spec => []TriesBounded
<1>1. Init => TriesInv
  <2> SUFFICES ASSUME Init PROVE TriesInv
    OBVIOUS
  <2>1. Cardinality(Paying) = 0
    <3>1. Paying = {}
      BY DEF Init, Paying
    <3> QED BY <3>1, PayingFinite
  <2>2. tries = 0 /\ resets = 0 /\ attemptsKey.count = 0
    BY DEF Init, NoCount
  <2>3. MaxAttempts * resets = 0
    BY <2>2, OneMoreReset
  <2> QED BY <2>1, <2>2, <2>3, OtpAssumption DEF TriesInv
<1>2. TypeOK /\ TriesInv /\ [Next]_vars => TriesInv'
  <2> SUFFICES ASSUME TypeOK, TriesInv, [Next]_vars PROVE TriesInv'
    OBVIOUS
  <2> USE OtpAssumption DEF CallState, CallPc
  <2>a. ASSUME Paying' = Paying, UNCHANGED <<tries, resets, attemptsKey>> PROVE TriesInv'
    BY <2>a DEF TriesInv
  <2>1. ASSUME NEW h \in Handlers, RequestIncr(h) PROVE TriesInv'
    <3>1. Paying' = Paying
      <4>1. \E p \in {"requestExpire", "requestSet"} : GoTo(h, p) \/ Done(h)
        BY <2>1 DEF RequestIncr
      <4> QED BY <2>1, <4>1, PayingKept DEF RequestIncr
    <3> QED BY <2>1, <2>a, <3>1 DEF RequestIncr, tally
  <2>2. ASSUME NEW h \in Handlers, RequestExpire(h) PROVE TriesInv'
    BY <2>2, <2>a, PayingKept DEF RequestExpire, tally
  <2>3. ASSUME NEW h \in Handlers, NEW c \in Codes, RequestSet(h, c) PROVE TriesInv'
    <3>1. Paying' = {}
      BY <2>3 DEF RequestSet, Paying
    <3>2. tries' + Cardinality(Paying') = 0 /\ MaxAttempts * resets' = 0
      BY <2>3, <3>1, PayingFinite, OneMoreReset DEF RequestSet
    <3>3. Counted(attemptsKey'.count) \in Nat
      BY <2>3 DEF RequestSet, Counted, TypeOK
    <3> QED BY <3>2, <3>3 DEF TriesInv, Counted
  <2>4. ASSUME NEW h \in Handlers, RequestDel(h) PROVE TriesInv'
    <3>1. Paying' = Paying
      BY <2>4, PayingKept DEF RequestDel
    <3> QED BY <2>4, <3>1, PayingFinite, ForgottenIsCounted DEF RequestDel, ForgetAttempts, TypeOK
  <2>5. ASSUME NEW h \in Handlers, NEW c \in Codes, VerifyGet(h, c) PROVE TriesInv'
    <3>1. Paying' = Paying
      BY <2>5 DEF VerifyGet, Paying, TypeOK
    <3> QED BY <2>5, <2>a, <3>1 DEF VerifyGet, tally
  <2>6. ASSUME NEW h \in Handlers, VerifyIncr(h) PROVE TriesInv'
    <3> DEFINE n == attemptsKey.count
    <3>1. n \in 0 .. MaxAttempts + 1 /\ resets' = resets /\ resets \in Nat /\ tries \in Nat
      BY <2>6 DEF TypeOK, VerifyIncr
    <3>2. attemptsKey'.count = IF n <= MaxAttempts THEN n + 1 ELSE n
      BY <2>6 DEF VerifyIncr, Incr, TypeOK
    <3>3. h \notin Paying
      BY <2>6 DEF VerifyIncr, Paying
    <3>4. CASE n = 0
      <4>1. GoTo(h, "verifyExpire") /\ tries' = tries
        BY <2>6, <3>1, <3>4 DEF VerifyIncr, Incr
      <4>2. Paying' \in SUBSET (Paying \cup {h})
        BY <4>1 DEF GoTo, Paying, TypeOK
      <4>3. IsFiniteSet(Paying \cup {h}) /\ Cardinality(Paying \cup {h}) = Cardinality(Paying) + 1
        BY <3>3, PayingFinite, FS_AddElement
      <4>4. Cardinality(Paying') <= Cardinality(Paying) + 1 /\ Cardinality(Paying') \in Nat
        BY <4>2, <4>3, FS_Subset, FS_CardinalityType
      <4>5. attemptsKey'.count = 1
        BY <3>2, <3>4
      <4> QED BY <3>1, <3>4, <4>1, <4>4, <4>5, PayingFinite, OneMoreReset DEF TriesInv
    <3>5. CASE n > MaxAttempts \/ n = MaxAttempts
      <4>1. GoTo(h, "verifyLock") /\ tries' = tries
        BY <2>6, <3>1, <3>5 DEF VerifyIncr, Incr
      <4>2. Paying' = Paying
        BY <2>6, <4>1, PayingKept DEF VerifyIncr
      <4> QED BY <3>1, <3>2, <3>5, <4>1, <4>2 DEF TriesInv
    <3>6. CASE n > 0 /\ n < MaxAttempts
      <4>1. Compare(h)
        BY <2>6, <3>1, <3>6 DEF VerifyIncr, Incr
      <4>2. Paying' = Paying
        BY <2>6, <4>1, PayingKept DEF VerifyIncr, Compare
      <4>3. tries' <= tries + 1 /\ tries' \in Nat
        BY <3>1, <4>1 DEF Compare
      <4> QED BY <3>1, <3>2, <3>6, <4>2, <4>3, PayingFinite, OneMoreReset DEF TriesInv
    <3> QED BY <3>1, <3>4, <3>5, <3>6
  <2>7. ASSUME NEW h \in Handlers, VerifyExpire(h) PROVE TriesInv'
    <3>1. attemptsKey'.count = attemptsKey.count /\ resets' = resets
      BY <2>7 DEF VerifyExpire, Expire, TypeOK
    <3>2. Paying' = Paying \ {h}
      BY <2>7 DEF VerifyExpire, Compare, GoTo, Done, Paying, TypeOK, Idle
    <3>3. CASE h \in readers
      <4>1. tries' = tries + 1 /\ Cardinality(Paying') = Cardinality(Paying) - 1
        BY <2>7, <3>2, <3>3, PayingFinite DEF VerifyExpire, Compare, Paying
      <4> QED BY <3>1, <4>1, PayingFinite, OneMoreReset DEF TriesInv, TypeOK
    <3>4. CASE h \notin readers
      <4>1. tries' = tries /\ Paying' = Paying
        BY <2>7, <3>2, <3>4 DEF VerifyExpire, Compare, Paying
      <4> QED BY <3>1, <4>1 DEF TriesInv
    <3> QED BY <3>3, <3>4
  <2>8. ASSUME NEW h \in Handlers, VerifyLock(h) PROVE TriesInv'
    BY <2>8, <2>a, PayingKept DEF VerifyLock, tally
  <2>9. ASSUME NEW h \in Handlers, VerifyDel(h) PROVE TriesInv'
    <3>1. Paying' = Paying
      BY <2>9, PayingKept DEF VerifyDel
    <3> QED BY <2>9, <3>1, PayingFinite, ForgottenIsCounted DEF VerifyDel, ForgetAttempts, TypeOK
  <2>10. ASSUME NEW h \in Handlers, VerifyUser(h) PROVE TriesInv'
    BY <2>10, <2>a, PayingKept DEF VerifyUser, tally
  <2>11. ASSUME NEW h \in Handlers, VerifySign(h) PROVE TriesInv'
    BY <2>11, <2>a, PayingKept DEF VerifySign
  <2>12. CASE SetActive
    BY <2>12, <2>a DEF SetActive, Paying, tally
  <2>13. CASE Tick
    <3>1. Paying' = Paying /\ tries' = tries
      BY <2>13 DEF Tick, Paying
    <3>2. CASE attemptsKey.ttl = 1 /\ attemptsKey.count > 0
      <4>1. attemptsKey' = NoCount
        BY <2>13, <3>2, ElapseLemma DEF Tick, TypeOK
      <4>2. resets' = IF Charged /\ attemptsKey.count > 0 THEN resets + 1 ELSE resets
        BY <2>13, <3>2 DEF Tick
      <4> QED BY <3>1, <4>1, <4>2, PayingFinite, ForgottenIsCounted
    <3>3. CASE attemptsKey.ttl = 1 /\ attemptsKey.count = 0
      <4>1. attemptsKey'.count = 0
        BY <2>13, <3>3, ElapseLemma DEF Tick, TypeOK, NoCount
      <4>2. resets' \in {resets, resets + 1}
        BY <2>13, <3>3 DEF Tick
      <4>3. MaxAttempts * resets <= MaxAttempts * resets' /\ MaxAttempts * resets' \in Nat
        <5>1. /\ MaxAttempts * resets \in Nat /\ MaxAttempts \in Nat
              /\ MaxAttempts * (resets + 1) = MaxAttempts * resets + MaxAttempts
          BY OneMoreReset DEF TypeOK
        <5> QED BY <4>2, <5>1
      <4>4. tries + Cardinality(Paying) <= MaxAttempts * resets
        BY <3>3, OneMoreReset DEF TriesInv, TypeOK
      <4>5. tries' + Cardinality(Paying') <= MaxAttempts * resets'
        BY <3>1, <4>3, <4>4, PayingFinite, OneMoreReset DEF TypeOK
      <4> QED BY <4>1, <4>3, <4>5 DEF TriesInv
    <3>4. CASE attemptsKey.ttl # 1
      <4>1. attemptsKey'.count = attemptsKey.count /\ resets' = resets
        BY <2>13, <3>4 DEF Tick, Elapse, TypeOK
      <4> QED BY <3>1, <4>1 DEF TriesInv
    <3> QED BY <3>2, <3>3, <3>4 DEF TypeOK
  <2>14. CASE Crash
    <3>1. Paying' = {}
      BY <2>14 DEF Crash, Paying
    <3>2. Cardinality(Paying') = 0
      BY <3>1, PayingFinite
    <3>3. UNCHANGED <<tries, resets, attemptsKey>>
      BY <2>14 DEF Crash, tally
    <3>4. tries \in Nat /\ MaxAttempts * resets \in Nat /\ Cardinality(Paying) \in Nat
      BY PayingFinite, OneMoreReset DEF TypeOK
    <3>5. Counted(attemptsKey.count) \in Nat
      BY DEF Counted, TypeOK
    <3> QED BY <3>2, <3>3, <3>4, <3>5 DEF TriesInv, Counted
  <2>15. CASE UNCHANGED vars
    BY <2>15, <2>a DEF vars, Paying
  <2>b. ASSUME NEW h \in Handlers, Done(h) PROVE Cardinality(Paying') <= Cardinality(Paying)
                                                 /\ Cardinality(Paying') \in Nat
    <3>1. Paying' \subseteq Paying
      BY <2>b DEF Done, Paying, TypeOK, Idle
    <3> QED BY <3>1, PayingFinite, FS_Subset, FS_CardinalityType
  <2>16. ASSUME NEW h \in Handlers, CommandFails(h) PROVE TriesInv'
    <3>1. Cardinality(Paying') <= Cardinality(Paying) /\ Cardinality(Paying') \in Nat
      BY <2>16, <2>b DEF CommandFails
    <3>2. UNCHANGED <<tries, resets, attemptsKey>>
      BY <2>16 DEF CommandFails, tally
    <3> QED BY <3>1, <3>2, PayingFinite, OneMoreReset DEF TriesInv, TypeOK
  <2>17. ASSUME NEW h \in Handlers, ReplyLost(h) PROVE TriesInv'
    <3>1. Cardinality(Paying') <= Cardinality(Paying) /\ Cardinality(Paying') \in Nat
      <4>1. CASE UNCHANGED <<handler, readers>>
        BY <4>1, PayingFinite DEF Paying
      <4> QED BY <2>17, <2>b, <4>1 DEF ReplyLost
    <3>2. UNCHANGED <<tries, resets>>
      BY <2>17 DEF ReplyLost, tally
    <3>3. attemptsKey'.count \in Nat /\ attemptsKey'.count >= attemptsKey.count
      BY <2>17, LostCount
    <3>4. Counted(attemptsKey.count) <= Counted(attemptsKey'.count)
          /\ Counted(attemptsKey.count) \in Nat /\ Counted(attemptsKey'.count) \in Nat
      BY <3>3 DEF Counted, TypeOK
    <3>5. tries + Cardinality(Paying) <= MaxAttempts * resets + Counted(attemptsKey.count)
      BY DEF TriesInv, Counted
    <3>6. tries' + Cardinality(Paying') <= MaxAttempts * resets' + Counted(attemptsKey'.count)
      BY <3>1, <3>2, <3>4, <3>5, PayingFinite, OneMoreReset DEF TypeOK
    <3> QED BY <3>6 DEF TriesInv, Counted
  <2> QED
    BY <2>1, <2>2, <2>3, <2>4, <2>5, <2>6, <2>7, <2>8, <2>9, <2>10, <2>11,
       <2>12, <2>13, <2>14, <2>15, <2>16, <2>17 DEF Next, RequestOtp, VerifyOtp
<1>3. TypeOK /\ TriesInv => TriesBounded
  BY OtpAssumption, PayingFinite, OneMoreReset DEF TriesInv, TriesBounded, TypeOK
<1> QED
  BY <1>1, <1>2, <1>3, TypeCorrect, PTL DEF Spec

-----------------------------------------------------------------------------
(* Calls that do not overlap *)

\* The one call that is busy.
LEMMA OnlyOneBusy ==
  ASSUME AtMostOneBusy, NEW h \in Handlers, handler[h].pc # "idle"
  PROVE  \A g \in Handlers : g # h => handler[g].pc = "idle"
<1> DEFINE Busy == {g \in Handlers : handler[g].pc # "idle"}
<1>1. IsFiniteSet(Busy) /\ Cardinality(Busy) \in Nat /\ h \in Busy
  BY OtpAssumption, FS_Subset, FS_CardinalityType
<1>2. Cardinality(Busy) <= 1
  BY DEF AtMostOneBusy
<1>3. IsFiniteSet(Busy \ {h}) /\ Cardinality(Busy \ {h}) = Cardinality(Busy) - 1
  BY <1>1, FS_RemoveElement
<1>4. Cardinality(Busy \ {h}) \in Nat
  BY <1>3, FS_CardinalityType
<1> HIDE DEF Busy
<1>5. Cardinality(Busy \ {h}) = 0
  BY <1>1, <1>2, <1>3, <1>4
<1>6. Busy \ {h} = {}
  BY <1>3, <1>5, FS_EmptySet
<1> QED BY <1>6 DEF Busy

\* A step of calls that do not overlap counts what it compares.
LEMMA SerialStep ==
  ASSUME TypeOK, CounterOutlivesCode, AtMostOneBusy, AtMostOneBusy', CodeIsCounted, [Next]_vars
  PROVE  CodeIsCounted'
<1> USE OtpAssumption DEF TypeOK, CallState, Owed
<1>0. MaxAttempts \in Nat /\ MaxAttempts > 0 /\ tries \in Nat /\ attemptsKey.count \in Nat
  OBVIOUS
\* A call that neither compares nor issues.
<1>a. ASSUME UNCHANGED <<codeKey, tries>>, Paying' \subseteq Paying,
             attemptsKey'.count \in Nat, attemptsKey'.count >= attemptsKey.count,
             "requestDel" \in leaked => "requestDel" \in leaked',
             \A h \in Handlers : handler[h].pc = "requestDel" <=> handler'[h].pc = "requestDel"
      PROVE  CodeIsCounted'
  BY <1>0, <1>a DEF CodeIsCounted
<1>b. ASSUME NEW h \in Handlers, NEW p \in CallPc \ {"verifyExpire"}, GoTo(h, p) \/ Done(h)
      PROVE  /\ Paying' \subseteq Paying \ {h}
             /\ handler'[h].pc \in {"idle", p}
             /\ \A g \in Handlers \ {h} : handler'[g] = handler[g]
  BY <1>b DEF GoTo, Done, Paying, Idle
<1>1. ASSUME NEW h \in Handlers, RequestIncr(h) PROVE CodeIsCounted'
  <2>1. PICK p \in {"idle", "requestExpire", "requestSet"} : GoTo(h, p) \/ Done(h)
    BY <1>1 DEF RequestIncr
  <2>2. /\ Paying' \subseteq Paying /\ handler'[h].pc # "requestDel"
        /\ \A g \in Handlers \ {h} : handler'[g] = handler[g]
    BY <1>b, <2>1 DEF CallPc
  <2>3. handler[h].pc = "idle" /\ UNCHANGED <<codeKey, attemptsKey, tries, leaked>>
    BY <1>1 DEF RequestIncr, tally
  <2> QED BY <1>0, <1>a, <2>2, <2>3
<1>2. ASSUME NEW h \in Handlers, RequestExpire(h) PROVE CodeIsCounted'
  <2>1. /\ Paying' \subseteq Paying /\ handler'[h].pc # "requestDel"
        /\ \A g \in Handlers \ {h} : handler'[g] = handler[g]
    BY <1>2, <1>b DEF RequestExpire, CallPc
  <2>2. /\ handler[h].pc = "requestExpire" /\ UNCHANGED <<codeKey, attemptsKey, tries>>
        /\ leaked' = leaked \ {"requestExpire"}
    BY <1>2 DEF RequestExpire, tally
  <2> QED BY <1>0, <1>a, <2>1, <2>2
<1>3. ASSUME NEW h \in Handlers, NEW c \in Codes, RequestSet(h, c) PROVE CodeIsCounted'
  <2>1. tries' = 0 /\ handler'[h].pc = "requestDel"
    BY <1>3 DEF RequestSet
  <2> QED BY <2>1 DEF CodeIsCounted
<1>4. ASSUME NEW h \in Handlers, RequestDel(h) PROVE CodeIsCounted'
  <2>1. /\ handler[h].pc = "requestDel" /\ attemptsKey'.count = 0
        /\ UNCHANGED <<codeKey, tries>>
    BY <1>4 DEF RequestDel, NoCount
  <2>2. \A g \in Handlers : g # h => handler[g].pc = "idle"
    BY <2>1, OnlyOneBusy
  <2>3. Paying = {} /\ Paying' = {} /\ handler'[h].pc # "requestDel"
    BY <1>4, <1>b, <2>1, <2>2 DEF RequestDel, CallPc, Paying
  <2>4. ~ \E g \in Handlers : handler'[g].pc = "requestDel"
    BY <1>4, <1>b, <2>2, <2>3 DEF RequestDel, CallPc
  <2>5. tries = 0
    BY <2>1 DEF CodeIsCounted
  <2> QED BY <1>0, <2>1, <2>3, <2>4, <2>5 DEF CodeIsCounted
<1>5. ASSUME NEW h \in Handlers, NEW c \in Codes, VerifyGet(h, c) PROVE CodeIsCounted'
  <2>1. /\ handler[h].pc = "idle" /\ handler'[h].pc = "verifyIncr"
        /\ \A g \in Handlers \ {h} : handler'[g] = handler[g]
        /\ readers' = readers \cup {h}
        /\ UNCHANGED <<codeKey, attemptsKey, tries, leaked>>
    BY <1>5 DEF VerifyGet, tally
  <2>2. Paying' \subseteq Paying
    BY <2>1 DEF Paying
  <2> QED BY <1>0, <1>a, <2>1, <2>2
<1>6. ASSUME NEW h \in Handlers, VerifyIncr(h) PROVE CodeIsCounted'
  <2> DEFINE k == Incr(attemptsKey, MaxAttempts)
  <2>1. /\ handler[h].pc = "verifyIncr" /\ attemptsKey' = k
        /\ UNCHANGED <<codeKey, leaked>>
    BY <1>6 DEF VerifyIncr
  <2>2. \A g \in Handlers : g # h => handler[g].pc = "idle"
    BY <2>1, OnlyOneBusy
  <2>3. Paying = {} /\ ~ \E g \in Handlers : handler[g].pc = "requestDel"
    BY <2>1, <2>2 DEF Paying
  <2>4. k.count = IF attemptsKey.count <= MaxAttempts THEN attemptsKey.count + 1
                  ELSE attemptsKey.count
    BY DEF Incr
  <2> HIDE DEF k
  <2> SUFFICES ASSUME codeKey.value # NoCode, "requestDel" \notin leaked
               PROVE  /\ tries' <= k.count /\ tries' <= MaxAttempts
                      /\ Paying' # {} => tries' < k.count /\ tries' < MaxAttempts
    <3>1. PICK p \in {"idle", "verifyExpire", "verifyLock", "verifyDel"} : GoTo(h, p) \/ Done(h)
      BY <1>6 DEF VerifyIncr, Compare
    <3>2. ~ \E g \in Handlers : handler'[g].pc = "requestDel"
      BY <2>3, <3>1 DEF GoTo, Done, Idle
    <3> QED BY <2>1, <3>2 DEF CodeIsCounted
  <2>5. tries <= attemptsKey.count /\ tries <= MaxAttempts
    BY <2>3 DEF CodeIsCounted
  <2>6. CASE k.count = 1
    BY <1>0, <1>6, <2>4, <2>5, <2>6 DEF VerifyIncr, k
  <2>7. CASE k.count # 1 /\ k.count > MaxAttempts
    <3>1. GoTo(h, "verifyLock") /\ tries' = tries
      BY <1>6, <2>7 DEF VerifyIncr, k
    <3>2. Paying' = {}
      BY <1>b, <2>3, <3>1 DEF CallPc
    <3> QED BY <1>0, <2>4, <2>5, <3>1, <3>2
  <2>8. CASE k.count # 1 /\ k.count <= MaxAttempts
    <3>1. Compare(h)
      BY <1>0, <1>6, <2>4, <2>8 DEF VerifyIncr, k
    <3>2. (GoTo(h, "verifyDel") \/ Done(h)) /\ (tries' = tries + 1 \/ tries' = tries)
      BY <3>1 DEF Compare
    <3>3. Paying' = {}
      BY <1>b, <2>3, <3>2 DEF CallPc
    <3> QED BY <1>0, <2>4, <2>5, <2>8, <3>2, <3>3
  <2>9. k.count \in Nat
    BY <1>0, <2>4
  <2> QED BY <1>0, <2>6, <2>7, <2>8, <2>9
<1>7. ASSUME NEW h \in Handlers, VerifyExpire(h) PROVE CodeIsCounted'
  <2>1. /\ handler[h].pc = "verifyExpire" /\ attemptsKey'.count = attemptsKey.count
        /\ UNCHANGED <<codeKey, leaked>> /\ Compare(h)
    BY <1>7, ExpireLemma DEF VerifyExpire
  <2>2. \A g \in Handlers : g # h => handler[g].pc = "idle"
    BY <2>1, OnlyOneBusy
  <2>3. Paying \subseteq {h} /\ ~ \E g \in Handlers : handler[g].pc = "requestDel"
    BY <2>1, <2>2 DEF Paying
  <2>4. /\ GoTo(h, "verifyDel") \/ Done(h)
        /\ tries' = IF h \in readers THEN tries + 1 ELSE tries
    BY <2>1 DEF Compare
  <2>5. Paying' = {}
    BY <1>b, <2>3, <2>4 DEF CallPc
  <2>6. h \in readers => Paying # {}
    BY <2>1 DEF Paying
  <2>7. ~ \E g \in Handlers : handler'[g].pc = "requestDel"
    BY <2>3, <2>4 DEF GoTo, Done, Idle
  <2> QED BY <1>0, <2>1, <2>3, <2>4, <2>5, <2>6, <2>7 DEF CodeIsCounted
<1>8. ASSUME NEW h \in Handlers, VerifyLock(h) \/ VerifyDel(h) PROVE CodeIsCounted'
  <2>1. codeKey'.value = NoCode /\ handler[h].pc \in {"verifyLock", "verifyDel"}
        /\ (GoTo(h, "verifyUser") \/ Done(h))
    BY <1>8 DEF VerifyLock, VerifyDel, NoKey
  <2>2. \A g \in Handlers : g # h => handler[g].pc = "idle"
    BY <2>1, OnlyOneBusy
  <2>3. ~ \E g \in Handlers : handler'[g].pc = "requestDel"
    BY <2>1, <2>2 DEF GoTo, Done, Idle
  <2> QED BY <2>1, <2>3 DEF CodeIsCounted
<1>9. ASSUME NEW h \in Handlers, VerifyUser(h) \/ VerifySign(h) PROVE CodeIsCounted'
  <2>1. /\ handler[h].pc \in {"verifyUser", "verifySign"}
        /\ UNCHANGED <<codeKey, attemptsKey, tries, leaked>>
        /\ GoTo(h, "verifySign") \/ Done(h)
    BY <1>9 DEF VerifyUser, VerifySign, tally
  <2>2. /\ Paying' \subseteq Paying /\ handler'[h].pc # "requestDel"
        /\ \A g \in Handlers \ {h} : handler'[g] = handler[g]
    BY <1>b, <2>1 DEF CallPc
  <2> QED BY <1>0, <1>a, <2>1, <2>2
<1>10. CASE SetActive
  BY <1>0, <1>10, <1>a DEF SetActive, tally, Paying
<1>11. CASE Tick
  <2>1. /\ UNCHANGED <<handler, readers, tries>> /\ Paying' = Paying
        /\ "requestDel" \in leaked => "requestDel" \in leaked'
    BY <1>11 DEF Tick, Paying
  <2>2. CASE codeKey'.value = NoCode
    BY <2>1, <2>2 DEF CodeIsCounted
  <2>3. CASE codeKey'.value # NoCode
    <3>1. codeKey.ttl > 1 /\ codeKey.value # NoCode
      BY <1>11, <2>3 DEF Tick, NoKey
    <3>2. CASE attemptsKey'.count = attemptsKey.count
      BY <2>1, <3>1, <3>2 DEF CodeIsCounted
    <3>3. CASE attemptsKey'.count # attemptsKey.count
      <4>1. attemptsKey.ttl = 1 /\ attemptsKey'.count = 0 /\ attemptsKey.count > 0
        BY <1>11, <3>3 DEF Tick, Elapse, NoCount
      <4>2. \/ \E h \in Handlers : handler[h].pc = "requestDel"
            \/ "requestDel" \in leaked
        BY <3>1, <4>1 DEF CounterOutlivesCode
      <4>3. CASE "requestDel" \in leaked
        BY <2>1, <4>3 DEF CodeIsCounted
      <4> QED BY <2>1, <3>1, <4>2, <4>3 DEF CodeIsCounted
    <3> QED BY <3>2, <3>3
  <2> QED BY <2>2, <2>3
<1>12. CASE Crash
  <2>1. /\ UNCHANGED <<codeKey, attemptsKey, tries>> /\ leaked \subseteq leaked'
        /\ \A h \in Handlers : handler[h].pc = "requestDel" => "requestDel" \in leaked'
        /\ handler' = [h \in Handlers |-> Idle]
    BY <1>12 DEF Crash, tally
  <2>2. Paying' = {} /\ ~ \E h \in Handlers : handler'[h].pc = "requestDel"
    BY <2>1 DEF Paying, Idle
  <2>3. CASE "requestDel" \notin leaked'
    <3>1. "requestDel" \notin leaked /\ ~ \E h \in Handlers : handler[h].pc = "requestDel"
      BY <2>1, <2>3
    <3> QED BY <2>1, <2>2, <3>1 DEF CodeIsCounted
  <2> QED BY <2>2, <2>3 DEF CodeIsCounted
<1>13. CASE UNCHANGED vars
  BY <1>0, <1>13, <1>a DEF vars, Paying
<1>14. ASSUME NEW h \in Handlers, CommandFails(h) PROVE CodeIsCounted'
  <2>1. /\ handler[h].pc # "idle" /\ Done(h)
        /\ UNCHANGED <<codeKey, attemptsKey, tries>> /\ leaked \subseteq leaked'
        /\ handler[h].pc = "requestDel" => "requestDel" \in leaked'
    BY <1>14 DEF CommandFails, tally
  <2>2. \A g \in Handlers : g # h => handler[g].pc = "idle"
    BY <2>1, OnlyOneBusy
  <2>3. Paying' \subseteq Paying /\ ~ \E g \in Handlers : handler'[g].pc = "requestDel"
    BY <2>1, <2>2 DEF Done, Paying, Idle
  <2>4. CASE handler[h].pc = "requestDel"
    BY <2>1, <2>3, <2>4 DEF CodeIsCounted
  <2>5. CASE handler[h].pc # "requestDel"
    <3>1. ~ \E g \in Handlers : handler[g].pc = "requestDel"
      BY <2>2, <2>5
    <3> QED BY <1>0, <1>a, <2>1, <2>3, <3>1
  <2> QED BY <2>4, <2>5
<1>15. ASSUME NEW h \in Handlers, ReplyLost(h) PROVE CodeIsCounted'
  <2>1. /\ handler[h].pc \in {"verifyIncr", "verifyExpire"}
        /\ UNCHANGED <<codeKey, tries, leaked>>
        /\ UNCHANGED <<handler, readers>> \/ Done(h)
    BY <1>15 DEF ReplyLost, tally
  <2>2. attemptsKey'.count \in Nat /\ attemptsKey'.count >= attemptsKey.count
    BY <1>15, LostCount
  <2>3. /\ Paying' \subseteq Paying
        /\ \A g \in Handlers : handler[g].pc = "requestDel" <=> handler'[g].pc = "requestDel"
    BY <2>1 DEF Done, Paying, Idle
  <2> QED BY <1>a, <2>1, <2>2, <2>3
<1> QED
  BY <1>1, <1>2, <1>3, <1>4, <1>5, <1>6, <1>7, <1>8, <1>9, <1>10, <1>11, <1>12, <1>13,
     <1>14, <1>15 DEF Next, RequestOtp, VerifyOtp

\* Calls that do not overlap are calls.
LEMMA SerialIsSpec == SerialOrNot => Spec
<1>1. [Next /\ (serial => AtMostOneBusy') /\ UNCHANGED serial]_<<vars, serial>> => [Next]_vars
  OBVIOUS
<1> QED BY <1>1, PTL DEF SerialOrNot, Spec

\* Calls that do not overlap count every comparison with the code in Redis, whatever
\* rejects or dies, unless it is the DEL that starts the count of that code.
LEMMA SerialIsCounted == SerialOrNot => []SerialInv
<1>1. Init => AtMostOneBusy /\ CodeIsCounted
  <2> SUFFICES ASSUME Init PROVE AtMostOneBusy /\ CodeIsCounted
    OBVIOUS
  <2>1. {h \in Handlers : handler[h].pc # "idle"} = {}
    BY DEF Init, Idle
  <2>2. codeKey.value = NoCode
    BY DEF Init, NoKey
  <2>3. Cardinality({h \in Handlers : handler[h].pc # "idle"}) = 0
    BY <2>1, FS_EmptySet
  <2>4. ~ \E h \in Handlers : handler[h].pc = "requestDel"
    BY DEF Init, Idle
  <2> QED BY <2>2, <2>3, <2>4 DEF AtMostOneBusy, CodeIsCounted
<1>2. TypeOK /\ CounterOutlivesCode /\ SerialInv
      /\ [Next /\ (serial => AtMostOneBusy') /\ UNCHANGED serial]_<<vars, serial>>
      => SerialInv'
  <2> SUFFICES ASSUME TypeOK, CounterOutlivesCode, SerialInv, serial,
                      [Next /\ (serial => AtMostOneBusy') /\ UNCHANGED serial]_<<vars, serial>>
               PROVE  AtMostOneBusy' /\ CodeIsCounted'
    BY DEF SerialInv
  <2>1. AtMostOneBusy /\ CodeIsCounted
    BY DEF SerialInv
  <2>2. AtMostOneBusy'
    BY <2>1 DEF vars, AtMostOneBusy
  <2> QED BY <2>1, <2>2, SerialStep
<1>3. Init => SerialInv
  BY <1>1 DEF SerialInv
<1> QED BY <1>2, <1>3, SerialIsSpec, TypeCorrect, CounterIsKept, PTL DEF SerialOrNot

\* The limit of the refusal message, for every limit and every expiry: calls that
\* do not overlap compare a code at most MaxAttempts times while it is in Redis,
\* with commands that reject and crashes at any moment, unless the DEL that starts
\* its count is what failed: then the code has the last one's counter, which may
\* expire before it.
THEOREM SerialCallsAreLimited == SerialOrNot => []SerialGuessLimit
<1>1. TypeOK /\ SerialInv => SerialGuessLimit
  <2> SUFFICES ASSUME TypeOK, SerialInv, serial, "requestDel" \notin leaked,
                      codeKey.value # NoCode
               PROVE  tries <= MaxAttempts
    BY DEF SerialGuessLimit, GuessLimit
  <2>1. tries = 0 \/ tries <= MaxAttempts
    BY DEF SerialInv, CodeIsCounted
  <2> QED BY <2>1, OtpAssumption
<1> QED BY <1>1, SerialIsSpec, SerialIsCounted, TypeCorrect, PTL
=============================================================================
