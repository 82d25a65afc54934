---------------------------- MODULE Session_proofs ----------------------------
(***************************************************************************)
(* Theorems about Session for every number of accounts, login calls and    *)
(* tokens: what a token is worth although no guard looks at the user row,  *)
(* and what the second step of the login form is about.                    *)
(***************************************************************************)
EXTENDS Session, FiniteSetTheorems, SequenceTheorems, TLAPS

-----------------------------------------------------------------------------
(* Types *)

TypeInv == StateInv /\ SignInv

\* A new login call, and the end of one.
LEMMA CallTypes ==
  /\ NoLogin \in LoginState
  /\ \A m \in Mobiles \cup {None}, kind \in {"otp", "verify"} :
       [NoLogin EXCEPT !.pc = "sent", !.kind = kind, !.mobile = m, !.owned = TRUE]
         \in LoginState
BY DEF NoLogin, LoginState

\* What the pages do to the form keeps its type, and no call is signed by it.
LEMMA FormTyped ==
  ASSUME TypeInv, LoginForm
  PROVE  TypeInv'
<1> USE SessionAssumption DEF TypeInv, StateInv, serverVars
<1>f. Fresh("modal") \in FormState /\ Fresh("page") \in FormState
  BY DEF Fresh, FormState
<1>1. ASSUME form' \in FormState, login' = login, UNCHANGED serverVars PROVE TypeInv'
  BY <1>1 DEF SignInv
<1>2. CASE OpenModal \/ CloseModal \/ OpenLoginPage
  <2>1. CASE OpenModal \/ OpenLoginPage
    <3>1. form' = [form EXCEPT !.open = TRUE]
      BY <2>1 DEF OpenModal, OpenLoginPage
    <3>2. form' \in FormState
      BY <3>1 DEF FormState
    <3> QED BY <1>1, <2>1, <3>2 DEF OpenModal, OpenLoginPage
  <2>2. CASE CloseModal
    <3>1. form.loading \in BOOLEAN
      BY DEF FormState
    <3>2. form' = [Fresh("modal") EXCEPT !.loading = form.loading, !.moved = form.loading]
      BY <2>2 DEF CloseModal
    <3>3. form' \in FormState
      BY <1>f, <3>1, <3>2 DEF FormState
    <3> QED BY <1>1, <2>2, <3>3 DEF CloseModal
  <2> QED BY <1>2, <2>1, <2>2
<1>3. CASE LeaveLoginPage
  <2>1. ASSUME NEW q \in LoginCalls
        PROVE  /\ login'[q] \in LoginState
               /\ login'[q].pc = login[q].pc /\ login'[q].mobile = login[q].mobile
               /\ login'[q].role = login[q].role /\ login'[q].changed = login[q].changed
    <3>1. login[q] \in LoginState
      OBVIOUS
    <3>2. login'[q] = [login[q] EXCEPT !.owned = FALSE]
      BY <1>3 DEF LeaveLoginPage
    <3> QED BY <3>1, <3>2 DEF LoginState
  <2>2. login' \in [LoginCalls -> LoginState]
    BY <1>3, <2>1 DEF LeaveLoginPage
  <2>3. SignInv'
    BY <1>3, <2>1 DEF LeaveLoginPage, SignInv
  <2> QED BY <1>3, <1>f, <2>2, <2>3 DEF LeaveLoginPage
<1>4. ASSUME NEW m \in Mobiles, TypeMobile(m) PROVE TypeInv'
  <2>1. form' \in FormState
    BY <1>4 DEF TypeMobile, FormState
  <2> QED BY <1>1, <1>4, <2>1 DEF TypeMobile
<1>5. ASSUME NEW q \in LoginCalls, SubmitPhone(q) \/ SubmitCode(q) PROVE TypeInv'
  <2>1. form' \in FormState
    BY <1>5 DEF SubmitPhone, SubmitCode, FormState
  <2>2. PICK kind \in {"otp", "verify"} : Send(q, kind)
    BY <1>5 DEF SubmitPhone, SubmitCode
  <2> DEFINE new == [NoLogin EXCEPT
       !.pc = "sent", !.kind = kind, !.mobile = form.mobile, !.owned = TRUE]
  <2>3. form.mobile \in Mobiles \cup {None}
    BY DEF FormState
  <2>4. new \in LoginState /\ new.pc = "sent"
    BY <2>3, CallTypes DEF NoLogin
  <2>5. login' = [login EXCEPT ![q] = new] /\ UNCHANGED serverVars
    BY <2>2 DEF Send
  <2> HIDE DEF new
  <2>6. login' \in [LoginCalls -> LoginState]
    BY <2>4, <2>5
  <2>7. SignInv'
    BY <2>4, <2>5 DEF SignInv
  <2> QED BY <2>1, <2>5, <2>6, <2>7
<1> QED
  BY <1>2, <1>3, <1>4, <1>5 DEF LoginForm, LoginModal, LoginPage, LoginSteps

\* What the server and the answers do to a login call.
LEMMA CallTyped ==
  ASSUME TypeInv, NEW q \in LoginCalls, LoginCall(q)
  PROVE  TypeInv'
<1> USE SessionAssumption DEF TypeInv, StateInv, serverVars
<1>q. login[q] \in LoginState
  OBVIOUS
<1>m. ASSUME NEW new \in LoginState, login' = [login EXCEPT ![q] = new],
             new.pc = "sign" =>
               /\ new.mobile \in Mobiles
               /\ new.role \in Roles
               /\ ~ new.changed => new.role = account[new.mobile],
             account' = account
      PROVE  login' \in [LoginCalls -> LoginState] /\ SignInv'
  BY <1>m DEF SignInv
<1>1. CASE ServeOtp(q)
  <2> DEFINE new == [login[q] EXCEPT !.pc = "ok"]
  <2>1. new \in LoginState /\ new.pc = "ok"
    BY <1>q DEF LoginState
  <2>2. login' = [login EXCEPT ![q] = new] /\ account' = account
        /\ codes' \subseteq Mobiles /\ UNCHANGED <<tokens, form>>
    BY <1>1, <1>q DEF ServeOtp, LoginState
  <2> HIDE DEF new
  <2> QED BY <1>m, <2>1, <2>2
<1>2. CASE FindUser(q)
  <2>1. login[q].mobile \in Mobiles /\ account[login[q].mobile] \in Roles \cup {"inactive"}
    BY <1>2 DEF FindUser
  <2>2. UNCHANGED <<account, tokens, form>> /\ codes' \subseteq Mobiles
    BY <1>2 DEF FindUser
  <2>3. CASE account[login[q].mobile] # "inactive"
    <3> DEFINE new == [login[q] EXCEPT !.pc = "sign", !.role = account[login[q].mobile]]
    <3>1. new \in LoginState
      BY <1>q, <2>1, <2>3 DEF LoginState
    <3>2. new.mobile = login[q].mobile /\ new.role = account[login[q].mobile]
      BY <1>q DEF LoginState
    <3>3. login' = [login EXCEPT ![q] = new]
      BY <1>2, <2>3 DEF FindUser
    <3> HIDE DEF new
    <3> QED BY <1>m, <2>1, <2>2, <2>3, <3>1, <3>2, <3>3
  <2>4. CASE account[login[q].mobile] = "inactive"
    <3> DEFINE new == [login[q] EXCEPT !.pc = "failed"]
    <3>1. new \in LoginState /\ new.pc = "failed"
      BY <1>q DEF LoginState
    <3>2. login' = [login EXCEPT ![q] = new]
      BY <1>2, <2>4 DEF FindUser
    <3> HIDE DEF new
    <3> QED BY <1>m, <2>2, <3>1, <3>2
  <2> QED BY <2>3, <2>4
<1>3. CASE SignToken(q)
  <2>1. login[q].mobile \in Mobiles /\ login[q].role \in Roles
    BY <1>3 DEF SignToken, SignInv
  <2>2. [mobile |-> login[q].mobile, role |-> login[q].role, expired |-> FALSE] \in TokenState
    BY <2>1 DEF TokenState
  <2>3. tokens' \in Seq(TokenState)
    BY <1>3, <2>2 DEF SignToken
  <2> DEFINE new == [login[q] EXCEPT !.pc = "ok", !.token = Len(tokens) + 1]
  <2>6. Len(tokens) + 1 \in Nat
    <3>1. Len(tokens) \in Nat
      OBVIOUS
    <3> QED BY <3>1
  <2>4. new \in LoginState /\ new.pc = "ok"
    BY <1>q, <2>6 DEF LoginState
  <2>5. login' = [login EXCEPT ![q] = new] /\ UNCHANGED <<account, codes, form>>
    BY <1>3 DEF SignToken
  <2> HIDE DEF new
  <2> QED BY <1>m, <2>3, <2>4, <2>5
<1>4. CASE AnswerOtp(q) \/ AnswerVerify(q) \/ AnswerFailed(q)
  <2>1. form' \in FormState
    <3>1. form \in FormState /\ login[q].mobile \in Mobiles \cup {None}
      BY <1>q DEF LoginState
    <3>2. CASE AnswerOtp(q)
      BY <3>1, <3>2 DEF AnswerOtp, FormState
    <3>3. CASE AnswerVerify(q)
      <4>1. \/ form' = form
            \/ form' = Fresh("page")
            \/ form' = [form EXCEPT !.step = "success", !.loading = FALSE,
                                    !.codeFor = None, !.moved = FALSE]
        BY <3>3 DEF AnswerVerify
      <4>2. Fresh("page") \in FormState
        BY DEF Fresh, FormState
      <4>3. [form EXCEPT !.step = "success", !.loading = FALSE,
                         !.codeFor = None, !.moved = FALSE] \in FormState
        BY <3>1 DEF FormState
      <4> QED BY <3>1, <4>1, <4>2, <4>3
    <3>4. CASE AnswerFailed(q)
      <4> DEFINE moved == form.moved /\ form.step = "code"
      <4>1. form' = form \/ form' = [form EXCEPT !.loading = FALSE, !.moved = moved]
        BY <3>4 DEF AnswerFailed
      <4>2. moved \in BOOLEAN
        OBVIOUS
      <4> HIDE DEF moved
      <4> QED BY <3>1, <4>1, <4>2 DEF FormState
    <3> QED BY <1>4, <3>2, <3>3, <3>4
  <2>2. login' = [login EXCEPT ![q] = NoLogin] /\ UNCHANGED serverVars
    BY <1>4 DEF AnswerOtp, AnswerVerify, AnswerFailed, Over
  <2>3. NoLogin.pc = "idle"
    BY DEF NoLogin
  <2> QED BY <1>m, <2>1, <2>2, <2>3, CallTypes
<1> QED
  BY <1>1, <1>2, <1>3, <1>4 DEF LoginCall

LEMMA TypedInitially == SessionInit => TypeInv
<1> SUFFICES ASSUME SessionInit PROVE TypeInv
  OBVIOUS
<1>1. \A kind \in {"modal", "page"} : Fresh(kind) \in FormState
  BY DEF Fresh, FormState
<1>2. form \in FormState
  BY <1>1 DEF SessionInit
<1>3. login \in [LoginCalls -> LoginState]
  BY CallTypes DEF SessionInit
<1>4. account \in [Mobiles -> Roles \cup {"inactive"}] /\ codes \subseteq Mobiles
  BY DEF SessionInit
<1>5. tokens \in Seq(TokenState)
  BY DEF SessionInit
<1>6. SignInv
  BY DEF SessionInit, SignInv, NoLogin
<1> QED BY <1>2, <1>3, <1>4, <1>5, <1>6 DEF TypeInv, StateInv

LEMMA TypedKept ==
  ASSUME TypeInv, [SessionNext]_sessionVars
  PROVE  TypeInv'
<1>u. ASSUME UNCHANGED <<serverVars, form, login>> PROVE TypeInv'
  BY <1>u DEF TypeInv, StateInv, SignInv, serverVars
<1>1. ASSUME NEW m \in Mobiles, NEW row \in Roles \cup {"inactive"}, ChangeAccount(m, row)
      PROVE  TypeInv'
  <2>1. /\ account' = [account EXCEPT ![m] = row]
        /\ UNCHANGED <<codes, tokens, form>>
    BY <1>1 DEF ChangeAccount
  <2>2. ASSUME NEW q \in LoginCalls
        PROVE  /\ login'[q] \in LoginState
               /\ login'[q].pc = login[q].pc
               /\ login'[q].mobile = login[q].mobile
               /\ login'[q].role = login[q].role
               /\ ~ login'[q].changed /\ login[q].pc = "sign" =>
                    ~ login[q].changed /\ login[q].mobile # m
    <3>1. login[q] \in LoginState
      BY DEF TypeInv, StateInv
    <3>2. login'[q] = IF login[q].pc = "sign" /\ login[q].mobile = m
                      THEN [login[q] EXCEPT !.changed = TRUE] ELSE login[q]
      BY <1>1 DEF ChangeAccount
    <3> QED BY <3>1, <3>2 DEF LoginState
  <2>3. login' \in [LoginCalls -> LoginState]
    BY <1>1, <2>2 DEF ChangeAccount
  <2>4. account' \in [Mobiles -> Roles \cup {"inactive"}]
    BY <2>1 DEF TypeInv, StateInv
  <2>5. SignInv'
    BY <2>1, <2>2 DEF TypeInv, StateInv, SignInv
  <2> QED BY <2>1, <2>3, <2>4, <2>5 DEF TypeInv, StateInv
<1>2. ASSUME NEW t \in DOMAIN tokens, Expire(t) PROVE TypeInv'
  <2>1. tokens \in Seq(TokenState) /\ tokens[t] \in TokenState
    BY DEF TypeInv, StateInv
  <2>2. [tokens[t] EXCEPT !.expired = TRUE] \in TokenState
    BY <2>1 DEF TokenState
  <2>3. tokens' = [tokens EXCEPT ![t] = [tokens[t] EXCEPT !.expired = TRUE]]
    BY <1>2 DEF Expire
  <2>4. tokens' \in Seq(TokenState)
    BY <2>1, <2>2, <2>3
  <2> QED BY <1>2, <2>4 DEF Expire, TypeInv, StateInv, SignInv
<1>3. CASE PanelStep \/ CookieEnds
  BY <1>3, <1>u DEF PanelStep, EnterPanel, LeavePanel, CallApi,
     Refuse401, AnswerRefused, ServeApi, Logout, CookieEnds
<1>4. CASE UNCHANGED sessionVars
  BY <1>4, <1>u DEF sessionVars, serverVars
<1> QED
  BY <1>1, <1>2, <1>3, <1>4, FormTyped, CallTyped DEF SessionNext

\* Accounts, codes, tokens, forms and calls keep their types, and a token about
\* to be signed says what its row says unless the row was changed meanwhile.
LEMMA SessionTyped == SessionSpec => []TypeInv
<1>1. TypeInv /\ [SessionNext]_sessionVars => TypeInv'
  BY TypedKept
<1> QED BY TypedInitially, <1>1, PTL DEF SessionSpec

-----------------------------------------------------------------------------
(* Tokens *)

\* The guards are right about every token except those whose account was
\* changed after verifyOtp read it: its role is the row's, the account active.
THEOREM TokensAreRight == SessionSpec => []TokensAreTrue
<1>1. SessionInit => TokensAreTrue
  BY DEF SessionInit, TokensAreTrue
<1>2. TypeInv /\ TokensAreTrue /\ [SessionNext]_sessionVars => TokensAreTrue'
  <2> SUFFICES ASSUME TypeInv, TokensAreTrue, [SessionNext]_sessionVars
               PROVE  TokensAreTrue'
    OBVIOUS
  <2>t. tokens \in Seq(TokenState) /\ account \in [Mobiles -> Roles \cup {"inactive"}]
    BY DEF TypeInv, StateInv
  <2>u. ASSUME UNCHANGED <<tokens, account, outdated>> PROVE TokensAreTrue'
    BY <2>u DEF TokensAreTrue
  <2>1. ASSUME NEW q \in LoginCalls, SignToken(q) PROVE TokensAreTrue'
    <3> DEFINE new == [mobile |-> login[q].mobile, role |-> login[q].role, expired |-> FALSE]
    <3>1. /\ login[q].mobile \in Mobiles /\ login[q].role \in Roles
          /\ ~ login[q].changed => login[q].role = account[login[q].mobile]
      BY <2>1 DEF SignToken, TypeInv, SignInv
    <3>2. new \in TokenState
      BY <3>1 DEF TokenState
    <3>3. tokens' = Append(tokens, new) /\ account' = account
      BY <2>1 DEF SignToken
    <3>4. /\ DOMAIN tokens' = DOMAIN tokens \cup {Len(tokens) + 1}
          /\ tokens'[Len(tokens) + 1] = new
          /\ \A t \in DOMAIN tokens : tokens'[t] = tokens[t]
      <4> HIDE DEF new
      <4> QED BY <2>t, <3>2, <3>3
    <3>5. ASSUME NEW t \in DOMAIN tokens' \ outdated'
          PROVE  tokens'[t].role = account'[tokens'[t].mobile]
      <4>1. CASE t = Len(tokens) + 1
        <5>1. ~ login[q].changed
          BY <2>1, <3>5, <4>1 DEF SignToken
        <5>2. tokens'[t] = new
          BY <3>4, <4>1
        <5> QED BY <3>1, <3>3, <5>1, <5>2
      <4>2. CASE t # Len(tokens) + 1
        <5>1. t \in DOMAIN tokens \ outdated
          BY <2>1, <3>4, <3>5, <4>2 DEF SignToken
        <5>2. tokens'[t] = tokens[t]
          BY <3>4, <5>1
        <5> QED BY <3>3, <5>1, <5>2 DEF TokensAreTrue
      <4> QED BY <4>1, <4>2
    <3> QED BY <3>5 DEF TokensAreTrue
  <2>2. ASSUME NEW m \in Mobiles, NEW row \in Roles \cup {"inactive"}, ChangeAccount(m, row)
        PROVE  TokensAreTrue'
    <3>1. /\ account' = [account EXCEPT ![m] = row] /\ tokens' = tokens
          /\ outdated' = outdated \cup {t \in DOMAIN tokens : tokens[t].mobile = m}
      BY <2>2 DEF ChangeAccount
    <3> QED BY <2>t, <3>1 DEF TokensAreTrue
  <2>3. ASSUME NEW t \in DOMAIN tokens, Expire(t) PROVE TokensAreTrue'
    <3>1. /\ tokens' = [tokens EXCEPT ![t] = [tokens[t] EXCEPT !.expired = TRUE]]
          /\ UNCHANGED <<account, outdated>>
      BY <2>3 DEF Expire
    <3>2. tokens[t] \in TokenState
      BY <2>t
    <3>3. DOMAIN tokens' = DOMAIN tokens
      BY <2>t, <3>1
    <3>4. \A u \in DOMAIN tokens : tokens'[u].role = tokens[u].role
                                   /\ tokens'[u].mobile = tokens[u].mobile
      BY <2>t, <3>1, <3>2 DEF TokenState
    <3> QED BY <3>1, <3>3, <3>4 DEF TokensAreTrue
  <2>4. CASE LoginForm \/ PanelStep \/ CookieEnds \/ UNCHANGED sessionVars
    <3>1. UNCHANGED <<tokens, account, outdated>>
      BY <2>4 DEF LoginForm, LoginModal, LoginPage, LoginSteps,
               OpenModal, CloseModal, OpenLoginPage, LeaveLoginPage,
               TypeMobile, SubmitPhone, SubmitCode, Send, PanelStep, EnterPanel,
               LeavePanel, CallApi, Refuse401, AnswerRefused, ServeApi, Logout,
               CookieEnds, sessionVars, serverVars
    <3> QED BY <2>u, <3>1
  <2>5. ASSUME NEW q \in LoginCalls, LoginCall(q), ~ SignToken(q) PROVE TokensAreTrue'
    <3>1. UNCHANGED <<tokens, account, outdated>>
      BY <2>5 DEF LoginCall, ServeOtp, FindUser, AnswerOtp, AnswerVerify, AnswerFailed,
         serverVars
    <3> QED BY <2>u, <3>1
  <2> QED
    BY <2>1, <2>2, <2>3, <2>4, <2>5 DEF SessionNext
<1> QED
  BY <1>1, <1>2, SessionTyped, PTL DEF SessionSpec

-----------------------------------------------------------------------------
(* The second step of the login form *)

LEMMA WaitInitially == SessionInit => WaitInv /\ CodeStepNamesNumber
BY DEF SessionInit, WaitInv, CodeStepNamesNumber, Fresh, NoLogin

LEMMA WaitKept ==
  ASSUME TypeInv, WaitInv, CodeStepNamesNumber, [SessionNext]_sessionVars
  PROVE  WaitInv' /\ CodeStepNamesNumber'
<1> DEFINE Aim == WaitInv' /\ CodeStepNamesNumber'
<1>t. form \in FormState /\ login \in [LoginCalls -> LoginState]
  BY DEF TypeInv, StateInv
<1>q. \A q \in LoginCalls : login[q] \in LoginState
  BY <1>t
<1>u. ASSUME UNCHANGED <<form, login>> PROVE Aim
  BY <1>u DEF WaitInv, CodeStepNamesNumber
<1>1. CASE OpenModal \/ OpenLoginPage
  <2>1. form' = [form EXCEPT !.open = TRUE] /\ login' = login
    BY <1>1 DEF OpenModal, OpenLoginPage
  <2> QED BY <1>t, <2>1 DEF WaitInv, CodeStepNamesNumber, FormState
<1>2. CASE CloseModal
  <2>1. form' = [Fresh("modal") EXCEPT !.loading = form.loading, !.moved = form.loading]
        /\ login' = login
    BY <1>2 DEF CloseModal
  <2>2. form'.step = "phone" /\ form'.loading = form.loading /\ form'.moved = form.loading
    BY <2>1 DEF Fresh
  <2> QED BY <2>1, <2>2 DEF WaitInv, CodeStepNamesNumber
<1>3. CASE LeaveLoginPage
  <2>1. \A q \in LoginCalls : login'[q].owned = FALSE
    BY <1>3, <1>q DEF LeaveLoginPage, LoginState
  <2>2. form'.step = "phone"
    BY <1>3 DEF LeaveLoginPage, Fresh
  <2> QED BY <2>1, <2>2 DEF WaitInv, CodeStepNamesNumber
<1>4. ASSUME NEW m \in Mobiles, TypeMobile(m) PROVE Aim
  <2>1. form' = [form EXCEPT !.mobile = m, !.moved = form.loading] /\ login' = login
        /\ form.step = "phone"
    BY <1>4 DEF TypeMobile
  <2>2. form'.step = "phone" /\ form'.loading = form.loading /\ form'.moved = form.loading
    BY <1>t, <2>1 DEF FormState
  <2> QED BY <2>1, <2>2 DEF WaitInv, CodeStepNamesNumber
<1>n. ASSUME NEW q \in LoginCalls, NEW kind \in {"otp", "verify"}, Send(q, kind)
      PROVE  /\ login'[q].owned /\ login'[q].mobile = form.mobile
             /\ \A p \in LoginCalls : p # q => login'[p] = login[p] /\ ~ login[p].owned
             /\ login'[q].kind = kind
  <2>1. login' = [login EXCEPT ![q] = [NoLogin EXCEPT
          !.pc = "sent", !.kind = kind, !.mobile = form.mobile, !.owned = TRUE]]
        /\ ~ form.loading
    BY <1>n DEF Send
  <2> QED BY <1>t, <2>1 DEF WaitInv, NoLogin
<1>5. ASSUME NEW q \in LoginCalls, SubmitPhone(q) PROVE Aim
  <2>1. Send(q, "otp") /\ form' = [form EXCEPT !.loading = TRUE, !.moved = FALSE]
        /\ form.step = "phone"
    BY <1>5 DEF SubmitPhone
  <2>2. form'.step = "phone" /\ form'.loading /\ form'.mobile = form.mobile
    BY <1>t, <2>1 DEF FormState
  <2> QED BY <1>n, <2>1, <2>2 DEF WaitInv, CodeStepNamesNumber
<1>6. ASSUME NEW q \in LoginCalls, SubmitCode(q) PROVE Aim
  <2>1. Send(q, "verify") /\ form' = [form EXCEPT !.loading = TRUE]
    BY <1>6 DEF SubmitCode
  <2>2. /\ form'.step = form.step /\ form'.loading /\ form'.mobile = form.mobile
        /\ form'.moved = form.moved /\ form'.codeFor = form.codeFor
    BY <1>t, <2>1 DEF FormState
  <2> QED BY <1>n, <2>1, <2>2 DEF WaitInv, CodeStepNamesNumber
<1>7. ASSUME form' = form,
             \A q \in LoginCalls : /\ login'[q].owned = login[q].owned
                                   /\ login'[q].kind = login[q].kind
                                   /\ login'[q].mobile = login[q].mobile
      PROVE  Aim
  BY <1>7 DEF WaitInv, CodeStepNamesNumber
<1>8. ASSUME NEW q \in LoginCalls, ServeOtp(q) \/ FindUser(q) \/ SignToken(q) PROVE Aim
  <2>1. form' = form /\ \E p, r, t :
          \/ login' = [login EXCEPT ![q].pc = p]
          \/ login' = [login EXCEPT ![q].pc = p, ![q].role = r]
          \/ login' = [login EXCEPT ![q].pc = p, ![q].token = t]
    BY <1>8 DEF ServeOtp, FindUser, SignToken
  <2> QED BY <1>7, <1>t, <2>1 DEF LoginState
<1>9. ASSUME NEW m \in Mobiles, NEW row \in Roles \cup {"inactive"}, ChangeAccount(m, row)
      PROVE  Aim
  <2>1. ASSUME NEW q \in LoginCalls
        PROVE  login'[q] = login[q] \/ login'[q] = [login[q] EXCEPT !.changed = TRUE]
    BY <1>9 DEF ChangeAccount
  <2> QED BY <1>7, <1>9, <1>q, <2>1 DEF ChangeAccount, LoginState
<1>o. ASSUME NEW q \in LoginCalls, Over(q)
      PROVE  /\ ~ login'[q].owned
             /\ \A p \in LoginCalls : p # q => login'[p] = login[p]
  BY <1>o, <1>t DEF Over, NoLogin
<1>10. ASSUME NEW q \in LoginCalls, AnswerOtp(q) \/ AnswerVerify(q) \/ AnswerFailed(q),
              ~ login[q].owned
       PROVE  Aim
  <2>1. Over(q) /\ form' = form
    BY <1>10 DEF AnswerOtp, AnswerVerify, AnswerFailed
  <2> QED BY <1>o, <2>1 DEF WaitInv, CodeStepNamesNumber
<1>11. ASSUME NEW q \in LoginCalls, AnswerOtp(q) \/ AnswerVerify(q) \/ AnswerFailed(q),
              login[q].owned
       PROVE  Aim
  <2>1. \A p \in LoginCalls : ~ login'[p].owned
    BY <1>o, <1>11 DEF AnswerOtp, AnswerVerify, AnswerFailed, WaitInv
  <2>2. WaitInv'
    BY <2>1 DEF WaitInv
  <2>3. CodeStepNamesNumber'
    <3>1. CASE AnswerOtp(q)
      <4>1. form' = [form EXCEPT !.step = "code", !.loading = FALSE,
                                 !.codeFor = login[q].mobile]
            /\ login[q].kind = "otp"
        BY <1>11, <3>1 DEF AnswerOtp
      <4>2. form'.codeFor = login[q].mobile /\ form'.mobile = form.mobile
            /\ form'.moved = form.moved
        BY <1>t, <4>1 DEF FormState
      <4> QED BY <1>11, <4>1, <4>2 DEF WaitInv, CodeStepNamesNumber
    <3>2. CASE AnswerVerify(q)
      <4>1. form'.step \in {"phone", "success"}
        BY <1>11, <1>t, <3>2 DEF AnswerVerify, Fresh, FormState
      <4> QED BY <4>1 DEF CodeStepNamesNumber
    <3>3. CASE AnswerFailed(q)
      <4> DEFINE moved == form.moved /\ form.step = "code"
      <4>1. form' = [form EXCEPT !.loading = FALSE, !.moved = moved]
        BY <1>11, <3>3 DEF AnswerFailed
      <4>2. form'.step = form.step /\ form'.codeFor = form.codeFor
            /\ form'.mobile = form.mobile /\ form'.moved = moved
        <5> HIDE DEF moved
        <5> QED BY <1>t, <4>1 DEF FormState
      <4> QED BY <4>2 DEF CodeStepNamesNumber
    <3> QED BY <1>11, <3>1, <3>2, <3>3
  <2> QED BY <2>2, <2>3
<1>12. CASE PanelStep \/ CookieEnds
            \/ (\E t \in DOMAIN tokens : Expire(t)) \/ UNCHANGED sessionVars
  BY <1>12, <1>u DEF PanelStep, EnterPanel, LeavePanel, CallApi,
     Refuse401, AnswerRefused, ServeApi, Logout, CookieEnds,
     Expire, sessionVars
<1> QED
  <2>1. ASSUME LoginForm PROVE Aim
    BY <2>1, <1>1, <1>2, <1>3, <1>4, <1>5, <1>6 DEF LoginForm, LoginModal, LoginPage, LoginSteps
  <2>2. ASSUME NEW q \in LoginCalls, LoginCall(q) PROVE Aim
    BY <2>2, <1>8, <1>10, <1>11 DEF LoginCall
  <2> QED BY <2>1, <2>2, <1>9, <1>12 DEF SessionNext

\* The second step asks for the code sent to the number it names, unless the
\* number was edited or the form closed while that code was being requested.
THEOREM CodeStepIsAboutNumber == SessionSpec => []CodeStepNamesNumber
<1>1. TypeInv /\ WaitInv /\ CodeStepNamesNumber /\ [SessionNext]_sessionVars
        => WaitInv' /\ CodeStepNamesNumber'
  BY WaitKept
<1> QED BY WaitInitially, <1>1, SessionTyped, PTL DEF SessionSpec

-----------------------------------------------------------------------------
(* The button that waits, and the tokens that are named *)

\* A set whose elements are equal has one at most.
LEMMA AtMostOne ==
  ASSUME NEW S, \A x, y \in S : x = y
  PROVE  Cardinality(S) <= 1
<1>1. CASE S = {}
  BY <1>1, FS_EmptySet
<1>2. CASE S # {}
  <2>1. PICK x : S = {x}
    BY <1>2
  <2> QED BY <2>1, FS_Singleton
<1> QED BY <1>1, <1>2

\* A form that loads has a call of its own, and every call or token index names a
\* token that was signed.
SessionInv ==
  /\ TypeInv /\ WaitInv /\ CodeStepNamesNumber
  /\ LoadInv /\ IndexInv

LEMMA SessionInitially == SessionInit => SessionInv
<1> SUFFICES ASSUME SessionInit PROVE SessionInv
  OBVIOUS
<1>1. LoadInv
  BY DEF SessionInit, LoadInv, Fresh
<1>2. Len(tokens) = 0
  BY DEF SessionInit
<1>3. IndexInv
  BY <1>2, SessionAssumption DEF SessionInit, IndexInv, Indices, NoAct, NoLogin
<1> QED BY <1>1, <1>3, TypedInitially, WaitInitially DEF SessionInv

LEMMA LoadKept ==
  ASSUME TypeInv, WaitInv, LoadInv, [SessionNext]_sessionVars
  PROVE  LoadInv'
<1>t. /\ form \in FormState /\ login \in [LoginCalls -> LoginState]
      /\ \A q \in LoginCalls : login[q] \in LoginState
  BY DEF TypeInv, StateInv
<1>k. ASSUME form'.loading => form.loading,
             \A q \in LoginCalls : login'[q].owned = login[q].owned
      PROVE  LoadInv'
  BY <1>k DEF LoadInv
<1>f. ASSUME ~ form'.loading PROVE LoadInv'
  BY <1>f DEF LoadInv
<1>1. CASE LoginForm
  <2>1. CASE OpenModal \/ OpenLoginPage
    <3>1. form' = [form EXCEPT !.open = TRUE] /\ login' = login
      BY <2>1 DEF OpenModal, OpenLoginPage
    <3>2. form'.loading = form.loading
      BY <1>t, <3>1 DEF FormState
    <3> QED BY <1>k, <3>1, <3>2
  <2>2. CASE CloseModal
    <3>1. form' = [Fresh("modal") EXCEPT !.loading = form.loading, !.moved = form.loading]
          /\ login' = login
      BY <2>2 DEF CloseModal
    <3>2. form'.loading = form.loading
      BY <3>1 DEF Fresh
    <3> QED BY <1>k, <3>1, <3>2
  <2>3. CASE LeaveLoginPage
    <3>1. ~ form'.loading
      BY <2>3 DEF LeaveLoginPage, Fresh
    <3> QED BY <1>f, <3>1
  <2>4. ASSUME NEW m \in Mobiles, TypeMobile(m) PROVE LoadInv'
    <3>1. form' = [form EXCEPT !.mobile = m, !.moved = form.loading] /\ login' = login
      BY <2>4 DEF TypeMobile
    <3>2. form'.loading = form.loading
      BY <1>t, <3>1 DEF FormState
    <3> QED BY <1>k, <3>1, <3>2
  <2>5. ASSUME NEW q \in LoginCalls, SubmitPhone(q) \/ SubmitCode(q) PROVE LoadInv'
    <3>1. \E kind : Send(q, kind)
      BY <2>5 DEF SubmitPhone, SubmitCode
    <3>2. login'[q].owned
      BY <1>t, <3>1 DEF Send, NoLogin
    <3> QED BY <3>2 DEF LoadInv
  <2> QED BY <1>1, <2>1, <2>2, <2>3, <2>4, <2>5 DEF LoginForm, LoginModal, LoginPage, LoginSteps
<1>2. ASSUME NEW q \in LoginCalls, ServeOtp(q) \/ FindUser(q) \/ SignToken(q) PROVE LoadInv'
  <2>1. form' = form /\ \E p, r, t :
          \/ login' = [login EXCEPT ![q].pc = p]
          \/ login' = [login EXCEPT ![q].pc = p, ![q].role = r]
          \/ login' = [login EXCEPT ![q].pc = p, ![q].token = t]
    BY <1>2 DEF ServeOtp, FindUser, SignToken
  <2>2. \A p \in LoginCalls : login'[p].owned = login[p].owned
    BY <1>t, <2>1 DEF LoginState
  <2> QED BY <1>k, <2>1, <2>2
<1>3. ASSUME NEW q \in LoginCalls, AnswerOtp(q) \/ AnswerVerify(q) \/ AnswerFailed(q)
      PROVE  LoadInv'
  <2>1. /\ login' = [login EXCEPT ![q] = NoLogin]
    BY <1>3 DEF AnswerOtp, AnswerVerify, AnswerFailed, Over
  <2>2. CASE ~ login[q].owned
    <3>1. form' = form
      BY <1>3, <2>2 DEF AnswerOtp, AnswerVerify, AnswerFailed
    <3>2. \A p \in LoginCalls : login'[p].owned = login[p].owned
      BY <1>t, <2>1, <2>2 DEF NoLogin, LoginState
    <3> QED BY <1>k, <3>1, <3>2
  <2>3. CASE login[q].owned
    <3>1. CASE AnswerOtp(q)
      <4>1. form' = [form EXCEPT !.step = "code", !.loading = FALSE, !.codeFor = login[q].mobile]
        BY <2>3, <3>1 DEF AnswerOtp
      <4> QED BY <1>f, <1>t, <4>1 DEF FormState
    <3>2. CASE AnswerVerify(q)
      <4>1. ~ form'.loading
        BY <1>t, <2>3, <3>2 DEF AnswerVerify, Fresh, FormState
      <4> QED BY <1>f, <4>1
    <3>3. CASE AnswerFailed(q)
      <4> DEFINE moved == form.moved /\ form.step = "code"
      <4>1. form' = [form EXCEPT !.loading = FALSE, !.moved = moved]
        BY <2>3, <3>3 DEF AnswerFailed
      <4>2. ~ form'.loading
        <5> HIDE DEF moved
        <5> QED BY <1>t, <4>1 DEF FormState
      <4> QED BY <1>f, <4>2
    <3> QED BY <1>3, <3>1, <3>2, <3>3
  <2> QED BY <2>2, <2>3
<1>4. ASSUME NEW m \in Mobiles, NEW row \in Roles \cup {"inactive"}, ChangeAccount(m, row)
      PROVE  LoadInv'
  <2>1. ASSUME NEW q \in LoginCalls
        PROVE  login'[q] = login[q] \/ login'[q] = [login[q] EXCEPT !.changed = TRUE]
    BY <1>4 DEF ChangeAccount
  <2>2. \A q \in LoginCalls : login'[q].owned = login[q].owned
    BY <1>t, <2>1 DEF LoginState
  <2> QED BY <1>4, <1>k, <2>2 DEF ChangeAccount
<1>5. CASE PanelStep \/ CookieEnds
            \/ (\E t \in DOMAIN tokens : Expire(t)) \/ UNCHANGED sessionVars
  BY <1>5, <1>k DEF PanelStep, EnterPanel, LeavePanel, CallApi,
     Refuse401, AnswerRefused, ServeApi, Logout, CookieEnds,
     Expire, sessionVars
<1> QED BY <1>1, <1>2, <1>3, <1>4, <1>5 DEF SessionNext, LoginCall

LEMMA IndexKept ==
  ASSUME TypeInv, IndexInv, [SessionNext]_sessionVars
  PROVE  IndexInv'
<1>t. /\ tokens \in Seq(TokenState) /\ login \in [LoginCalls -> LoginState]
      /\ \A q \in LoginCalls : login[q] \in LoginState
      /\ Len(tokens) \in Nat /\ DOMAIN tokens = 1 .. Len(tokens)
  BY LenProperties DEF TypeInv, StateInv
<1>i. /\ Len(tokens) <= MaxTokens /\ cookie \in Indices
      /\ \A q \in LoginCalls : login[q].token \in Indices
      /\ act \in [open : BOOLEAN, pc : {"idle", "sent", "refused"}, token : Indices]
      /\ outdated \subseteq DOMAIN tokens
  BY DEF IndexInv
<1>z. 0 \in Indices /\ NoAct \in [open : BOOLEAN, pc : {"idle", "sent", "refused"}, token : Indices]
      /\ NoLogin.token = 0
  BY <1>t DEF Indices, NoAct, NoLogin
\* Most steps sign no token.
<1>k. ASSUME Len(tokens') = Len(tokens), DOMAIN tokens' = DOMAIN tokens, cookie' \in Indices,
             \A q \in LoginCalls : login'[q].token \in Indices,
             act' \in [open : BOOLEAN, pc : {"idle", "sent", "refused"}, token : Indices],
             outdated' \subseteq DOMAIN tokens
      PROVE  IndexInv'
  <2>1. Indices' = Indices
    BY <1>k DEF Indices
  <2> QED BY <1>i, <1>k, <2>1 DEF IndexInv
<1>1. CASE LoginForm
  <2>1. UNCHANGED <<tokens, outdated, cookie, act>>
    BY <1>1 DEF LoginForm, LoginModal, LoginPage, LoginSteps, OpenModal, CloseModal,
       OpenLoginPage, LeaveLoginPage, TypeMobile,
       SubmitPhone, SubmitCode, Send, serverVars
  <2>2. \A q \in LoginCalls : login'[q].token \in Indices
    <3>1. CASE login' = login
      BY <1>i, <3>1
    <3>2. CASE LeaveLoginPage
      <4>1. \A q \in LoginCalls : login'[q] = [login[q] EXCEPT !.owned = FALSE]
        BY <3>2 DEF LeaveLoginPage
      <4>2. \A q \in LoginCalls : login'[q].token = login[q].token
        BY <1>t, <4>1 DEF LoginState
      <4> QED BY <1>i, <4>2
    <3>3. ASSUME NEW q \in LoginCalls, NEW kind, Send(q, kind)
          PROVE  \A p \in LoginCalls : login'[p].token \in Indices
      <4>1. \A p \in LoginCalls : login'[p] = login[p] \/ login'[p].token = 0
        BY <1>t, <3>3 DEF Send, NoLogin
      <4> QED BY <1>i, <1>z, <4>1
    <3> QED BY <1>1, <3>1, <3>2, <3>3 DEF LoginForm, LoginModal, LoginPage, LoginSteps,
               OpenModal, CloseModal, OpenLoginPage,
               TypeMobile, SubmitPhone, SubmitCode
  <2> QED BY <1>i, <1>k, <2>1, <2>2
<1>2. ASSUME NEW q \in LoginCalls, ServeOtp(q) \/ FindUser(q) PROVE IndexInv'
  <2>1. ASSUME NEW pc, login' = [login EXCEPT ![q].pc = pc]
        PROVE  \A p \in LoginCalls : login'[p].token = login[p].token
    BY <1>t, <2>1 DEF LoginState
  <2>2. ASSUME NEW pc, NEW role, login' = [login EXCEPT ![q].pc = pc, ![q].role = role]
        PROVE  \A p \in LoginCalls : login'[p].token = login[p].token
    BY <1>t, <2>2 DEF LoginState
  <2>s. \A p \in LoginCalls : login'[p].token = login[p].token
    BY <1>2, <2>1, <2>2 DEF ServeOtp, FindUser
  <2>3. \A p \in LoginCalls : login'[p].token \in Indices
    BY <1>i, <2>s
  <2>4. UNCHANGED <<tokens, outdated, cookie, act>>
    BY <1>2 DEF ServeOtp, FindUser
  <2> QED BY <1>i, <1>k, <2>3, <2>4
<1>3. ASSUME NEW q \in LoginCalls, SignToken(q) PROVE IndexInv'
  <2> DEFINE new == [mobile |-> login[q].mobile, role |-> login[q].role, expired |-> FALSE]
             n == Len(tokens)
  <2>1. new \in TokenState
    BY <1>3 DEF SignToken, TypeInv, SignInv, TokenState
  <2>2. tokens' = Append(tokens, new) /\ n < MaxTokens /\ cookie' = cookie /\ act' = act
        /\ login' = [login EXCEPT ![q].pc = "ok", ![q].token = n + 1]
        /\ outdated' \subseteq outdated \cup {n + 1}
    BY <1>3 DEF SignToken
  <2>3. Len(tokens') = n + 1 /\ DOMAIN tokens' = 1 .. n + 1
    <3> HIDE DEF new
    <3> QED BY <1>t, <2>1, <2>2
  <2>n. n \in Nat /\ DOMAIN tokens = 1 .. n /\ Indices = 0 .. n
    BY <1>t DEF Indices
  <2>4. Indices' = 0 .. n + 1
    BY <2>3 DEF Indices
  <2> HIDE DEF n
  <2>5. Indices \subseteq Indices' /\ n + 1 \in Indices' /\ n + 1 \in DOMAIN tokens'
        /\ DOMAIN tokens \subseteq DOMAIN tokens' /\ n + 1 <= MaxTokens
    BY <2>2, <2>3, <2>4, <2>n, SessionAssumption
  <2>6. \A p \in LoginCalls : login'[p].token \in Indices'
    <3>1. \A p \in LoginCalls : login'[p].token = login[p].token \/ login'[p].token = n + 1
      BY <1>t, <2>2 DEF LoginState
    <3> QED BY <1>i, <2>5, <3>1
  <2> QED BY <1>i, <2>2, <2>3, <2>5, <2>6 DEF IndexInv
<1>4. ASSUME NEW q \in LoginCalls, AnswerOtp(q) \/ AnswerVerify(q) \/ AnswerFailed(q)
      PROVE  IndexInv'
  <2>1. /\ UNCHANGED <<tokens, outdated, act>>
        /\ cookie' = cookie \/ cookie' = login[q].token
        /\ login' = [login EXCEPT ![q] = NoLogin]
    BY <1>4 DEF AnswerOtp, AnswerVerify, AnswerFailed, Over, serverVars
  <2>2. \A p \in LoginCalls : login'[p] = login[p] \/ login'[p].token = 0
    BY <1>t, <1>z, <2>1
  <2> QED BY <1>i, <1>k, <1>z, <2>1, <2>2
<1>5. ASSUME NEW m \in Mobiles, NEW row \in Roles \cup {"inactive"}, ChangeAccount(m, row)
      PROVE  IndexInv'
  <2>1. ASSUME NEW q \in LoginCalls
        PROVE  login'[q] = login[q] \/ login'[q] = [login[q] EXCEPT !.changed = TRUE]
    BY <1>5 DEF ChangeAccount
  <2>2. \A q \in LoginCalls : login'[q].token = login[q].token
    BY <1>t, <2>1 DEF LoginState
  <2>3. /\ UNCHANGED <<tokens, cookie, act>>
        /\ outdated' \subseteq outdated \cup DOMAIN tokens
    BY <1>5 DEF ChangeAccount
  <2> QED BY <1>i, <1>k, <2>2, <2>3
<1>6. ASSUME NEW t \in DOMAIN tokens, Expire(t) PROVE IndexInv'
  <2>1. /\ tokens' = [tokens EXCEPT ![t] = [tokens[t] EXCEPT !.expired = TRUE]]
        /\ UNCHANGED <<outdated, cookie, login, act>>
    BY <1>6 DEF Expire
  <2>2. tokens[t] \in TokenState
    BY <1>t
  <2>3. [tokens[t] EXCEPT !.expired = TRUE] \in TokenState
    BY <2>2 DEF TokenState
  <2>4. Len(tokens') = Len(tokens) /\ DOMAIN tokens' = DOMAIN tokens
    BY <1>t, <2>1, <2>3
  <2> QED BY <1>i, <1>k, <2>1, <2>4
<1>7. CASE CallApi
  <2>1. UNCHANGED <<tokens, outdated, cookie, login>>
        /\ act' = [act EXCEPT !.pc = "sent", !.token = cookie]
    BY <1>7 DEF CallApi, serverVars
  <2> QED BY <1>i, <1>k, <2>1
<1>8. CASE Refuse401
  <2>1. UNCHANGED <<tokens, outdated, cookie, login>> /\ act' = [act EXCEPT !.pc = "refused"]
    BY <1>8 DEF Refuse401, serverVars
  <2> QED BY <1>i, <1>k, <2>1
<1>9. CASE \/ EnterPanel \/ LeavePanel \/ AnswerRefused \/ ServeApi
           \/ Logout \/ CookieEnds \/ UNCHANGED sessionVars
  <2>1. /\ UNCHANGED <<tokens, outdated, login>>
        /\ cookie' = cookie \/ cookie' = 0
        /\ \/ act' = act
           \/ \E b \in BOOLEAN : act' = [act EXCEPT !.open = b]
           \/ act' = [act EXCEPT !.pc = "idle", !.token = 0]
    BY <1>9 DEF EnterPanel, LeavePanel, AnswerRefused, ServeApi, Logout, CookieEnds,
       sessionVars, serverVars
  <2> QED BY <1>i, <1>k, <1>z, <2>1
<1> QED BY <1>1, <1>2, <1>3, <1>4, <1>5, <1>6, <1>7, <1>8, <1>9
    DEF SessionNext, LoginCall, PanelStep

LEMMA SessionKept ==
  ASSUME SessionInv, [SessionNext]_sessionVars
  PROVE  SessionInv'
BY TypedKept, WaitKept, LoadKept, IndexKept DEF SessionInv

LEMMA SessionIsTyped == SessionInv => SessionTypeOK
<1> SUFFICES ASSUME SessionInv PROVE SessionTypeOK
  OBVIOUS
<1> USE DEF SessionInv
<1>1. Cardinality({q \in LoginCalls : login[q].owned}) <= 1
  BY AtMostOne DEF WaitInv
<1>2. form.loading <=> \E q \in LoginCalls : login[q].owned
  <2>1. form.loading \in BOOLEAN
    BY DEF TypeInv, StateInv, FormState
  <2> QED BY <2>1 DEF LoadInv, WaitInv
<1>3. form.step \in {"phone", "code", "success"}
  BY DEF TypeInv, StateInv, FormState
<1>4. \A t \in DOMAIN tokens : tokens[t] \in [mobile : Mobiles, role : Roles, expired : BOOLEAN]
  <2>1. tokens \in Seq(TokenState)
    BY DEF TypeInv, StateInv
  <2>2. \A t \in DOMAIN tokens : tokens[t] \in TokenState
    BY <2>1, LenProperties, ElementOfSeq
  <2> QED BY <2>2 DEF TokenState
<1>5. /\ Len(tokens) <= MaxTokens /\ cookie \in 0 .. Len(tokens)
      /\ act \in [open : BOOLEAN, pc : {"idle", "sent", "refused"}, token : 0 .. Len(tokens)]
      /\ outdated \subseteq DOMAIN tokens
  BY DEF IndexInv, Indices
<1>6. account \in [Mobiles -> Roles \cup {"inactive"}] /\ codes \subseteq Mobiles
  BY DEF TypeInv, StateInv
<1> HIDE DEF SessionInv
<1> QED BY <1>1, <1>2, <1>3, <1>4, <1>5, <1>6 DEF SessionTypeOK

\* For every number of accounts, calls and tokens: one login call at a time behind
\* the button, which waits exactly as long as it, and a cookie that is a token.
THEOREM SessionTypes == SessionSpec => []SessionTypeOK
<1>1. SessionInv /\ [SessionNext]_sessionVars => SessionInv'
  BY SessionKept
<1> QED BY SessionInitially, SessionIsTyped, <1>1, PTL DEF SessionSpec
=============================================================================
