------------------------------- MODULE Session -------------------------------
(***************************************************************************)
(* Signing in and what the token is worth afterwards: the two login forms  *)
(* (the dialogue of the header and the page /login), the token cookie, the *)
(* middleware in front of the panel, the guards of the API, and the user   *)
(* rows that other staff change meanwhile.  The Redis side of the one-time *)
(* code is in OtpAuth; here a code exists for a number or it does not.     *)
(***************************************************************************)
EXTENDS Browser

CONSTANTS
  Mobiles,      \* numbers a visitor types
  LoginCalls,   \* BOUND: calls of the login form in flight
  MaxTokens     \* BOUND: tokens ever signed

ASSUME SessionAssumption == MaxTokens \in Nat /\ None \notin Mobiles

\* BOUND: STAFF stands for ADMIN too: no route told apart here refuses STAFF.
Roles == {"CUSTOMER", "STAFF"}

VARIABLES
  account,      \* User rows: the role, or "inactive" while isActive is off
  codes,        \* numbers with a code in Redis
  tokens,       \* tokens signed so far: whose, with which role, expired or not
  cookie,       \* the token in the browser, as an index of tokens, or 0
  form,         \* the login form on the screen
  login,        \* its API calls
  act,          \* the panel: a page of it on the screen, and a call
  outdated      \* history: tokens whose account was changed after it was read

sessionVars == <<account, codes, tokens, cookie, form, login, act, outdated>>

Fresh(kind) == [kind |-> kind, open |-> FALSE, step |-> "phone", mobile |-> None,
                loading |-> FALSE, codeFor |-> None, moved |-> FALSE]
NoLogin == [pc |-> "idle", kind |-> None, mobile |-> None, owned |-> FALSE, token |-> 0,
            role |-> None, changed |-> FALSE]
NoAct == [open |-> FALSE, pc |-> "idle", token |-> 0]

SessionTypeOK ==
  /\ account \in [Mobiles -> Roles \cup {"inactive"}]
  /\ codes \subseteq Mobiles
  /\ Len(tokens) <= MaxTokens
  /\ \A t \in DOMAIN tokens :
       tokens[t] \in [mobile : Mobiles, role : Roles, expired : BOOLEAN]
  /\ cookie \in 0 .. Len(tokens)
  /\ form.step \in {"phone", "code", "success"}
  /\ form.loading <=> \E q \in LoginCalls : login[q].owned
  /\ Cardinality({q \in LoginCalls : login[q].owned}) <= 1
  /\ act \in [open : BOOLEAN, pc : {"idle", "sent", "refused"}, token : 0 .. Len(tokens)]
  /\ outdated \subseteq DOMAIN tokens

SessionInit ==
  /\ account \in [Mobiles -> Roles]
  /\ codes = {}
  /\ tokens = <<>>
  /\ cookie = 0
  /\ \E kind \in {"modal", "page"} : form = Fresh(kind)
  /\ login = [q \in LoginCalls |-> NoLogin]
  /\ act = NoAct
  /\ outdated = {}

serverVars == <<account, codes, tokens, outdated>>

-----------------------------------------------------------------------------
(* The login forms *)

\* The header's button.  The dialogue stays mounted while it is closed.
OpenModal ==
  /\ form.kind = "modal" /\ ~ form.open
  /\ form' = [form EXCEPT !.open = TRUE]
  /\ UNCHANGED <<serverVars, cookie, login, act>>

\* Mutant: reset also ends the loading state.
CloseModalLoading ==
  /\ form.kind = "modal" /\ form.open
  /\ form' = Fresh("modal")
  /\ UNCHANGED <<serverVars, cookie, login, act>>

\* handleClose: reset forgets everything but the loading state, so the answer
\* still to come finds an empty form.
CloseModal ==
  /\ form.kind = "modal" /\ form.open
  /\ form' = [Fresh("modal") EXCEPT !.loading = form.loading, !.moved = form.loading]
  /\ UNCHANGED <<serverVars, cookie, login, act>>

OpenLoginPage ==
  /\ form.kind = "page" /\ ~ form.open
  /\ form' = [form EXCEPT !.open = TRUE]
  /\ UNCHANGED <<serverVars, cookie, login, act>>

\* Leaving /login unmounts the form; its call goes on without it.
LeaveLoginPage ==
  /\ form.kind = "page" /\ form.open
  /\ form' = Fresh("page")
  /\ login' = [q \in LoginCalls |-> [login[q] EXCEPT !.owned = FALSE]]
  /\ UNCHANGED <<serverVars, cookie, act>>

\* The input of the first step, which is not disabled while a code is requested.
TypeMobile(m) ==
  /\ form.open /\ form.step = "phone"
  /\ form.mobile # m
  /\ form' = [form EXCEPT !.mobile = m, !.moved = form.loading]
  /\ UNCHANGED <<serverVars, cookie, login, act>>

Send(q, kind) ==
  /\ ~ form.loading
  /\ login[q].pc = "idle"
  /\ login' = [login EXCEPT ![q] = [NoLogin EXCEPT
       !.pc = "sent", !.kind = kind, !.mobile = form.mobile, !.owned = TRUE]]
  /\ UNCHANGED <<serverVars, cookie, act>>

\* handleRequestOtp up to its await.
SubmitPhone(q) ==
  /\ form.open /\ form.step = "phone" /\ form.mobile # None
  /\ Send(q, "otp")
  /\ form' = [form EXCEPT !.loading = TRUE, !.moved = FALSE]

\* handleVerifyOtp up to its await.
SubmitCode(q) ==
  /\ form.open /\ form.step = "code"
  /\ Send(q, "verify")
  /\ form' = [form EXCEPT !.loading = TRUE]

-----------------------------------------------------------------------------
(* The API *)

\* requestOtp: a new code for the number.
ServeOtp(q) ==
  /\ login[q].pc = "sent" /\ login[q].kind = "otp"
  /\ login[q].mobile # None
  /\ codes' = codes \cup {login[q].mobile}
  /\ login' = [login EXCEPT ![q].pc = "ok"]
  /\ UNCHANGED <<account, tokens, outdated, cookie, form, act>>

\* BOUND: a code is used only while a token is left for every call about to sign.
TokenRoom == Cardinality({q \in LoginCalls : login[q].pc = "sign"}) + Len(tokens) < MaxTokens

\* Mutant: the row is found and isActive is not looked at.
FindUserUnchecked(q) ==
  /\ login[q].pc = "sent" /\ login[q].kind = "verify"
  /\ login[q].mobile \in codes
  /\ TokenRoom
  /\ codes' = codes \ {login[q].mobile}
  /\ \E role \in Roles : login' = [login EXCEPT ![q].pc = "sign", ![q].role =
       IF account[login[q].mobile] \in Roles THEN account[login[q].mobile] ELSE role]
  /\ UNCHANGED <<account, tokens, outdated, cookie, form, act>>

\* verifyOtp up to the row of the user: the code is right and used up.
FindUser(q) ==
  /\ login[q].pc = "sent" /\ login[q].kind = "verify"
  /\ login[q].mobile \in codes
  /\ TokenRoom
  /\ codes' = codes \ {login[q].mobile}
  /\ login' = IF account[login[q].mobile] # "inactive"
              THEN [login EXCEPT ![q].pc = "sign", ![q].role = account[login[q].mobile]]
              ELSE [login EXCEPT ![q].pc = "failed"]
  /\ UNCHANGED <<account, tokens, outdated, cookie, form, act>>

\* signAsync signs the role that was read, whatever the row says by now.
SignToken(q) ==
  /\ login[q].pc = "sign"
  /\ Len(tokens) < MaxTokens
  /\ tokens' = Append(tokens, [mobile |-> login[q].mobile, role |-> login[q].role,
                               expired |-> FALSE])
  /\ outdated' = IF login[q].changed THEN outdated \cup {Len(tokens) + 1} ELSE outdated
  /\ login' = [login EXCEPT ![q].pc = "ok", ![q].token = Len(tokens) + 1]
  /\ UNCHANGED <<account, codes, cookie, form, act>>

\* updateRole and setActive, by other staff: the tokens know nothing of it.  An
\* account that is switched on again may have another role by then.
ChangeAccount(m, row) ==
  /\ "elsewhere" \in Mishaps
  /\ row # account[m]
  /\ account' = [account EXCEPT ![m] = row]
  /\ outdated' = outdated \cup {t \in DOMAIN tokens : tokens[t].mobile = m}
  /\ login' = [q \in LoginCalls |->
       IF login[q].pc = "sign" /\ login[q].mobile = m
       THEN [login[q] EXCEPT !.changed = TRUE] ELSE login[q]]
  /\ UNCHANGED <<codes, tokens, cookie, form, act>>

-----------------------------------------------------------------------------
(* The answers.  The form takes them whatever it shows by now. *)

Over(q) == login' = [login EXCEPT ![q] = NoLogin]

AnswerOtp(q) ==
  /\ login[q].pc = "ok" /\ login[q].kind = "otp"
  /\ Over(q)
  /\ form' = IF login[q].owned
             THEN [form EXCEPT !.step = "code", !.loading = FALSE,
                               !.codeFor = login[q].mobile]
             ELSE form
  /\ UNCHANGED <<serverVars, cookie, act>>

\* setAuthToken happens even if the form is gone; /login then goes home.
AnswerVerify(q) ==
  /\ login[q].pc = "ok" /\ login[q].kind = "verify"
  /\ Over(q)
  /\ cookie' = login[q].token
  /\ form' = IF ~ login[q].owned THEN form
             ELSE IF form.kind = "page" THEN Fresh("page")
             ELSE [form EXCEPT !.step = "success", !.loading = FALSE,
                               !.codeFor = None, !.moved = FALSE]
  /\ UNCHANGED <<serverVars, act>>

\* Refused (an inactive account, a wrong or missing code, too many attempts), or a
\* 500 at any await of the server (sendOtp after the code is stored, signAsync after
\* the row is read), or lost before or after it was served.  A call the browser
\* gives up on while it is being served is taken as served already or never.
AnswerFailed(q) ==
  /\ login[q].pc # "idle"
  /\ Over(q)
  /\ form' = IF login[q].owned
             THEN [form EXCEPT !.loading = FALSE, !.moved = @ /\ form.step = "code"]
             ELSE form
  /\ UNCHANGED <<serverVars, cookie, act>>

-----------------------------------------------------------------------------
(* The panel *)

\* decodeRole reads the role in the token, and nothing else of it.
Middleware == cookie # 0 /\ tokens[cookie].role # "CUSTOMER"

\* The middleware runs on navigation, and on nothing the page does afterwards.
EnterPanel ==
  /\ Middleware
  /\ ~ act.open
  /\ act' = [act EXCEPT !.open = TRUE]
  /\ UNCHANGED <<serverVars, cookie, form, login>>

\* A call of the page goes on without it.
LeavePanel ==
  /\ act.open
  /\ act' = [act EXCEPT !.open = FALSE]
  /\ UNCHANGED <<serverVars, cookie, form, login>>

\* A panel page calls the API with the token that the cookie holds by now, whoever's
\* it is.
CallApi ==
  /\ act.open
  /\ cookie # 0
  /\ act.pc = "idle"
  /\ act' = [act EXCEPT !.pc = "sent", !.token = cookie]
  /\ UNCHANGED <<serverVars, cookie, form, login>>

\* JwtAuthGuard: signature and expiry.  JwtStrategy.validate believes the rest.
Authentic(t) == ~ tokens[t].expired

\* RolesGuard: the role of the token, not of the row.
CanActivate(t) == tokens[t].role = "STAFF"

Accepted(t) == Authentic(t) /\ CanActivate(t)

Refuse401 ==
  /\ act.pc = "sent" /\ ~ Accepted(act.token)
  /\ act' = [act EXCEPT !.pc = "refused"]
  /\ UNCHANGED <<serverVars, cookie, form, login>>

\* apiFetch: 401 or 403 drops the token that the cookie holds by now.
AnswerRefused ==
  /\ act.pc = "refused"
  /\ act' = [act EXCEPT !.pc = "idle", !.token = 0]
  /\ cookie' = 0
  /\ UNCHANGED <<serverVars, form, login>>

\* Served, or refused for another reason, or lost: the token stays.
ServeApi ==
  /\ act.pc = "sent" /\ Accepted(act.token)
  /\ act' = [act EXCEPT !.pc = "idle", !.token = 0]
  /\ UNCHANGED <<serverVars, cookie, form, login>>

\* handleLogout: the token goes, and the page with it.
Logout ==
  /\ act.open
  /\ cookie' = 0
  /\ act' = [act EXCEPT !.open = FALSE]
  /\ UNCHANGED <<serverVars, form, login>>

\* jwt.expiresIn is over; the cookie has its own seven days.
Expire(t) ==
  /\ "token" \in Mishaps
  /\ ~ tokens[t].expired
  /\ tokens' = [tokens EXCEPT ![t].expired = TRUE]
  /\ UNCHANGED <<account, codes, outdated, cookie, form, login, act>>

\* max-age of the cookie is over.
CookieEnds ==
  /\ "token" \in Mishaps
  /\ cookie # 0
  /\ cookie' = 0
  /\ UNCHANGED <<serverVars, form, login, act>>

-----------------------------------------------------------------------------
\* The input and the button of the step that is shown.
LoginSteps ==
  \/ \E m \in Mobiles : TypeMobile(m)
  \/ \E q \in LoginCalls : SubmitPhone(q) \/ SubmitCode(q)

\* What the dialogue offers, and the page.
LoginModal == OpenModal \/ CloseModal \/ (form.kind = "modal" /\ LoginSteps)
LoginPage == OpenLoginPage \/ LeaveLoginPage \/ (form.kind = "page" /\ LoginSteps)
LoginForm == LoginModal \/ LoginPage

PanelStep ==
  \/ EnterPanel \/ LeavePanel \/ Logout
  \/ CallApi \/ Refuse401 \/ AnswerRefused \/ ServeApi

LoginCall(q) ==
  \/ ServeOtp(q) \/ FindUser(q) \/ SignToken(q)
  \/ AnswerOtp(q) \/ AnswerVerify(q) \/ AnswerFailed(q)

SessionNext ==
  \/ LoginForm
  \/ \E q \in LoginCalls : LoginCall(q)
  \/ \E m \in Mobiles, row \in Roles \cup {"inactive"} : ChangeAccount(m, row)
  \/ PanelStep
  \/ \E t \in DOMAIN tokens : Expire(t)
  \/ CookieEnds

SessionSpec == SessionInit /\ [][SessionNext]_sessionVars

-----------------------------------------------------------------------------
(* Properties *)

\* The guards ask the token, never the row.  They are right about every token
\* except those whose account was changed after verifyOtp read it: the role is
\* the row's, and the account is active.
TokensAreTrue ==
  \A t \in DOMAIN tokens \ outdated :
    tokens[t].role = account[tokens[t].mobile]

\* The second step asks for the code sent to the number it names, unless the
\* number was edited or the form closed while that code was being requested.
CodeStepNamesNumber ==
  form.step = "code" /\ ~ form.moved => form.codeFor = form.mobile

-----------------------------------------------------------------------------
(* Strengthening: what makes the properties above inductive *)

FormState == [kind : {"modal", "page"}, open : BOOLEAN,
              step : {"phone", "code", "success"}, mobile : Mobiles \cup {None},
              loading : BOOLEAN, codeFor : Mobiles \cup {None}, moved : BOOLEAN]
LoginState == [pc : {"idle", "sent", "sign", "ok", "failed"}, kind : {"otp", "verify", None},
               mobile : Mobiles \cup {None}, owned : BOOLEAN, token : Nat,
               role : Roles \cup {None}, changed : BOOLEAN]
TokenState == [mobile : Mobiles, role : Roles, expired : BOOLEAN]

StateInv ==
  /\ account \in [Mobiles -> Roles \cup {"inactive"}]
  /\ codes \subseteq Mobiles
  /\ tokens \in Seq(TokenState)
  /\ form \in FormState
  /\ login \in [LoginCalls -> LoginState]

\* A token about to be signed says what the row says, or the row was changed.
SignInv ==
  \A q \in LoginCalls : login[q].pc = "sign" =>
    /\ login[q].mobile \in Mobiles
    /\ login[q].role \in Roles
    /\ ~ login[q].changed => login[q].role = account[login[q].mobile]

\* The form waits for one call at a time, and still shows the number a code is
\* being requested for, unless it was touched meanwhile.
WaitInv ==
  /\ \A q \in LoginCalls : login[q].owned => form.loading
  /\ \A p, q \in LoginCalls : login[p].owned /\ login[q].owned => p = q
  /\ \A q \in LoginCalls :
       login[q].owned /\ login[q].kind = "otp" /\ ~ form.moved =>
         login[q].mobile = form.mobile

\* A loading form has its call; cookie, calls and history name tokens that were
\* signed, and no more of them than the bound.
LoadInv == form.loading => \E q \in LoginCalls : login[q].owned
Indices == 0 .. Len(tokens)
IndexInv ==
  /\ Len(tokens) <= MaxTokens
  /\ cookie \in Indices
  /\ \A q \in LoginCalls : login[q].token \in Indices
  /\ act \in [open : BOOLEAN, pc : {"idle", "sent", "refused"}, token : Indices]
  /\ outdated \subseteq DOMAIN tokens
=============================================================================
