# Hamvatan: specifications

TLA+ models of Hamvatan: the backend (NestJS, Postgres through Prisma, Redis,
BullMQ, an SMS provider and an object store) and the pages of the web front end that
change something through it. TLC checks small instances, TLAPS proves what it can for
every value of the constants.

Paths are relative to `src/backend/src/modules` for the backend and to `src/frontend` for
pages and components, unless they start with `src/`.

## 1. The system

Requests are handled by one Node process: a handler runs alone until it awaits, so
handlers and queue workers interleave exactly at their awaits, and that is the grain
of every backend model: one action per awaited call. State that survives the process is
in three places that share no transaction: Postgres rows, Redis keys (BullMQ jobs
among them) and files. Most of what can go wrong is an order of two awaits, or a
failure between two of them.

The pages of the front end are React components that call the API with `fetch` and never
cancel a call. What can go wrong in them is an answer that arrives late, out of order or not at
all, at a page that has moved on. Their grain is: one action per event handler up to its
`await`, one for the server serving the call, one for the answer.

| Component | State | Operations | Interacts with | Model |
|---|---|---|---|---|
| Notifications (`notifications/`) | MessageLog rows, BullMQ jobs | `enqueueSms`, `resend`, `process` | case lifecycle calls `enqueueSms`; SMS sender | `Notifications`, abstractly `Delivery` |
| SMS sender (`sms/`) | none | `send`, `sendOtp` | provider | inside `Notifications` |
| Case lifecycle (`admin-service-requests/`) | request, history, documents | `create`, `updateStatus`, `updateInternalNotes`, `previewSms`, `trackByCode` | notifications, settings, storage | `CaseIntake`, `CaseLifecycle`, `CaseDesk` |
| Review form (`app/services/request/page.tsx`) | chosen documents, request under way | choose, remove, submit | `create` | `CaseIntake` |
| Tracking and timeline (`app/services/track/page.tsx`, `components/ui/Timeline.tsx`) | none | `trackByCode`, pure functions | case lifecycle | `Timeline`, in `CaseLifecycle` |
| Case detail page (`app/admin/cases/[id]/page.tsx`) | case, selected status, preview, notes | load, preview, confirm, save notes | case lifecycle, templates | `CaseDesk` |
| OTP login (`auth/`) | three Redis keys per mobile | `requestOtp`, `verifyOtp` | users, SMS sender, JWT | `OtpAuth` |
| Login forms, cookie, middleware (`components/ui/LoginModal.tsx`, `app/login`, `lib/auth.ts`, `middleware.ts`) | form step, token cookie | request a code, verify, log out | OTP login, every panel page | `Session` |
| Access control (`auth/strategies`, `src/backend/src/common/guards`) | role in the token | guards | every admin route | `Session` |
| Users (`users/`) | User row | find or create, role, activity | login, tokens, users page | `OtpAuth`, `Session`, `AdminLists` |
| Properties and images (`properties/`) | property, image rows with a position, files | `update`, `archive`, `addImage`, `deleteImage`, `reorderImages` | storage | `PropertyImages`; as the pages see them, `PictureManager`, `ListingForm`, `AdminLists` |
| Storage (`storage/`) | files | `upload`, `delete` | properties, case intake | inside `PropertyImages`, `CaseIntake` |
| Edit page of a listing (`components/admin/*`) | pictures on the screen, drag, form | upload, delete, drag, save | properties | `PictureManager`, `ListingForm` |
| Settings and their page (`settings/`, `app/admin/settings/page.tsx`) | Setting rows over defaults; editors | contact data, SMS templates | case lifecycle reads them | `SettingsPage`, `CaseDesk` |
| Admin list pages (cases, SMS log, contacts, users, properties) | filter, rows, busy slot | load, filter, change one row | the API | `AdminLists` |
| Contact requests (`contact-requests/`) | rows | list, mark handled | contacts page | `AdminLists` |
| API client and layout (`lib/api.ts`, `app/admin/layout.tsx`) | none | `apiFetch`, links | all pages | `Browser` and every page module |
| Dashboard, health, configuration, formatting, public pages, design handoff | none worth a model | | | not modelled (section 5) |

What makes the components correct:

* Notifications: the log tells the truth (SENT means accepted, FAILED means not
  delivered where nothing else failed), no message is forgotten in PENDING, a retry
  alone never sends a text twice, and the number of texts per job is bounded.
* Cases: every document of a case is in the store, the customer knows the code or its
  answer was lost, status and history never disagree whoever races, a committed change is told
  once or a fault is to blame, the timeline marks one stage and can date it, what the page says
  is what happened, and the SMS is the one that was previewed.
* Login: guesses per code are bounded, also across expiry and overlapping calls; a code is not
  used again and again; nobody is refused for ever but by a missed EXPIRE; a token says what the row said; the form
  asks for the code of the number it shows.
* Images: no listing shows a broken image, no file is forgotten, and the order an admin
  gave is the order that is kept.
* Pages: when nothing is under way, what is on the screen is what is stored, or there is a
  recorded reason why not; no page loads for ever by itself; a busy slot does its work.

`PROJECT.json` lists the hazards at their lines, those that no property covers included.

## 2. Modules

In every module an operator marked `Mutant` is a plausible bug in the definition that
follows it; it is not part of the specification, and each property is violated when one of
them takes that definition's place. Variables marked "history" are not in the code: they
remember what a property needs to know of the past.

### Notifications and Delivery

`NotificationsService` writes a MessageLog row (PENDING), then adds a job that carries
the row's id. `NotificationsProcessor.process` calls the provider and then updates the
row to SENT; an exception in the `try` block, the failed SENT update included, leads to
the `catch` block, which updates the row to FAILED and rethrows, and BullMQ then runs the
job again, up to `attempts`.

| TLA+ | Code |
|---|---|
| `logStatus` | `MessageLog.status`, `None` before the row exists |
| `jobLog`, `jobState`, `made`, `stalls` | BullMQ job: `data.logId`, the set it is in, `attemptsMade`, stalled count |
| `caller[c]` | a request between the awaits of `enqueueSms` or `resend` |
| `worker[w]` | a slot that runs `process`: the next await and its job |
| `InsertLog`; `FindLog`, `ResetLog` | first awaits of `enqueueSms`; of `resend` |
| `AddJob`, `AddJobFails` | `smsQueue.add` resolves or rejects |
| `SendAccepted`, `SendRejected` | `smsSender.send` resolves or rejects |
| `MarkSent(Fails)`, `MarkFailed(Fails)` | the two row updates and their failures |
| `TakeJob`, `CompleteJob`, `RetryOrFailJob`, `StalledJob` | BullMQ, external: from the options the code passes and the library's defaults (`maxStalledCount` 1) |
| `Crash` | the process ends: requests and workers are gone, rows and jobs stay |
| `accepted`, `slips`, `dropped` | history: what the provider accepted, row updates that failed, rows a fault abandoned |

Backoff only delays a retry, and a delayed job is "waiting" here. `send` in the code either logs
the text (mock) or throws (any other provider name): both outcomes are in the model, and
nothing in it depends on which provider is configured. A send that is accepted and reported
as a failure (a provider timeout) is not in the code and not in the model; it is the mutant
`SendAcceptedTimesOut`.

`Delivery` is the abstract specification: messages with a status, orders placed for them, a bounded
number of copies handed over per order, and a status reported only for what an order has done.
It promises no order and no end. `Notifications` implements it under the mapping `Promise`
(`status <- logStatus`, `orderOf <- jobLog`, `copies <- accepted`, `Limit <- MaxAttempts + MaxStalls`);
`DeliveryPromised` is checked by TLC and proved.

### CaseIntake

The review form, `create` and the answer. `Submit` is `handleSubmit` up to its await;
`CodeFree` and `CodeTaken` are the two answers of `generateUniqueTrackingCode`'s query; `CodeFree` goes on, in the same step,
through the synchronous `documents.map`, which starts one upload per document and throws at the
first one that is not what it declares, leaving those before it running. `Uploaded` and
`UploadRejects` settle an upload under `Promise.all`, `StrayRejects` one that nobody awaits any more:
behind a forged document no `Promise.all` exists to catch it, and an unhandled rejection ends
Node unless Sentry, which is configured or not, listens. `Commit` is the transaction; `Answer`,
`AnswerLost`, `Leave` are what the customer gets. `Forged` stands for `assertRealDocumentType`.
`blobs` names a file by request and document, as every upload gets a random key.

### CaseLifecycle and Timeline

Extends `Notifications`: the requests that run `updateStatus` are its `Callers`, and the
last awaits of `enqueueSms` are its `AddJob` and `AddJobFails`, with the answer to the page added.
`updateStatus` is `ReadCase`, `CommitStatus` (the transaction), `BuildMessage` (the template
is read), `EnqueueSms` (the row), `AddJobAnswer` (the job, and 200). Failures are `CommitFails`
(rolled back, 500), `ReportFails` and `AddJobFailsAnswer` (500 after the commit) and `CrashAll`.
`handler[h]` keeps what the request read (`seen`) and doubles as the page that waits: "ok"
is the success message, "error" the generic one. An update that is refused by validation, or
because the case is missing, changes nothing and is left out. The text of an SMS is its
`Subject`: case and status, which is all the templates are rendered from. The documents and the code of a
new case are in `CaseIntake`; here `Create` is the transaction alone.

A transaction is one step. Its row lock is taken by its first statement (the update), so the
history entries of one case are written in commit order; `history` is in that order, and the
code's `orderBy createdAt` is taken to give it.

`TrackStatus` and `TrackHistory` are the two queries Prisma makes for `trackByCode`. `Timeline` holds what the
page computes from their answers: `ReachedIndex`, `CurrentIndex`, the mark of each stage, and the entry
whose date and note stand beside it. They are plain operators, without recursion.

### OtpAuth

Login for one mobile number (keys are named after the mobile, numbers do not meet).
Every Redis command is a step with what the code decides on its answer: `RequestIncr`,
`RequestExpire`, `RequestSet`, `RequestDel`; `VerifyGet`, `VerifyIncr`, `VerifyExpire`, `VerifyLock`,
`VerifyDel`, `VerifyUser`, `VerifySign`. A key is a record with a `ttl` that `Tick` counts down;
`ttl = 0` on a counter that exists is a key without expiry, as `INCR` leaves it. `user` is the
row's existence and `isActive`, which an admin switches (`SetActive`). Sending the code is an
`await` that changes nothing kept here. `tries`, `resets`, `logins` and `readers` are history about the
code now issued: comparisons with it, attempt counters lost on the way, tokens signed, and the
calls that read it.

An awaited command can reject: `redis/redis.service.ts:12` gives up after three retries. `CommandFails` ends the call with
its 500 before the command was executed; when it was executed and only the reply was lost, the keys are those of the
command's own step followed by `CommandFails`. `ReplyLost` has the two cases that this does not give: the INCR of `verifyOtp` that is executed,
and sent again by the client to an answer that is no longer 1, and its EXPIRE, whose own step goes on to a comparison that then never happens. A SET,
EXPIRE or DEL that the client sends again is taken as one. `Crash` ends every call in flight. `Faults` says which of the two a run has. `leaked` is history:
which of the commands in `Owed` was missed by a call that died or was rejected, and has not been made up for by a later one: the EXPIRE of
the request window there is (until it is executed or the counter goes), the DEL of the attempts of the code before this one (until
the next SET or DEL).

### PropertyImages

The images of one listing (listings do not meet: every query names the listing or an image of
it). Rows are in Postgres, files in the object store, and nothing ties them together but the order of
the awaits in `properties/properties.service.ts`: the upload comes before the row, and the row is
deleted before the file.

| TLA+ | Code |
|---|---|
| `rows`, `position` | PropertyImage rows and their `sortOrder` |
| `files` | files in the store, named by the row's `url`; one id stands for a file and its row |
| `foreign` | images whose `url` starts with an earlier `publicBaseUrl` |
| `call[c]` | a request: its next await, the image, the `sortOrder` or the list it carries |
| `Upload(Fails)`, `FindLast`, `CreateRow`, `AddFails` | `addImage` |
| `FindImage`, `DeleteRow(Fails)`, `DeleteFile(Fails)` | `deleteImage`, with `storage.delete` |
| `ReadImages`, `Reorder(Fails)` | `reorderImages`: the check, then the transaction |
| `Crash`, `Rebase` | the process ends; it comes back, perhaps with another `publicBaseUrl` |
| `used`, `orphaned`, `excuse` | history: ids handed out, files a fault left to nobody, why positions may collide |

A storage call that rejects may or may not have had its effect, and both are tried. A query that
rejects has had none. A reorder is one transaction, so one step. `ReadImages` tries every list that
passes the check of the code, repeated ids included: it compares the length and asks of each id
whether it belongs to the listing. Lists it refuses change nothing. The final read of
`reorderImages` and `createdAt` are left out.

### The pages: Browser, AdminLists, CaseDesk, PictureManager, ListingForm, SettingsPage

`Browser` declares what they share: `Calls` (the API calls that may be in flight), `Mishaps` (what a run lets go
wrong) and `TokenHere` (`getAuthToken`: the cookie may be gone at any call). Each page module has the
rows it works on, the state of the component with the names of its `useState`s, the calls, and a history variable
that says why the screen may differ from the rows: a call failed, other staff wrote, or two calls overtook each
other. The actions come in three groups: handlers up to their `await`, the server (`Serve...`), the answers
(`Answer...`) and failures. `network` among the mishaps lets a call fail before, during or after it was
served. A page that is left (`Leave...`) forgets its state and its answers; a change already sent is still served.

* `AdminLists`: the five list pages. Their loads differ in what happens without a token: `LoadCases` and
  `LoadContacts` end the loading text, the other three just return. `Resend`, `ChangeRole` and `ToggleActive` use the page's
  one busy slot, `MarkHandled` and `Archive` have none. `ahead` is the order in which calls were sent.
* `CaseDesk`: the case page. The button under the form previews until there is a preview, then confirms what is
  *selected by then*; a successful confirm loads the case again, and the answer of a load replaces status,
  select and notes whatever was chosen or typed since. `UpdateTemplate` is the settings page of somebody else. `excused` travels from
  the events that separate preview and SMS to the confirmed change.
* `PictureManager`: batches of uploads one file at a time, deletions, drag and drop. `DropOn` changes the screen first
  and sends the order afterwards; a drag whose index is beyond the list (pictures deleted meanwhile) breaks the page
  (`failed`), as `splice` then inserts `undefined`. Ids are unique in the database, so every list of pictures is `Distinct` and
  the page's `filter` is `Without`.
* `ListingForm`: the form takes the listing once and sends all its fields; `ServeUpdate` leaves an
  emptied optional field as it was, because it is `undefined` in the request. `held` is the history that says what it was: the
  description of the row when the form took it or sent its last save.
* `SettingsPage`: one editor per template with a button of its own, one variable (`savingStatus`) for all of them, and the
  contact form.

### Session

The two login forms (`form.kind`), the code's life reduced to "there is one for this number" (its limits are in
`OtpAuth`), the token with its role, the cookie, the middleware and the guards. `FindUser` and `SignToken` are the
two awaits between which `ChangeAccount` (`updateRole`, `setActive`) can fall. `LoginModal` and `LoginPage` are what the dialogue
and the page offer, with the steps they share in `LoginSteps`. `CloseModal` forgets everything
but `loading`, as `reset` does, so an answer still to come finds an empty form and moves it to the second step.
`AnswerFailed` ends a call at any point: refused, a 500 at any await of the server, or lost before or after it was served.
The middleware runs on navigation alone (`EnterPanel`); a page of the panel then calls the API with whatever token the cookie holds (`CallApi`).
`AnswerRefused` is `apiFetch` dropping whatever token the cookie holds by then. `STAFF` stands for `ADMIN` too.

### MC and proof modules

`MCNotifications`, `MCCaseLifecycle`, `MCCaseIntake`, `MCOtpAuth`, `MCPropertyImages` add the symmetry sets for the safety runs (model values
that no action tells apart); liveness runs have no symmetry. `MCOtpSerial`, which `MCOtpAuth` extends, gives `OtpAuth` a flag, chosen at
the start, under which calls do not overlap. `MCPanel` puts the six page modules and `Session` into one run: pages share no state in the browser, so each
behaviour is about one of them (`about`), and what the others do to it through Postgres is its own
"elsewhere". The modules `*_proofs` hold the theorems; `Pages_proofs` has those of all the pages, and extends `MCPanel`.
The inductive invariants are defined at the end of the module they are about, under "Strengthening", so that TLC
can check them too.

## 3. Runs

| Run | Question | Instance | Result |
|---|---|---|---|
| `notifications_safety` | does the log tell the truth, are duplicates bounded, is `Delivery` implemented | 2 rows, 2 jobs, 2 requests, 2 workers, 2 attempts, 1 stall, every fault | holds, 584,304 states |
| `case_safety` | do status, history, SMS and timeline agree when two admins race and a customer looks | 1 case, 3 statuses, 2 requests, 2 rows, 2 jobs, history of 3, every fault | holds, 1,913,413 states |
| `case_live` | is every change reported, does every message settle | 1 request, 2 statuses, 2 jobs of 2 attempts (a message and its resend), every fault | holds, 145,858 states |
| `case_sms_sent` | "the SMS was sent" on the page | no fault | violated |
| `case_error` | "error in changing the status" on the page | crash only | violated |
| `intake_safety` | do case, files and the customer agree | 1 form, 2 submissions, 3 documents (1 forged), 2 codes, 2 attempts, every fault | holds, 401,706 states |
| `otp_concurrent` | limits when calls overlap or not, keys expire, commands reject and the server dies | 2 calls, every fault | holds, 1,560,261 states |
| `otp_limits` | is a refused number served again, unless its EXPIRE was missed | 2 calls, 1 code, every fault, fair | holds, 196,063 states |
| `otp_stuck` | is it without that exception | rejecting commands, no crash, fair | violated |
| `images_safety` | do rows, files and positions agree | 3 images, 2 calls, every fault | holds, 209,175 states |
| `images_order` | does a reorder give the submitted order | 2 images, 1 call, no fault | violated |
| `panel` | do pages show what is stored, are tokens and forms about what they say | each page with 2 calls in flight, 2 rows or texts, 3 pictures, batches of 2, every mishap; 1 token | holds, 1,896,786 states |

Bounds. Two of everything is where these components can go wrong: one message and its
resend in two jobs on two workers, two requests on one case, two calls on one code or one listing, two
answers to one page. A third image lets a reorder and a deletion act on different pairs; image ids are used once and bound the
uploads. Job ids are the only counter that would grow for ever; `JobIdLeft` and `JobRoom` let a request begin
only while an id is left for it, so a bound never stops a request midway. `MaxHistory` bounds
the changes of a case, `Requests` the submissions of a form, `MaxTokens` the tokens signed (`TokenRoom` is asked before a code is used). In `OtpAuth` counts stop at one more than their limit,
beyond which the code does not tell them apart, and `Tick` units are coarse: only the order of
expiries matters, and they can fall between any two commands. The limit constants are small in the
runs (the code has 5 requests, 5 attempts, 3 sends, 5 tries at a tracking code) because the behaviour at a limit does not
depend on how far it is; the theorems cover every value. In `panel` data have two values, which is enough to be wrong; the
values of statuses, roles and tabs that are left out are named in `AdminLists`.

Deadlock is checked in every run; where crashes or mishaps are among the faults a state is never without a step.

Fairness. `Fairness` is weak fairness on what the event loop, BullMQ and time justify: a request
that has begun goes on (its await resolves or rejects), a free worker takes a waiting job, the
stall check is periodic, time passes. Nothing obliges a request to come, a fault to happen, or
the provider to accept. A crash may happen again and again, and `PendingSettles` holds all the same because
stalls are counted: a job that dies too often is failed, which the model records in
`dropped`. Nothing fair is assumed of the browser: its properties are about the states in which nothing is under way.

### What the runs found

* `OkMeansSmsSent`: the page's success text (`app/admin/cases/[id]/page.tsx:88`) says that the
  notification SMS was sent. `updateStatus` returns when the job is in the queue. What does hold is that the
  change is accounted for (`ChangesAreReported`) and settles unless a fault hits it (`ChangesSettle`).
* `ErrorMeansUnchanged`: the page's error text (line 93 of the same file) says that changing the
  status failed. When the server dies after the commit the status has changed, the history has its
  entry and the customer is not told; repeating the change, as the page invites, records it twice.
* `LockoutEnds`: `INCR` and `EXPIRE` of the request counter are two commands
  (`auth/auth.service.ts:47-49`). If the EXPIRE rejects (`redis/redis.service.ts:12`), the reply to the INCR is lost, or the server dies between them,
  the counter has no expiry, no later request sets one, and after five requests the number is refused for ever, though the message
  (line 53) says to try again later. `WindowHasEnd` shows that a missed EXPIRE, of one kind or the other, is the only way, and
  `LockoutEndsOrLeaks` that every other refusal ends.
* The same holds of the two commands that issue a new code (lines 59-60): when the DEL is missed after the SET, the new code lives with the
  old attempt counter, which expires first and gives the attempts back. `CounterOutlivesCode` and `SerialGuessLimit` show
  that this is the only way to more than `maxAttempts` comparisons with a code that is still there, without overlapping calls.
* `OrderIsSubmitted`: `reorderImages` compares the number of ids and whether each belongs to the listing
  (`properties/properties.service.ts:161-162`), not whether they differ. With images 1 and 2 the list
  [1, 1] is accepted and both updates hit image 1, though the tests (`properties.service.spec.ts:184` and `:193`) say that
  ids which do not match are refused and that positions match the submitted order.
* Two images get one position also when two uploads overlap, and when a list is applied after an upload
  it did not know; `CollisionNeedsOverlap` shows that these and the repeated id are the only ways.
* Three behaviours that a property excuses contradict a text of the pages; no run of their own reports them, the properties name the exceptions.
  The preview says "the text of the SMS that is sent" (`app/admin/cases/[id]/page.tsx:210`), and the confirm button sends the status
  selected by now and the template as it is by then, which a late answer of a load, an early click or another admin may have moved
  away from the preview (`SmsIsAsPreviewed`). The second step of the dialogue asks for "the code sent to" the number it shows
  (`components/ui/LoginModal.tsx:123`), which was edited or emptied while the code was requested (`CodeStepNamesNumber`). The listing form says
  "saved" (`components/admin/PropertyForm.tsx:251`) when it has emptied an optional field, and the row keeps the text it had (`SheetIsStored`).
* Behaviour that the properties excuse and no text of the repository contradicts: a busy slot guards a row only until another row takes it (`SlotGuardsRow`,
  `EditorsAreSaved`); answers of a list or orders of pictures that overtake one another stay on the screen (`QuietPageIsTrue`, `ShownOrderIsStored`); a
  change of an account is not in its tokens (`TokensAreTrue`). No property is about these two: saving a form puts an
  archived listing back, and a late 401 of an old token ends a new session.

## 4. Proofs

Each theorem is for any numbers of rows, jobs, requests, images, files, calls and so on, any limits and
any set of faults. Assumptions are only the named ones on constants, each in the module that declares them, and TLC evaluates all of
them in the runs. Most say that `None` is no value and that limits are numbers. One says more: `StageAssumption`, that every status is a failure or has a
place in the timeline's stages and that a case begins with the first one, which holds of the enum (`src/backend/prisma/schema.prisma:49-55`). Every invariant that a passing run checks is stated by a theorem here.

`Notifications_proofs`:

* `QueueIsSound`: `TypeOK /\ QueueInv` is inductive. Types alone are not: that `made` and `stalls`
  stay within their limits needs that a job which can still run has not used them up, and
  that needs that a busy worker has an active job which no other worker has. `QueueInv` says so.
* `SentIsTrue` (`SentWasAccepted`): with `MarkSentInv`, a worker about to write SENT has had its text accepted.
* `PendingIsNotForgotten` (`PendingIsOwned`): by the lemmas `MarksUntouched`, `OtherMarksKept` and `DoneMarking`, which say
  what a step does to the jobs that will still write a row (`WillMark`); each action then either
  keeps an owner of the PENDING row or changes the row or records a fault.
* `DuplicatesNeedFaults` (`DuplicateNeedsFault`): with `SendInv`, which splits the bound by where the job is: before a
  send, a job has had no more texts accepted than faults hit it.

`Delivery_proofs`, on top of them:

* `SendsAreBounded` (`SendsBounded`): `BoundInv` charges every accepted text to an attempt or a stall, but for the one under way.
* `FailedIsTrue` (`FailedMeansUndelivered`): `FailInv` says where a job that no fault has hit and whose text was accepted can be.
* `PromiseIsKept` (`DeliveryPromised`), the refinement: initial states map to initial states, and every action of
  `Notifications` maps to one of `Delivery` or to a stutter. The bound on copies is `SendsBounded`, and that a row exists before its
  order is `RowInv`.

`OtpAuth_proofs`:

* `TypeCorrect`; `WindowCloses` (`WindowHasEnd`), up to an EXPIRE that was missed, and `CounterIsKept`, up to a DEL that was (`CounterOutlivesCode`, inductive with `AbsentHasNoExpiry`: `INCR` creates a counter
  without expiry, so an absent one must not carry a `ttl`). `IncrLemma`, `ExpireLemma`, `ElapseLemma` and `HandlerLemma` state what
  the Redis commands and `GoTo`/`Done` return.
* `CodeUseIsBounded` (`CodeUseBounded`): with `UseInv`, that no call joins the readers of a code once it was used; each use takes one reader away,
  counted with the theorems on finite sets.
* `TriesAreBounded` (`TriesBounded`): with `TriesInv`, every comparison, made or paid for, is in the counter that is there or in one that was
  forgotten; `ForgottenIsCounted` is the arithmetic of a counter that goes.
* `SerialCallsAreLimited` (`SerialGuessLimit`): when calls do not overlap, whatever fails, for a code whose DEL was not missed. `CodeIsCounted` needs an exception
  while a call has set a new code and not yet deleted the old counter, where nothing can be compared because no other call is at work; a counter that
  goes while its code is there can then only be the one of a code whose DEL is in `leaked`. `LostCount` says what a lost reply does to the counter.

`PropertyImages_proofs`:

* `OwnersAreSound`: `TypeOK /\ OwnerInv` is inductive. That a call about to create a row has a file and no
  row yet, and that no two calls are responsible for one file, is what keeps an overlapping delete from
  taking a file away.
* `RowsHaveFiles` (`RowHasFile`) and `FilesHaveOwners` (`FileHasOwner`) follow action by action.
  `OwnersKept` covers the steps that touch no file; `FindLastLemma` and `ReorderLemma` give the positions that the two writers produce.
* `CollisionsNeedOverlap` (`CollisionNeedsOverlap`): with `PositionInv`, the position an upload has read is still behind every image when
  it creates its row. A reorder in between keeps that although it moves every image: it numbers them from 0 (`MatchingReorder`), and
  a position behind n images with different positions is at least n (`PositionsLemma`).

`CaseIntake_proofs`:

* `TypeCorrect`, inductive with `TriesLeft` (a request that still looks for a code has an attempt left).
* `DocumentsStored` (`DocumentsAreStored`): `StoreInv` follows a request from code to answer: nothing stored before the code is found, in "upload"
  every document is under way or stored, from "commit" on all are stored.
* `BlobsHaveOwners` (`BlobHasOwner`): with `UploadInv`, an upload that nobody awaits has a fault or a forged document behind it.
* `CasesAreKnown` (`CaseIsKnown`): with `AwaitedInv`, every request at work has a page that waits, or nobody will hear its answer.

`CaseLifecycle_proofs`:

* `DeliveryGoesOn`: a behaviour of `CaseLifecycle` is one of `Notifications`, so the theorems above hold in the composition.
* `CaseTypesCorrect`, `StatusFollowsHistory` (`StatusIsLastInHistory`), with `RequestInv`: what a request in flight has read is in the history of its case.
* `OldStatusesAreReal` (`OldStatusWasReal`) follows from `RequestInv`.
* `ChangesAreAccounted` (`ChangesAreReported`): an equation between four counts, kept by showing for each action which of the counted sets
  gains or loses which element (`HistoryMoves`, `RowsStay`, `AboutMoves`, `CountsAreFinite`).
* `TimelinesAreDated` (`TimelineIsDated`): with `TrackInv`, a history begins with the first stage and goes on containing the status a
  customer's first query read, because histories only grow. It is about the one stage that is marked as current or failed; a stage drawn as done
  may have been skipped, and shows a dash. The rest is about the operators of `Timeline`: the stage that is marked as
  reached last is the maximum over a non-empty set of numbers, whose existence is the library's well-founded minimum.

`Session_proofs`:

* `TokensAreRight` (`TokensAreTrue`): with `SignInv`, a token about to be signed says what the row says or the row was changed meanwhile.
* `CodeStepIsAboutNumber` (`CodeStepNamesNumber`): with `WaitInv`, the form waits for one call at a time and still shows its number, or was touched.
* `SessionTypes`: with `LoadInv`, a form that waits has a call of its own, and `IndexInv`, whatever names a token names one that was signed.

`Pages_proofs`, one section per page. Every invariant has the same three parts: what a call may carry and at which point (types alone allow an
answer without rows); which calls of a page may be under way together; and what the answers still to come make up for. The last is the heart of each.

* `SheetsAreStored` (`SheetIsStored`): `FormInv`; an update that was served has left in the row what it carried, and where it carried nothing the text that the row
  held when it was sent (`Stored`). An emptied field therefore differs from the row, and the theorem says by what.
* `EditorsShowSaved` (`EditorsAreSaved`): `SettingsInv`; of a key that is not `unsure` at most one save is under way, and the editor shows its text
  until it is touched.
* `SmsArePreviewed` (`SmsIsAsPreviewed`) and `DesksAreTrue` (`DeskIsTrue`): `DeskInv`. `PreviewInv` follows the text from the preview's answer over the
  screen to the confirmed change, with `excused` beside it; `CaseInv` says that while there is no doubt one load at a time is under way and that
  what it brings is the row's, unless a served change is still to be answered, which loads again.
* `QuietPagesAreTrue` (`QuietPageIsTrue`), `SlotsGuardRows` (`SlotGuardsRow`), `LoadingIsAlwaysBacked` (`LoadingIsBacked`): `ListsInv`, for any number of
  calls in flight. `OrderInv` is the argument: a row that the page or an answer shows otherwise than the table has it is made up for by the answer
  of a change sent later, and that of the last change is right. `ahead` is shown to stay a total order of the calls.
* `ShownOrdersAreStored` (`ShownOrderIsStored`): `PictureInv`. Its `SyncInv` calls screen and rows level when they differ only by what own calls have
  done and not yet shown; either they are, or the order that was sent last will make them so when it is served. `BatchInv` keeps pictures from
  coming back or appearing twice. That two lists with the same members and the same relative order are equal (`SameOrder`) is proved with the smallest index at
  which they would differ; `ConcatOrder`, `AppendOrder`, `WithoutOrder` and `MovedSame` say what the operators on lists do to that order.
* `PanelTypes` (`PanelTypeOK`): `PanelInv`, a behaviour is about one page and keeps the invariant of its module; `OnceInv` adds that
  neither a list page nor an answer has a row twice.

Only model-checked: liveness (`ChangesSettle`, `PendingSettles`, `LockoutEndsOrLeaks`), which is out of the prover's reach, and the four runs that find a
violation. No module declares a RECURSIVE operator.

## 5. Not modelled

* Reads that change nothing and decide nothing: the dashboard's counts (independent queries, no count is promised to agree
  with another), public search and detail pages, the profile, the health check, the status of external services.
* Operations that are one insert nobody waits for: a new listing, a contact message. The form's use for a new listing leaves the
  page with its answer.
* Validation and authorisation of single requests beyond the role (a refused request changes nothing); routes for ADMIN alone.
* Wording, formatting, labels, number formats, pagination, the signatures of file types, the text of codes and messages: data that no property tells apart.
* Configuration and start-up, database migrations and the seed: they run before the system does, and their values are constants here.
* `src/design_handoff_esmaeili_site`: a generated design prototype that the site does not load. Static pages (`app/about`, `app/construction`, the home page).
* The order in which the SMS of two changes arrive: the code promises none, and neither does `Delivery`.
* Clock skew between Postgres and Node, failover of Redis, loss of committed rows.

## 6. Plan

What would come next:

* An abstract case, whose status and history change in one step, implemented by `CaseLifecycle`; the proof has its invariant already (`CaseInv`).
* Action properties of the steps that must not undo anything: an entry of a history is never changed, a picture that was deleted does not come
  back to a page (both are inside the invariants above).
* The hazards that no property covers, each with its reason in `PROJECT.json`: the order of the SMS of two changes, a late 401, a drag that outlives a
  deletion, a form that puts an archived listing back.
