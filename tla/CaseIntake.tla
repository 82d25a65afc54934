----------------------------- MODULE CaseIntake -----------------------------
(***************************************************************************)
(* A customer's request for a free review: the form of                     *)
(* app/services/request/page.tsx, AdminServiceRequestsService.create with  *)
(* its document uploads, and the answer on its way back.                   *)
(*                                                                         *)
(* Documents go to the object store before the case is written, and the    *)
(* two share no transaction; the customer knows the case only by the       *)
(* tracking code in the answer.                                            *)
(***************************************************************************)
EXTENDS Naturals, Sequences, FiniteSets, SequencesExt

CONSTANTS
  Customers,    \* open form pages
  Requests,     \* BOUND: submissions ever sent
  Docs,         \* files on the customers' disks
  Forged,       \* files whose bytes are not of the type they declare
  Codes,        \* tracking codes that randomBytes may yield
  MaxFiles,     \* DOCUMENT_MAX_COUNT, MAX_FILES on the page
  MaxTries,     \* attempts of generateUniqueTrackingCode
  None,
  Faults        \* the faults a run allows

ASSUME IntakeAssumption ==
  /\ IsFiniteSet(Docs)
  /\ Forged \subseteq Docs
  /\ None \notin Requests \cup Codes
  /\ MaxFiles \in Nat
  /\ MaxTries \in Nat \ {0}
  /\ Faults \subseteq {"crash", "db", "storage", "network", "leave"}

VARIABLES
  page,         \* forms: documents chosen, request awaited, what is shown
  server,       \* requests in the server: next await and uploads under way
  blobs,        \* files in the store, named by request and document
  cases,        \* tracking code of the case a request has created
  told,         \* history: requests whose code was shown
  unheard,      \* history: requests nobody waits for, or whose answer was lost
  broken        \* history: requests hit by a fault

vars == <<page, server, blobs, cases, told, unheard, broken>>

Shown == {"nothing", "code", "refusal", "failure"}
Working == {"code", "upload", "commit"}
Ready == {"created", "refused"}
Selections == {s \in SeqOf(Docs, MaxFiles + 1) : IsInjective(s)}

Blank == [docs |-> <<>>, request |-> None, shown |-> "nothing"]
Unsent == [pc |-> "unsent", docs |-> <<>>, code |-> None, tries |-> 0, uploading |-> {}]

FormState == [docs : Seq(Docs), request : Requests \cup {None}, shown : Shown]
RequestState == [pc : {"unsent", "done"} \cup Working \cup Ready, docs : Seq(Docs),
                 code : Codes \cup {None}, tries : 0 .. MaxTries,
                 uploading : SUBSET Docs]

TypeOK ==
  /\ page \in [Customers -> FormState]
  /\ server \in [Requests -> RequestState]
  /\ blobs \subseteq Requests \X Docs
  /\ cases \in [Requests -> Codes \cup {None}]
  /\ told \cup unheard \cup broken \subseteq Requests

Init ==
  /\ page = [c \in Customers |-> Blank]
  /\ server = [r \in Requests |-> Unsent]
  /\ blobs = {}
  /\ cases = [r \in Requests |-> None]
  /\ told = {}
  /\ unheard = {}
  /\ broken = {}

-----------------------------------------------------------------------------
(* The form *)

\* The success screen has replaced the form.
Finished(c) == page[c].shown = "code"

\* The form and its inputs: none is disabled while a request is under way.
FormShown(c) == ~ Finished(c)

\* validateDocuments.  Sizes and declared types are not told apart: the input
\* refuses them as it refuses too many files.
Valid(selection) == Len(selection) <= MaxFiles

\* handleFilesChange: a selection replaces the earlier one, a refused one
\* empties it.
ChooseFiles(c, selection) ==
  /\ FormShown(c)
  /\ page' = [page EXCEPT
       ![c].docs = IF Valid(selection) THEN selection ELSE <<>>,
       ![c].shown = IF Valid(selection) THEN "nothing" ELSE "refusal"]
  /\ UNCHANGED <<server, blobs, cases, told, unheard, broken>>

RemoveDocument(c, n) ==
  /\ FormShown(c)
  /\ n \in DOMAIN page[c].docs
  /\ page' = [page EXCEPT ![c].docs = RemoveAt(@, n)]
  /\ UNCHANGED <<server, blobs, cases, told, unheard, broken>>

\* Mutant: the button is not disabled while a request is under way.
SubmitTwice(c, r) ==
  /\ FormShown(c)
  /\ server[r].pc = "unsent"
  /\ page' = [page EXCEPT ![c].request = r, ![c].shown = "nothing"]
  /\ server' = [server EXCEPT ![r].pc = "code", ![r].docs = page[c].docs]
  /\ UNCHANGED <<blobs, cases, told, unheard, broken>>

\* The submit button is disabled while loading.
SubmitEnabled(c) == FormShown(c) /\ page[c].request = None

\* handleSubmit up to its await.
Submit(c, r) ==
  /\ SubmitEnabled(c)
  /\ Valid(page[c].docs)
  /\ server[r].pc = "unsent"
  /\ page' = [page EXCEPT ![c].request = r, ![c].shown = "nothing"]
  /\ server' = [server EXCEPT ![r].pc = "code", ![r].docs = page[c].docs]
  /\ UNCHANGED <<blobs, cases, told, unheard, broken>>

-----------------------------------------------------------------------------
(* create *)

\* Multer or the ValidationPipe refuses the request before create runs: more
\* files than the limit, a mobile number that is none.
Refuse(r) ==
  /\ server[r].pc = "code" /\ server[r].tries = 0
  /\ server' = [server EXCEPT ![r].pc = "refused"]
  /\ UNCHANGED <<page, blobs, cases, told, unheard, broken>>

HasForged(docs) == \E n \in DOMAIN docs : docs[n] \in Forged

\* map checks and starts the uploads in order, and throws at the first forged
\* document with the uploads before it under way.
Started(docs) ==
  {docs[n] : n \in {i \in DOMAIN docs : \A k \in 1 .. i : docs[k] \notin Forged}}

\* The code is free.
CodeFree(r, code) ==
  LET docs == server[r].docs IN
  /\ server[r].pc = "code"
  /\ \A other \in Requests : cases[other] # code
  /\ server' = [server EXCEPT
       ![r].code = code,
       ![r].pc = IF HasForged(docs) THEN "refused" ELSE IF docs = <<>> THEN "commit" ELSE "upload",
       ![r].uploading = Started(docs)]
  /\ UNCHANGED <<page, blobs, cases, told, unheard, broken>>

\* Mutant: one attempt more than the loop makes.
CodeTakenOnceMore(r) ==
  /\ server[r].pc = "code"
  /\ \E other \in Requests : cases[other] # None
  /\ server' = [server EXCEPT ![r].tries = @ + 1,
       ![r].pc = IF server[r].tries = MaxTries THEN "refused" ELSE "code"]
  /\ UNCHANGED <<page, blobs, cases, told, unheard, broken>>

\* Mutant: the uploads do not wait for the code.
CodeTakenUploads(r) ==
  /\ server[r].pc = "code"
  /\ \E other \in Requests : cases[other] # None
  /\ server' = [server EXCEPT ![r].tries = @ + 1,
       ![r].uploading = ToSet(server[r].docs),
       ![r].pc = IF server[r].tries + 1 = MaxTries THEN "refused" ELSE "code"]
  /\ UNCHANGED <<page, blobs, cases, told, unheard, broken>>

\* The code exists: another attempt, or give up with a 500.
CodeTaken(r) ==
  /\ server[r].pc = "code"
  /\ \E other \in Requests : cases[other] # None
  /\ server' = [server EXCEPT ![r].tries = @ + 1,
       ![r].pc = IF server[r].tries + 1 = MaxTries THEN "refused" ELSE "code"]
  /\ UNCHANGED <<page, blobs, cases, told, unheard, broken>>

\* Mutant: the case is written when the first upload is done.
UploadedRace(r, d) ==
  /\ d \in server[r].uploading
  /\ blobs' = blobs \cup {<<r, d>>}
  /\ server' = [server EXCEPT ![r].uploading = @ \ {d},
       ![r].pc = IF @ = "upload" THEN "commit" ELSE @]
  /\ UNCHANGED <<page, cases, told, unheard, broken>>

\* An upload resolves.  Promise.all waits for the last one; nobody waits any
\* more when the request was refused meanwhile.
Uploaded(r, d) ==
  /\ d \in server[r].uploading
  /\ blobs' = blobs \cup {<<r, d>>}
  /\ server' = [server EXCEPT ![r].uploading = @ \ {d},
       ![r].pc = IF @ = "upload" /\ server[r].uploading = {d} THEN "commit" ELSE @]
  /\ UNCHANGED <<page, cases, told, unheard, broken>>

\* An upload rejects, whether or not the store has kept the file: Promise.all
\* rejects at once and leaves the other uploads running.
UploadRejects(r, d) ==
  /\ "storage" \in Faults
  /\ server[r].pc = "upload"
  /\ d \in server[r].uploading
  /\ \E kept \in SUBSET {<<r, d>>} : blobs' = blobs \cup kept
  /\ server' = [server EXCEPT ![r].uploading = @ \ {d}, ![r].pc = "refused"]
  /\ broken' = broken \cup {r}
  /\ UNCHANGED <<page, cases, told, unheard>>

\* The transaction: case, documents and first history entry.
Commit(r) ==
  /\ server[r].pc = "commit"
  /\ \A other \in Requests : cases[other] # server[r].code
  /\ cases' = [cases EXCEPT ![r] = server[r].code]
  /\ server' = [server EXCEPT ![r].pc = "created"]
  /\ UNCHANGED <<page, blobs, told, unheard, broken>>

\* The unique index refuses the code, or the database fails: rolled back.
CommitRejects(r) ==
  /\ server[r].pc = "commit"
  /\ \/ \E other \in Requests : cases[other] = server[r].code
     \/ "db" \in Faults
  /\ server' = [server EXCEPT ![r].pc = "refused"]
  /\ broken' = broken \cup {r}
  /\ UNCHANGED <<page, blobs, cases, told, unheard>>

QueryRejects(r) ==
  /\ "db" \in Faults
  /\ server[r].pc = "code"
  /\ server' = [server EXCEPT ![r].pc = "refused"]
  /\ UNCHANGED <<page, blobs, cases, told, unheard, broken>>

-----------------------------------------------------------------------------
(* The answer *)

Waiting(r) == {c \in Customers : page[c].request = r}

\* The page that waits shows the code, or the reason the server gave.
Answer(r) ==
  /\ server[r].pc \in Ready
  /\ server' = [server EXCEPT ![r].pc = "done"]
  /\ page' = [c \in Customers |->
       IF c \in Waiting(r)
       THEN [page[c] EXCEPT !.request = None,
               !.shown = IF server[r].pc = "created" THEN "code" ELSE "refusal"]
       ELSE page[c]]
  /\ told' = IF server[r].pc = "created" /\ Waiting(r) # {} THEN told \cup {r} ELSE told
  /\ UNCHANGED <<blobs, cases, unheard, broken>>

\* fetch rejects: no connection, or the answer is lost.
AnswerLost(r) ==
  /\ "network" \in Faults
  /\ server[r].pc \in Ready
  /\ server' = [server EXCEPT ![r].pc = "done"]
  /\ page' = [c \in Customers |->
       IF c \in Waiting(r) THEN [page[c] EXCEPT !.request = None, !.shown = "failure"]
       ELSE page[c]]
  /\ unheard' = unheard \cup {r}
  /\ UNCHANGED <<blobs, cases, told, broken>>

\* The customer leaves the page or loads it again.
Leave(c) ==
  /\ "leave" \in Faults
  /\ page[c] # Blank
  /\ page' = [page EXCEPT ![c] = Blank]
  /\ unheard' = unheard \cup ({page[c].request} \ {None})
  /\ UNCHANGED <<server, blobs, cases, told, broken>>

-----------------------------------------------------------------------------
(* The process ends *)

\* Requests die with it, uploads may or may not have arrived, pages get an error.
ProcessEnds ==
  LET active == {r \in Requests : server[r].pc \in Working \cup Ready} IN
  /\ server' = [r \in Requests |-> [server[r] EXCEPT !.uploading = {},
                  !.pc = IF r \in active THEN "done" ELSE @]]
  /\ \E kept \in SUBSET {b \in Requests \X Docs : b[2] \in server[b[1]].uploading} :
       blobs' = blobs \cup kept
  /\ page' = [c \in Customers |->
       IF page[c].request \in active
       THEN [page[c] EXCEPT !.request = None, !.shown = "failure"] ELSE page[c]]
  /\ unheard' = unheard \cup active
  /\ broken' = broken \cup active
  /\ UNCHANGED <<cases, told>>

Crash == "crash" \in Faults /\ ProcessEnds

\* An upload nobody awaits rejects.  After a forged document no Promise.all was
\* made to catch it: Node ends on the unhandled rejection, unless Sentry listens.
StrayRejects(r, d) ==
  /\ "storage" \in Faults
  /\ server[r].pc # "upload"
  /\ d \in server[r].uploading
  /\ \/ /\ \E kept \in SUBSET {<<r, d>>} : blobs' = blobs \cup kept
        /\ server' = [server EXCEPT ![r].uploading = @ \ {d}]
        /\ UNCHANGED <<page, cases, told, unheard, broken>>
     \/ HasForged(server[r].docs) /\ ProcessEnds

-----------------------------------------------------------------------------
Form(c) ==
  \/ \E s \in Selections : ChooseFiles(c, s)
  \/ \E n \in 1 .. MaxFiles : RemoveDocument(c, n)
  \/ \E r \in Requests : Submit(c, r)
  \/ Leave(c)

Create(r) ==
  \/ Refuse(r)
  \/ \E code \in Codes : CodeFree(r, code)
  \/ CodeTaken(r)
  \/ QueryRejects(r)
  \/ \E d \in Docs : Uploaded(r, d) \/ UploadRejects(r, d) \/ StrayRejects(r, d)
  \/ Commit(r)
  \/ CommitRejects(r)
  \/ Answer(r)
  \/ AnswerLost(r)

Next ==
  \/ \E c \in Customers : Form(c)
  \/ \E r \in Requests : Create(r)
  \/ Crash

Spec == Init /\ [][Next]_vars

-----------------------------------------------------------------------------
(* Properties *)

\* Staff can open every document of a case: the case is written only when all
\* its uploads have resolved, also while other uploads still run or fail.
DocumentsAreStored ==
  \A r \in Requests : cases[r] # None =>
    \A n \in DOMAIN server[r].docs : <<r, server[r].docs[n]>> \in blobs

\* A file in the store belongs to a case or to a request at work, unless a fault
\* hit that request or one of its documents was forged.
BlobHasOwner ==
  \A b \in blobs :
    \/ cases[b[1]] # None
    \/ server[b[1]].pc \in Working
    \/ b[1] \in broken
    \/ HasForged(server[b[1]].docs)

\* No case is created behind the customer's back: its code was shown, or the
\* answer is on its way to a page that waits for it, or the answer was lost.
CaseIsKnown ==
  \A r \in Requests : cases[r] # None =>
    \/ r \in told \cup unheard
    \/ server[r].pc = "created" /\ Waiting(r) # {}

-----------------------------------------------------------------------------
(* Strengthening: what makes the properties above inductive *)

\* Nothing is stored for a request before its code is found, and no case written
\* before its documents are stored.
StoreInv ==
  \A r \in Requests :
    /\ server[r].pc \in {"unsent", "code"} =>
         server[r].uploading = {} /\ \A b \in blobs : b[1] # r
    /\ server[r].pc = "upload" =>
         \A n \in DOMAIN server[r].docs :
           server[r].docs[n] \in server[r].uploading \/ <<r, server[r].docs[n]>> \in blobs
    /\ server[r].pc \in {"commit", "created"} =>
         \A n \in DOMAIN server[r].docs : <<r, server[r].docs[n]>> \in blobs
    /\ server[r].pc = "created" => cases[r] # None
    /\ cases[r] # None => server[r].pc \in {"created", "done"}

\* An upload under way belongs to a request that waits for it, unless a fault or
\* a forged document made that request end before it.
UploadInv ==
  \A r \in Requests : server[r].uploading # {} =>
    \/ server[r].pc = "upload"
    \/ r \in broken
    \/ HasForged(server[r].docs)

\* A page waits for every request at work, or nobody will hear its answer.
AwaitedInv ==
  \A r \in Requests : server[r].pc \in Working \cup Ready =>
    r \in unheard \/ Waiting(r) # {}
=============================================================================
