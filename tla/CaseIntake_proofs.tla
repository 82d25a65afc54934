-------------------------- MODULE CaseIntake_proofs --------------------------
(***************************************************************************)
(* Theorems about CaseIntake for every number of forms, requests, documents *)
(* and codes, every limit and every set of faults: types, then what the    *)
(* object store, the database and the customer's page still agree on.      *)
(***************************************************************************)
EXTENDS CaseIntake, SequenceTheorems, TLAPS

-----------------------------------------------------------------------------
(* Types *)

\* A request that still looks for a code has an attempt left.
TriesLeft == \A r \in Requests : server[r].pc \in {"unsent", "code"} => server[r].tries < MaxTries

TypeInv == TypeOK /\ TriesLeft

\* Taking one document out of a selection leaves a selection.
LEMMA RemoveAtType ==
  ASSUME NEW s \in Seq(Docs), NEW n \in DOMAIN s
  PROVE  RemoveAt(s, n) \in Seq(Docs)
<1>1. n \in 1 .. Len(s) /\ Len(s) \in Nat
  OBVIOUS
<1>2. SubSeq(s, 1, n - 1) \in Seq(Docs)
  BY <1>1, SubSeqProperties
<1>3. SubSeq(s, n + 1, Len(s)) \in Seq(Docs)
  BY <1>1, SubSeqProperties
<1> QED
  BY <1>2, <1>3, ConcatProperties DEF RemoveAt

\* What the file input may hand over.
LEMMA SelectionType == Selections \subseteq Seq(Docs)
  BY IntakeAssumption DEF Selections, SeqOf

LEMMA StartedType ==
  ASSUME NEW docs \in Seq(Docs)
  PROVE  Started(docs) \subseteq Docs
  BY DEF Started

\* A process that ends leaves requests and forms typed.
LEMMA EndsTyped ==
  ASSUME TypeInv, ProcessEnds
  PROVE  TypeInv'
<1> USE DEF TypeInv, TypeOK, TriesLeft
<1>1. ASSUME NEW r \in Requests PROVE server'[r] \in RequestState
  <2>1. server[r] \in RequestState
    OBVIOUS
  <2> QED BY <2>1 DEF ProcessEnds, RequestState
<1>2. ASSUME NEW c \in Customers PROVE page'[c] \in FormState
  <2>1. page[c] \in FormState
    OBVIOUS
  <2> QED BY <2>1 DEF ProcessEnds, FormState, Shown
<1>3. server' \in [Requests -> RequestState] /\ page' \in [Customers -> FormState]
  BY <1>1, <1>2 DEF ProcessEnds
<1>4. TriesLeft'
  <2> SUFFICES ASSUME NEW r \in Requests, server'[r].pc \in {"unsent", "code"}
               PROVE  server'[r].tries < MaxTries
    BY DEF TriesLeft
  <2>1. server[r] \in RequestState
    OBVIOUS
  <2>2. server'[r].tries = server[r].tries /\ server[r].pc = server'[r].pc
    BY <2>1 DEF ProcessEnds, RequestState
  <2> QED BY <2>2
<1>5. /\ blobs' \subseteq Requests \X Docs
      /\ cases' = cases
      /\ told' \cup unheard' \cup broken' \subseteq Requests
  BY DEF ProcessEnds, RequestState
<1> QED BY <1>3, <1>4, <1>5

\* Types are inductive together with the attempts left.
LEMMA TypesAndTries == Spec => []TypeInv
<1>1. Init => TypeInv
  BY IntakeAssumption
     DEF Init, TypeInv, TypeOK, TriesLeft, Blank, Unsent, Shown, FormState, RequestState
<1>2. TypeInv /\ [Next]_vars => TypeInv'
  <2> SUFFICES ASSUME TypeInv, [Next]_vars PROVE TypeInv'
    OBVIOUS
  <2> DEFINE Rest == /\ blobs' \subseteq Requests \X Docs
                     /\ cases' \in [Requests -> Codes \cup {None}]
                     /\ told' \cup unheard' \cup broken' \subseteq Requests
  <2> USE IntakeAssumption
  <2>t. /\ page \in [Customers -> FormState] /\ server \in [Requests -> RequestState]
        /\ blobs \subseteq Requests \X Docs
        /\ cases \in [Requests -> Codes \cup {None}]
        /\ told \cup unheard \cup broken \subseteq Requests
    BY DEF TypeInv, TypeOK
  <2>s. ASSUME Rest, server' \in [Requests -> RequestState], TriesLeft',
               page' \in [Customers -> FormState]
        PROVE  TypeInv'
    BY <2>s DEF TypeInv, TypeOK
  <2>p. server' = server => server' \in [Requests -> RequestState] /\ TriesLeft'
    BY <2>t DEF TypeInv, TriesLeft
  <2>q. page' = page => page' \in [Customers -> FormState]
    BY <2>t
  <2>1. ASSUME NEW c \in Customers, NEW s \in Selections, ChooseFiles(c, s) PROVE TypeInv'
    <3>1. s \in Seq(Docs) /\ <<>> \in Seq(Docs)
      BY SelectionType
    <3>2. page[c] \in FormState
      BY <2>t
    <3>3. PICK d \in Seq(Docs), w \in Shown : page' = [page EXCEPT ![c].docs = d, ![c].shown = w]
      BY <2>1, <3>1 DEF ChooseFiles, Shown
    <3>4. page' \in [Customers -> FormState]
      BY <2>t, <3>2, <3>3 DEF FormState
    <3> QED BY <2>1, <2>t, <2>p, <2>s, <3>4 DEF ChooseFiles
  <2>2. ASSUME NEW c \in Customers, NEW n \in 1 .. MaxFiles, RemoveDocument(c, n) PROVE TypeInv'
    <3>1. page[c] \in FormState
      BY <2>t
    <3>2. RemoveAt(page[c].docs, n) \in Seq(Docs)
      BY <2>2, <3>1, RemoveAtType DEF RemoveDocument, FormState
    <3>3. page' \in [Customers -> FormState]
      BY <2>2, <2>t, <3>1, <3>2 DEF RemoveDocument, FormState
    <3> QED BY <2>2, <2>t, <2>p, <2>s, <3>3 DEF RemoveDocument
  <2>3. ASSUME NEW c \in Customers, NEW r \in Requests, Submit(c, r) PROVE TypeInv'
    <3>1. page[c] \in FormState /\ server[r] \in RequestState
      BY <2>t
    <3>2. page' \in [Customers -> FormState]
      BY <2>3, <2>t, <3>1 DEF Submit, FormState, Shown
    <3>3. server' \in [Requests -> RequestState]
      BY <2>3, <2>t, <3>1 DEF Submit, RequestState, FormState, Working
    <3>4. TriesLeft'
      BY <2>3, <2>t DEF Submit, TypeInv, TriesLeft, RequestState
    <3> QED BY <2>3, <2>t, <2>s, <3>2, <3>3, <3>4 DEF Submit
  <2>4. ASSUME NEW c \in Customers, Leave(c) PROVE TypeInv'
    <3>1. page' \in [Customers -> FormState]
      BY <2>4, <2>t DEF Leave, Blank, FormState, Shown
    <3>2. unheard' \subseteq Requests
      BY <2>4, <2>t DEF Leave, FormState
    <3> QED BY <2>4, <2>t, <2>p, <2>s, <3>1, <3>2 DEF Leave
  <2>5. ASSUME NEW r \in Requests, Refuse(r) PROVE TypeInv'
    <3>1. server[r] \in RequestState
      BY <2>t
    <3>2. server' \in [Requests -> RequestState]
      BY <2>5, <2>t, <3>1 DEF Refuse, RequestState, Ready
    <3>3. TriesLeft'
      BY <2>5, <2>t DEF Refuse, TypeInv, TriesLeft, RequestState
    <3> QED BY <2>5, <2>t, <2>q, <2>s, <3>2, <3>3 DEF Refuse
  <2>6. ASSUME NEW r \in Requests, NEW code \in Codes, CodeFree(r, code) PROVE TypeInv'
    <3>1. server[r] \in RequestState
      BY <2>t
    <3>2. Started(server[r].docs) \subseteq Docs
      BY <3>1, StartedType DEF RequestState
    <3>3. PICK p \in {"refused", "commit", "upload"} :
            server' = [server EXCEPT ![r].code = code, ![r].pc = p,
                                     ![r].uploading = Started(server[r].docs)]
      BY <2>6 DEF CodeFree
    <3>4. p \in {"unsent", "done"} \cup Working \cup Ready
      BY DEF Working, Ready
    <3>5. server' \in [Requests -> RequestState]
      BY <2>t, <3>1, <3>2, <3>3, <3>4 DEF RequestState
    <3>6. TriesLeft'
      BY <2>t, <3>1, <3>3 DEF TypeInv, TriesLeft, RequestState
    <3> QED BY <2>6, <2>t, <2>q, <2>s, <3>5, <3>6 DEF CodeFree
  <2>7. ASSUME NEW r \in Requests, CodeTaken(r) PROVE TypeInv'
    <3>1. server[r] \in RequestState /\ server[r].tries < MaxTries
      BY <2>7, <2>t DEF CodeTaken, TypeInv, TriesLeft
    <3>2. PICK p \in {"refused", "code"} :
            /\ server' = [server EXCEPT ![r].tries = @ + 1, ![r].pc = p]
            /\ p = "code" => server[r].tries + 1 # MaxTries
      BY <2>7 DEF CodeTaken
    <3>3. server[r].tries + 1 \in 0 .. MaxTries /\ (p = "code" => server[r].tries + 1 < MaxTries)
      BY <3>1, <3>2 DEF RequestState
    <3>4. p \in {"unsent", "done"} \cup Working \cup Ready
      BY DEF Working, Ready
    <3>5. server' \in [Requests -> RequestState]
      BY <2>t, <3>1, <3>2, <3>3, <3>4 DEF RequestState
    <3>6. TriesLeft'
      BY <2>t, <3>1, <3>2, <3>3 DEF TypeInv, TriesLeft, RequestState
    <3> QED BY <2>7, <2>t, <2>q, <2>s, <3>5, <3>6 DEF CodeTaken
  <2>8. ASSUME NEW r \in Requests, QueryRejects(r) PROVE TypeInv'
    <3>1. server[r] \in RequestState
      BY <2>t
    <3>2. server' \in [Requests -> RequestState]
      BY <2>8, <2>t, <3>1 DEF QueryRejects, RequestState, Ready
    <3>3. TriesLeft'
      BY <2>8, <2>t DEF QueryRejects, TypeInv, TriesLeft, RequestState
    <3> QED BY <2>8, <2>t, <2>q, <2>s, <3>2, <3>3 DEF QueryRejects
  <2>9. ASSUME NEW r \in Requests, NEW d \in Docs, Uploaded(r, d) PROVE TypeInv'
    <3>1. server[r] \in RequestState
      BY <2>t
    <3>2. PICK p \in {server[r].pc, "commit"} :
            server' = [server EXCEPT ![r].uploading = @ \ {d}, ![r].pc = p]
      BY <2>9 DEF Uploaded
    <3>3. p \in {"unsent", "done"} \cup Working \cup Ready
      BY <3>1 DEF Working, RequestState
    <3>4. server' \in [Requests -> RequestState]
      BY <2>t, <3>1, <3>2, <3>3 DEF RequestState
    <3>5. TriesLeft'
      BY <2>t, <3>1, <3>2 DEF TypeInv, TriesLeft, RequestState
    <3> QED BY <2>9, <2>t, <2>q, <2>s, <3>4, <3>5 DEF Uploaded
  <2>10. ASSUME NEW r \in Requests, NEW d \in Docs, UploadRejects(r, d) PROVE TypeInv'
    <3>1. server[r] \in RequestState
      BY <2>t
    <3>2. server' \in [Requests -> RequestState]
      BY <2>10, <2>t, <3>1 DEF UploadRejects, RequestState, Ready
    <3>3. TriesLeft'
      BY <2>10, <2>t DEF UploadRejects, TypeInv, TriesLeft, RequestState
    <3> QED BY <2>10, <2>t, <2>q, <2>s, <3>2, <3>3 DEF UploadRejects
  <2>11. ASSUME NEW r \in Requests, Commit(r) PROVE TypeInv'
    <3>1. server[r] \in RequestState
      BY <2>t
    <3>2. server' \in [Requests -> RequestState]
      BY <2>11, <2>t, <3>1 DEF Commit, RequestState, Ready
    <3>3. TriesLeft'
      BY <2>11, <2>t DEF Commit, TypeInv, TriesLeft, RequestState
    <3>4. cases' \in [Requests -> Codes \cup {None}]
      BY <2>11, <2>t, <3>1 DEF Commit, RequestState
    <3> QED BY <2>11, <2>t, <2>q, <2>s, <3>2, <3>3, <3>4 DEF Commit
  <2>12. ASSUME NEW r \in Requests, CommitRejects(r) PROVE TypeInv'
    <3>1. server[r] \in RequestState
      BY <2>t
    <3>2. server' \in [Requests -> RequestState]
      BY <2>12, <2>t, <3>1 DEF CommitRejects, RequestState, Ready
    <3>3. TriesLeft'
      BY <2>12, <2>t DEF CommitRejects, TypeInv, TriesLeft, RequestState
    <3> QED BY <2>12, <2>t, <2>q, <2>s, <3>2, <3>3 DEF CommitRejects
  <2>d. ASSUME NEW r \in Requests, server' = [server EXCEPT ![r].pc = "done"]
        PROVE  server' \in [Requests -> RequestState] /\ TriesLeft'
    <3>1. server[r] \in RequestState
      BY <2>t
    <3>2. server' \in [Requests -> RequestState]
      BY <2>d, <2>t, <3>1 DEF RequestState
    <3>3. TriesLeft'
      BY <2>d, <2>t DEF TypeInv, TriesLeft, RequestState
    <3> QED BY <3>2, <3>3
  <2>13. ASSUME NEW r \in Requests, Answer(r) PROVE TypeInv'
    <3>1. ASSUME NEW c \in Customers PROVE page'[c] \in FormState
      <4>1. page[c] \in FormState
        BY <2>t
      <4>2. \E w \in Shown : \/ page'[c] = [page[c] EXCEPT !.request = None, !.shown = w]
                             \/ page'[c] = page[c]
        BY <2>13 DEF Answer, Shown
      <4> QED BY <4>1, <4>2 DEF FormState
    <3>2. page' \in [Customers -> FormState]
      BY <2>13, <3>1 DEF Answer
    <3> QED BY <2>13, <2>t, <2>d, <2>s, <3>2 DEF Answer
  <2>14. ASSUME NEW r \in Requests, AnswerLost(r) PROVE TypeInv'
    <3>1. ASSUME NEW c \in Customers PROVE page'[c] \in FormState
      <4>1. page[c] \in FormState
        BY <2>t
      <4>2. \/ page'[c] = [page[c] EXCEPT !.request = None, !.shown = "failure"]
            \/ page'[c] = page[c]
        BY <2>14 DEF AnswerLost
      <4> QED BY <4>1, <4>2 DEF FormState, Shown
    <3>2. page' \in [Customers -> FormState]
      BY <2>14, <3>1 DEF AnswerLost
    <3> QED BY <2>14, <2>t, <2>d, <2>s, <3>2 DEF AnswerLost
  <2>15. ASSUME NEW r \in Requests, NEW d \in Docs, StrayRejects(r, d) PROVE TypeInv'
    <3>1. CASE ProcessEnds
      BY <3>1, EndsTyped
    <3>2. CASE ~ ProcessEnds
      <4>1. server[r] \in RequestState
        BY <2>t
      <4>2. /\ server' = [server EXCEPT ![r].uploading = @ \ {d}]
            /\ blobs' \subseteq Requests \X Docs
            /\ UNCHANGED <<page, cases, told, unheard, broken>>
        BY <2>15, <2>t, <3>2 DEF StrayRejects
      <4>3. server' \in [Requests -> RequestState]
        BY <2>t, <4>1, <4>2 DEF RequestState
      <4>4. TriesLeft'
        BY <2>t, <4>2 DEF TypeInv, TriesLeft, RequestState
      <4> QED BY <2>t, <2>q, <2>s, <4>2, <4>3, <4>4
    <3> QED BY <3>1, <3>2
  <2>16. CASE Crash
    BY <2>16, EndsTyped DEF Crash
  <2>17. CASE UNCHANGED vars
    BY <2>17, <2>t, <2>p, <2>q, <2>s DEF vars
  <2> QED
    BY <2>1, <2>2, <2>3, <2>4, <2>5, <2>6, <2>7, <2>8, <2>9, <2>10, <2>11,
       <2>12, <2>13, <2>14, <2>15, <2>16, <2>17 DEF Next, Form, Create
<1> QED
  BY <1>1, <1>2, PTL DEF Spec

\* Every reachable state of the form, the server and the stores is well typed,
\* and no request tries more codes than its limit.
THEOREM TypeCorrect == Spec => []TypeOK
<1>1. TypeInv => TypeOK
  BY DEF TypeInv
<1> QED
  BY <1>1, TypesAndTries, PTL

-----------------------------------------------------------------------------
(* The two stores *)

\* What a step may do to the store: blobs only appear, and only for a request
\* that has uploads under way.
LEMMA BlobsGrow ==
  ASSUME TypeInv, [Next]_vars
  PROVE  /\ blobs \subseteq blobs'
         /\ \A b \in blobs' \ blobs :
              b[1] \in Requests /\ b[2] \in server[b[1]].uploading
<1> USE DEF TypeInv, TypeOK
<1>1. ASSUME ProcessEnds PROVE /\ blobs \subseteq blobs'
                               /\ \A b \in blobs' \ blobs :
                                    b[1] \in Requests /\ b[2] \in server[b[1]].uploading
  BY <1>1 DEF ProcessEnds
<1>2. ASSUME NEW c \in Customers, Form(c) PROVE blobs' = blobs
  BY <1>2 DEF Form, ChooseFiles, RemoveDocument, Submit, Leave
<1>3. ASSUME NEW r \in Requests, Create(r) PROVE /\ blobs \subseteq blobs'
                               /\ \A b \in blobs' \ blobs :
                                    b[1] \in Requests /\ b[2] \in server[b[1]].uploading
  <2>1. ASSUME NEW d \in Docs, d \in server[r].uploading,
               \E kept \in SUBSET {<<r, d>>} : blobs' = blobs \cup kept
        PROVE  /\ blobs \subseteq blobs'
               /\ \A b \in blobs' \ blobs :
                    b[1] \in Requests /\ b[2] \in server[b[1]].uploading
    <3>1. \A b \in blobs' \ blobs : b = <<r, d>>
      BY <2>1
    <3> QED BY <2>1, <3>1
  <2>2. ASSUME NEW d \in Docs, Uploaded(r, d) \/ UploadRejects(r, d)
        PROVE  /\ d \in server[r].uploading
               /\ \E kept \in SUBSET {<<r, d>>} : blobs' = blobs \cup kept
    <3>1. {<<r, d>>} \in SUBSET {<<r, d>>}
      OBVIOUS
    <3> QED BY <2>2, <3>1 DEF Uploaded, UploadRejects
  <2>3. ASSUME NEW d \in Docs, StrayRejects(r, d)
        PROVE  \/ ProcessEnds
               \/ /\ d \in server[r].uploading
                  /\ \E kept \in SUBSET {<<r, d>>} : blobs' = blobs \cup kept
    BY <2>3 DEF StrayRejects
  <2>4. ASSUME blobs' = blobs
        PROVE  /\ blobs \subseteq blobs'
               /\ \A b \in blobs' \ blobs :
                    b[1] \in Requests /\ b[2] \in server[b[1]].uploading
    BY <2>4
  <2> QED
    BY <1>1, <1>3, <2>1, <2>2, <2>3, <2>4
       DEF Create, Refuse, CodeFree, CodeTaken, QueryRejects, Commit, CommitRejects,
           Answer, AnswerLost
<1> QED
  BY <1>1, <1>2, <1>3 DEF Next, Crash, vars

\* A process that ends takes the requests at work with it and leaves the others.
LEMMA EndsMoves ==
  ASSUME TypeInv, ProcessEnds, NEW r \in Requests
  PROVE  /\ server'[r].docs = server[r].docs
         /\ \/ server[r].pc \in {"unsent", "done"} /\ server'[r].pc = server[r].pc
            \/ server[r].pc \notin {"unsent", "done"} /\ server'[r].pc = "done"
         /\ server'[r].uploading = {}
<1>1. server[r] \in RequestState
  BY DEF TypeInv, TypeOK
<1>2. server'[r] = [server[r] EXCEPT !.uploading = {},
                      !.pc = IF server[r].pc \in Working \cup Ready THEN "done" ELSE @]
  BY DEF ProcessEnds
<1> QED
  BY <1>1, <1>2 DEF RequestState, Working, Ready

\* Nothing is stored before the code is found, nothing written before all is
\* stored.
LEMMA StoredFirst == Spec => []StoreInv
<1>1. Init => StoreInv
  BY IntakeAssumption DEF Init, StoreInv, Unsent
<1>2. TypeInv /\ StoreInv /\ [Next]_vars => StoreInv'
  <2> SUFFICES ASSUME TypeInv, StoreInv, [Next]_vars PROVE StoreInv'
    OBVIOUS
  <2> USE IntakeAssumption DEF TypeInv, TypeOK, RequestState, StoreInv, Working, Ready
  <2>1. ASSUME NEW c \in Customers, NEW s \in Selections, ChooseFiles(c, s) PROVE StoreInv'
    BY <2>1 DEF ChooseFiles
  <2>2. ASSUME NEW c \in Customers, NEW n \in 1 .. MaxFiles, RemoveDocument(c, n) PROVE StoreInv'
    BY <2>2 DEF RemoveDocument
  <2>3. ASSUME NEW c \in Customers, NEW r \in Requests, Submit(c, r) PROVE StoreInv'
    BY <2>3 DEF Submit
  <2>4. ASSUME NEW c \in Customers, Leave(c) PROVE StoreInv'
    BY <2>4 DEF Leave
  <2>5. ASSUME NEW r \in Requests, Refuse(r) PROVE StoreInv'
    BY <2>5 DEF Refuse
  <2>6. ASSUME NEW r \in Requests, NEW code \in Codes, CodeFree(r, code) PROVE StoreInv'
    <3>1. ~ HasForged(server[r].docs) =>
            \A n \in DOMAIN server[r].docs : server[r].docs[n] \in Started(server[r].docs)
      BY DEF HasForged, Started
    <3>2. PICK p \in {"refused", "commit", "upload"} :
            /\ server' = [server EXCEPT ![r].code = code, ![r].pc = p,
                                       ![r].uploading = Started(server[r].docs)]
            /\ p = "commit" => server[r].docs = <<>>
            /\ p = "upload" => ~ HasForged(server[r].docs)
      BY <2>6 DEF CodeFree
    <3>3. server[r].pc = "code" /\ blobs' = blobs /\ cases' = cases
      BY <2>6 DEF CodeFree
    <3>4. server'[r].pc = p /\ server'[r].docs = server[r].docs
          /\ server'[r].uploading = Started(server[r].docs)
      BY <3>2
    <3>5. \A q \in Requests : q # r => server'[q] = server[q]
      BY <3>2
    <3> QED BY <3>1, <3>2, <3>3, <3>4, <3>5
  <2>7. ASSUME NEW r \in Requests, CodeTaken(r) PROVE StoreInv'
    BY <2>7 DEF CodeTaken
  <2>8. ASSUME NEW r \in Requests, QueryRejects(r) PROVE StoreInv'
    BY <2>8 DEF QueryRejects
  <2>9. ASSUME NEW r \in Requests, NEW d \in Docs, Uploaded(r, d) PROVE StoreInv'
    BY <2>9 DEF Uploaded
  <2>10. ASSUME NEW r \in Requests, NEW d \in Docs, UploadRejects(r, d) PROVE StoreInv'
    BY <2>10 DEF UploadRejects
  <2>11. ASSUME NEW r \in Requests, Commit(r) PROVE StoreInv'
    BY <2>11 DEF Commit
  <2>12. ASSUME NEW r \in Requests, CommitRejects(r) PROVE StoreInv'
    BY <2>12 DEF CommitRejects
  <2>13. ASSUME NEW r \in Requests, Answer(r) PROVE StoreInv'
    <3>1. /\ server' = [server EXCEPT ![r].pc = "done"]
          /\ server[r].pc \in Ready /\ UNCHANGED <<blobs, cases>>
      BY <2>13 DEF Answer
    <3> QED BY <3>1
  <2>14. ASSUME NEW r \in Requests, AnswerLost(r) PROVE StoreInv'
    <3>1. /\ server' = [server EXCEPT ![r].pc = "done"]
          /\ server[r].pc \in Ready /\ UNCHANGED <<blobs, cases>>
      BY <2>14 DEF AnswerLost
    <3> QED BY <3>1
  <2>15. ASSUME ProcessEnds PROVE StoreInv'
    <3>1. ASSUME NEW r \in Requests
          PROVE  /\ server'[r].docs = server[r].docs
                 /\ \/ server[r].pc \in {"unsent", "done"} /\ server'[r].pc = server[r].pc
                    \/ server[r].pc \notin {"unsent", "done"} /\ server'[r].pc = "done"
                 /\ server'[r].uploading = {}
      BY <2>15, EndsMoves
    <3>2. cases' = cases
      BY <2>15 DEF ProcessEnds
    <3>3. \A b \in blobs' : b \in blobs \/ server[b[1]].uploading # {}
      BY <2>15 DEF ProcessEnds
    <3> QED BY <3>1, <3>2, <3>3
  <2>16. ASSUME NEW r \in Requests, NEW d \in Docs, StrayRejects(r, d) PROVE StoreInv'
    <3>1. CASE ProcessEnds
      BY <2>15, <3>1
    <3>2. CASE ~ ProcessEnds
      <4>1. /\ server' = [server EXCEPT ![r].uploading = @ \ {d}]
            /\ server[r].pc # "upload" /\ d \in server[r].uploading
            /\ \E kept \in SUBSET {<<r, d>>} : blobs' = blobs \cup kept
            /\ cases' = cases
        BY <2>16, <3>2 DEF StrayRejects
      <4> QED BY <4>1
    <3> QED BY <3>1, <3>2
  <2>17. CASE UNCHANGED vars
    BY <2>17 DEF vars
  <2> QED
    BY <2>1, <2>2, <2>3, <2>4, <2>5, <2>6, <2>7, <2>8, <2>9, <2>10, <2>11,
       <2>12, <2>13, <2>14, <2>15, <2>16, <2>17 DEF Next, Form, Create, Crash
<1> QED
  BY <1>1, <1>2, TypesAndTries, PTL DEF Spec

\* A step leaves the documents of a submitted request alone, and writes a case
\* only at the commit of its own request.
LEMMA RequestMoves ==
  ASSUME TypeInv, [Next]_vars, NEW q \in Requests
  PROVE  /\ server[q].pc # "unsent" => server'[q].docs = server[q].docs
         /\ cases'[q] = cases[q] \/ server[q].pc = "commit"
<1> USE DEF TypeInv, TypeOK, RequestState
<1>1. ASSUME ProcessEnds
      PROVE  server'[q].docs = server[q].docs /\ cases' = cases
  BY <1>1, EndsMoves DEF ProcessEnds
<1>2. ASSUME NEW c \in Customers, Form(c)
      PROVE  /\ server[q].pc # "unsent" => server'[q].docs = server[q].docs
             /\ cases' = cases
  BY <1>2 DEF Form, ChooseFiles, RemoveDocument, Submit, Leave
<1>3. ASSUME NEW r \in Requests, Create(r)
      PROVE  /\ server'[q].docs = server[q].docs
             /\ cases'[q] = cases[q] \/ server[q].pc = "commit"
  <2>1. CASE Refuse(r) \/ QueryRejects(r) \/ CodeTaken(r)
    <3>1. CASE CodeTaken(r)
      <4>1. PICK t : server' = [server EXCEPT ![r].tries = server[r].tries + 1, ![r].pc = t]
        BY <3>1 DEF CodeTaken
      <4>2. cases' = cases
        BY <3>1 DEF CodeTaken
      <4> QED BY <4>1, <4>2
    <3>2. CASE Refuse(r) \/ QueryRejects(r)
      <4>1. server' = [server EXCEPT ![r].pc = "refused"] /\ cases' = cases
        BY <3>2 DEF Refuse, QueryRejects
      <4> QED BY <4>1
    <3> QED BY <2>1, <3>1, <3>2
  <2>6. CASE Answer(r)
    <3>1. server' = [server EXCEPT ![r].pc = "done"] /\ cases' = cases
      BY <2>6 DEF Answer
    <3> QED BY <3>1
  <2>7. CASE AnswerLost(r)
    <3>1. server' = [server EXCEPT ![r].pc = "done"] /\ cases' = cases
      BY <2>7 DEF AnswerLost
    <3> QED BY <3>1
  <2>2. ASSUME NEW code \in Codes, CodeFree(r, code)
        PROVE  server'[q].docs = server[q].docs /\ cases' = cases
    <3>1. PICK w : server' = [server EXCEPT ![r].code = code, ![r].pc = w,
                                          ![r].uploading = Started(server[r].docs)]
      BY <2>2 DEF CodeFree
    <3>2. cases' = cases
      BY <2>2 DEF CodeFree
    <3> QED BY <3>1, <3>2
  <2>3. ASSUME NEW d \in Docs, Uploaded(r, d) \/ UploadRejects(r, d)
        PROVE  server'[q].docs = server[q].docs /\ cases' = cases
    <3>1. PICK w : server' = [server EXCEPT ![r].uploading = @ \ {d}, ![r].pc = w]
      BY <2>3 DEF Uploaded, UploadRejects
    <3>2. cases' = cases
      BY <2>3 DEF Uploaded, UploadRejects
    <3> QED BY <3>1, <3>2
  <2>4. ASSUME NEW d \in Docs, StrayRejects(r, d)
        PROVE  server'[q].docs = server[q].docs /\ cases' = cases
    BY <1>1, <2>4 DEF StrayRejects
  <2>5. CASE Commit(r) \/ CommitRejects(r)
    BY <2>5 DEF Commit, CommitRejects
  <2> QED
    BY <1>3, <2>1, <2>2, <2>3, <2>4, <2>5, <2>6, <2>7 DEF Create
<1> QED
  BY <1>1, <1>2, <1>3 DEF Next, Crash, vars

\* Staff can open every document of a case, whatever fails and however many
\* uploads run.
THEOREM DocumentsStored == Spec => []DocumentsAreStored
<1>1. Init => DocumentsAreStored
  BY DEF Init, DocumentsAreStored
<1>2. TypeInv /\ StoreInv /\ DocumentsAreStored /\ [Next]_vars => DocumentsAreStored'
  <2> SUFFICES ASSUME TypeInv, StoreInv, DocumentsAreStored, [Next]_vars,
                      NEW r \in Requests, cases'[r] # None,
                      NEW n \in DOMAIN server'[r].docs
               PROVE  <<r, server'[r].docs[n]>> \in blobs'
    BY DEF DocumentsAreStored
  <2>1. blobs \subseteq blobs'
    BY BlobsGrow
  <2>2. cases[r] # None \/ server[r].pc = "commit"
    BY RequestMoves
  <2>3. server[r].pc # "unsent"
    BY <2>2 DEF StoreInv
  <2>4. server'[r].docs = server[r].docs
    BY <2>3, RequestMoves
  <2>5. <<r, server[r].docs[n]>> \in blobs
    BY <2>2, <2>4 DEF StoreInv, DocumentsAreStored
  <2> QED
    BY <2>1, <2>4, <2>5
<1> QED
  BY <1>1, <1>2, TypesAndTries, StoredFirst, PTL DEF Spec

\* What a step may do to a request that has found its code: it gives up the
\* work only with a case or a fault behind it, and its uploads only end.
Held(q) == cases[q] # None \/ q \in broken

LEMMA WorkIsHeld ==
  ASSUME TypeInv, StoreInv, [Next]_vars, NEW q \in Requests,
         server[q].pc \notin {"unsent", "code"}
  PROVE  /\ Held(q) => Held(q)'
         /\ server[q].pc \in Working => server'[q].pc \in Working \/ Held(q)'
         /\ server'[q].uploading \subseteq server[q].uploading
         /\ server[q].pc = "upload" =>
              server'[q].pc = "upload" \/ server'[q].uploading = {} \/ q \in broken'
<1> USE DEF TypeInv, TypeOK, RequestState, Held
<1> DEFINE Kept == /\ cases' = cases /\ broken' = broken
                   /\ server'[q].pc = server[q].pc
                   /\ server'[q].uploading = server[q].uploading
           Aim == /\ Held(q) => Held(q)'
                  /\ server[q].pc \in Working => server'[q].pc \in Working \/ Held(q)'
                  /\ server'[q].uploading \subseteq server[q].uploading
                  /\ server[q].pc = "upload" =>
                       \/ server'[q].pc = "upload"
                       \/ server'[q].uploading = {}
                       \/ q \in broken'
<1>k. ASSUME Kept PROVE Aim
  BY <1>k
<1>1. ASSUME ProcessEnds PROVE Aim
  <2>1. server'[q].uploading = {}
        /\ (server[q].pc \in Working => q \in broken')
        /\ broken \subseteq broken' /\ cases' = cases
    BY <1>1, EndsMoves DEF ProcessEnds
  <2> QED BY <2>1
<1>2. ASSUME NEW c \in Customers, Form(c) PROVE Aim
  <2>1. Kept
    BY <1>2 DEF Form, ChooseFiles, RemoveDocument, Submit, Leave
  <2> QED BY <2>1, <1>k
<1>3. ASSUME NEW r \in Requests, Create(r) PROVE Aim
  <2>1. ASSUME Refuse(r) \/ CodeTaken(r) \/ QueryRejects(r) PROVE Aim
    <3>1. server[r].pc = "code" /\ cases' = cases /\ broken' = broken
      BY <2>1 DEF Refuse, CodeTaken, QueryRejects
    <3>2. server'[q] = server[q]
      BY <2>1, <3>1 DEF Refuse, CodeTaken, QueryRejects
    <3> QED BY <3>1, <3>2, <1>k
  <2>2. ASSUME NEW code \in Codes, CodeFree(r, code) PROVE Aim
    <3>1. server[r].pc = "code" /\ cases' = cases /\ broken' = broken
      BY <2>2 DEF CodeFree
    <3>2. server'[q] = server[q]
      BY <2>2, <3>1 DEF CodeFree
    <3> QED BY <3>1, <3>2, <1>k
  <2>3. ASSUME NEW d \in Docs, Uploaded(r, d) PROVE Aim
    <3>1. PICK w : /\ server' = [server EXCEPT ![r].uploading = @ \ {d}, ![r].pc = w]
                   /\ \/ w = server[r].pc
                      \/ w = "commit" /\ server[r].pc = "upload"
                         /\ server[r].uploading = {d}
      BY <2>3 DEF Uploaded
    <3>2. cases' = cases /\ broken' = broken
      BY <2>3 DEF Uploaded
    <3> QED BY <3>1, <3>2 DEF Working
  <2>4. ASSUME NEW d \in Docs, UploadRejects(r, d) PROVE Aim
    <3>1. /\ server' = [server EXCEPT ![r].uploading = @ \ {d}, ![r].pc = "refused"]
          /\ cases' = cases /\ broken' = broken \cup {r}
      BY <2>4 DEF UploadRejects
    <3> QED BY <3>1
  <2>5. ASSUME NEW d \in Docs, StrayRejects(r, d) PROVE Aim
    <3>1. CASE ProcessEnds
      BY <1>1, <3>1
    <3>2. CASE ~ ProcessEnds
      <4>1. /\ server' = [server EXCEPT ![r].uploading = @ \ {d}]
            /\ server[r].pc # "upload" /\ cases' = cases /\ broken' = broken
        BY <2>5, <3>2 DEF StrayRejects
      <4> QED BY <4>1
    <3> QED BY <3>1, <3>2
  <2>6. ASSUME Commit(r) PROVE Aim
    <3>1. /\ server' = [server EXCEPT ![r].pc = "created"]
          /\ cases' = [cases EXCEPT ![r] = server[r].code]
          /\ server[r].pc = "commit" /\ cases[r] # server[r].code /\ broken' = broken
      BY <2>6 DEF Commit
    <3>2. cases[r] = None
      BY <3>1 DEF StoreInv
    <3> QED BY <3>1, <3>2
  <2>7. ASSUME CommitRejects(r) PROVE Aim
    <3>1. /\ server' = [server EXCEPT ![r].pc = "refused"]
          /\ server[r].pc = "commit" /\ cases' = cases /\ broken' = broken \cup {r}
      BY <2>7 DEF CommitRejects
    <3> QED BY <3>1
  <2>8. ASSUME Answer(r) \/ AnswerLost(r) PROVE Aim
    <3>1. /\ server' = [server EXCEPT ![r].pc = "done"]
          /\ server[r].pc \in Ready /\ cases' = cases /\ broken' = broken
      BY <2>8 DEF Answer, AnswerLost
    <3> QED BY <3>1 DEF Ready, Working
  <2> QED
    BY <1>3, <2>1, <2>2, <2>3, <2>4, <2>5, <2>6, <2>7, <2>8 DEF Create
<1>4. CASE UNCHANGED vars
  BY <1>4, <1>k DEF vars
<1> QED
  BY <1>1, <1>2, <1>3, <1>4 DEF Next, Crash

\* A fault is never forgotten.
LEMMA BrokenGrows ==
  ASSUME [Next]_vars
  PROVE  broken \subseteq broken'
<1>1. ASSUME ProcessEnds PROVE broken \subseteq broken'
  BY <1>1 DEF ProcessEnds
<1>2. ASSUME NEW c \in Customers, Form(c) PROVE broken \subseteq broken'
  BY <1>2 DEF Form, ChooseFiles, RemoveDocument, Submit, Leave
<1>3. ASSUME NEW r \in Requests, Create(r) PROVE broken \subseteq broken'
  BY <1>1, <1>3 DEF Create, Refuse, CodeFree, CodeTaken, QueryRejects, Uploaded,
                    UploadRejects, StrayRejects, Commit, CommitRejects, Answer, AnswerLost
<1> QED
  BY <1>1, <1>2, <1>3 DEF Next, Crash, vars

\* What a step may do to a request that has no code yet: uploads begin only
\* with the code, and only towards an upload or behind a forged document.
LEMMA UploadsBegin ==
  ASSUME TypeInv, StoreInv, [Next]_vars, NEW q \in Requests,
         server[q].pc \in {"unsent", "code"}
  PROVE  server'[q].uploading = {} \/ server'[q].pc = "upload" \/ HasForged(server'[q].docs)
<1> USE DEF TypeInv, TypeOK, RequestState
<1>0. server[q].uploading = {}
  BY DEF StoreInv
<1>1. ASSUME ProcessEnds PROVE server'[q].uploading = {}
  BY <1>1, EndsMoves
<1>2. ASSUME NEW c \in Customers, Form(c) PROVE server'[q].uploading = {}
  <2>1. \/ server' = server
        \/ \E r \in Requests : server' = [server EXCEPT ![r].pc = "code", ![r].docs = page[c].docs]
    BY <1>2 DEF Form, ChooseFiles, RemoveDocument, Submit, Leave
  <2>2. CASE server' = server
    BY <1>0, <2>2
  <2>3. ASSUME NEW r \in Requests,
               server' = [server EXCEPT ![r].pc = "code", ![r].docs = page[c].docs]
        PROVE  server'[q].uploading = {}
    BY <1>0, <2>3
  <2> QED BY <2>1, <2>2, <2>3
<1>3. ASSUME NEW r \in Requests, Create(r)
      PROVE  \/ server'[q].uploading = {}
             \/ server'[q].pc = "upload"
             \/ HasForged(server'[q].docs)
  <2>1. ASSUME NEW code \in Codes, CodeFree(r, code)
        PROVE  \/ server'[q].uploading = {}
               \/ server'[q].pc = "upload"
               \/ HasForged(server'[q].docs)
    <3>1. CASE HasForged(server[r].docs)
      <4>1. server' = [server EXCEPT ![r].code = code, ![r].pc = "refused",
                                     ![r].uploading = Started(server[r].docs)]
        BY <2>1, <3>1 DEF CodeFree
      <4> QED BY <1>0, <3>1, <4>1
    <3>2. CASE server[r].docs = <<>>
      <4>1. Started(server[r].docs) = {}
        BY <3>2 DEF Started
      <4>2. PICK w : server' = [server EXCEPT ![r].code = code, ![r].pc = w,
                                     ![r].uploading = Started(server[r].docs)]
        BY <2>1 DEF CodeFree
      <4> QED BY <1>0, <4>1, <4>2
    <3>3. CASE ~ HasForged(server[r].docs) /\ server[r].docs # <<>>
      <4>1. server' = [server EXCEPT ![r].code = code, ![r].pc = "upload",
                                     ![r].uploading = Started(server[r].docs)]
        BY <2>1, <3>3 DEF CodeFree
      <4> QED BY <1>0, <4>1
    <3> QED BY <3>1, <3>2, <3>3
  <2>2. ASSUME NEW d \in Docs, Uploaded(r, d) \/ UploadRejects(r, d)
        PROVE  server'[q].uploading = {}
    <3>1. PICK w : server' = [server EXCEPT ![r].uploading = @ \ {d}, ![r].pc = w]
      BY <2>2 DEF Uploaded, UploadRejects
    <3> QED BY <1>0, <3>1
  <2>3. ASSUME NEW d \in Docs, StrayRejects(r, d) PROVE server'[q].uploading = {}
    BY <1>0, <1>1, <2>3 DEF StrayRejects
  <2>4. CASE CodeTaken(r)
    <3>1. PICK w : server' = [server EXCEPT ![r].tries = server[r].tries + 1, ![r].pc = w]
      BY <2>4 DEF CodeTaken
    <3> QED BY <1>0, <3>1
  <2>5. CASE Refuse(r) \/ QueryRejects(r) \/ Commit(r) \/ CommitRejects(r)
             \/ Answer(r) \/ AnswerLost(r)
    <3>1. PICK w : server' = [server EXCEPT ![r].pc = w]
      BY <2>5 DEF Refuse, QueryRejects, Commit, CommitRejects, Answer, AnswerLost
    <3> QED BY <1>0, <3>1
  <2> QED
    BY <1>3, <2>1, <2>2, <2>3, <2>4, <2>5 DEF Create
<1> QED
  BY <1>0, <1>1, <1>2, <1>3 DEF Next, Crash, vars

\* A file in the store belongs to a case or to a request at work, unless a fault
\* hit that request or one of its documents was forged.
THEOREM BlobsHaveOwners == Spec => []BlobHasOwner
<1>1. Init => UploadInv /\ BlobHasOwner
  BY DEF Init, Unsent, UploadInv, BlobHasOwner
<1>2. TypeInv /\ StoreInv /\ UploadInv /\ BlobHasOwner /\ [Next]_vars
        => UploadInv' /\ BlobHasOwner'
  <2> SUFFICES ASSUME TypeInv, StoreInv, UploadInv, BlobHasOwner, [Next]_vars
               PROVE  UploadInv' /\ BlobHasOwner'
    OBVIOUS
  <2>1. ASSUME NEW q \in Requests, server'[q].uploading # {}
        PROVE  server'[q].pc = "upload" \/ q \in broken' \/ HasForged(server'[q].docs)
    <3>1. CASE server[q].pc \in {"unsent", "code"}
      BY <2>1, <3>1, UploadsBegin
    <3>2. CASE server[q].pc \notin {"unsent", "code"}
      <4>1. server[q].uploading # {}
        BY <2>1, <3>2, WorkIsHeld
      <4>2. server[q].pc = "upload" \/ q \in broken \/ HasForged(server[q].docs)
        BY <4>1 DEF UploadInv
      <4>3. server'[q].docs = server[q].docs
        BY <3>2, RequestMoves
      <4>4. broken \subseteq broken'
        BY BrokenGrows
      <4> QED BY <2>1, <3>2, <4>2, <4>3, <4>4, WorkIsHeld
    <3> QED BY <3>1, <3>2
  <2>2. UploadInv'
    BY <2>1 DEF UploadInv
  <2>3. ASSUME NEW b \in blobs'
        PROVE  \/ cases'[b[1]] # None \/ server'[b[1]].pc \in Working
               \/ b[1] \in broken' \/ HasForged(server'[b[1]].docs)
    <3>1. b[1] \in Requests
      BY BlobsGrow DEF TypeInv, TypeOK
    <3>2. b \in blobs \/ server[b[1]].uploading # {}
      BY BlobsGrow
    <3>3. server[b[1]].pc \notin {"unsent", "code"}
      BY <3>1, <3>2 DEF StoreInv
    <3>4. Held(b[1]) \/ server[b[1]].pc \in Working \/ HasForged(server[b[1]].docs)
      BY <3>1, <3>2 DEF Held, BlobHasOwner, UploadInv, Working
    <3>5. server'[b[1]].docs = server[b[1]].docs
      BY <3>1, <3>3, RequestMoves
    <3>6. Held(b[1])' \/ server'[b[1]].pc \in Working \/ HasForged(server'[b[1]].docs)
      BY <3>1, <3>3, <3>4, <3>5, WorkIsHeld
    <3> QED BY <3>6 DEF Held
  <2>4. BlobHasOwner'
    BY <2>3 DEF BlobHasOwner
  <2> QED
    BY <2>2, <2>4
<1> QED
  BY <1>1, <1>2, TypesAndTries, StoredFirst, PTL DEF Spec

-----------------------------------------------------------------------------
(* The customer *)

\* The record of a form, field by field.
LEMMA FormsAreRecords ==
  ASSUME TypeInv, NEW c \in Customers
  PROVE  page[c] = [docs |-> page[c].docs, request |-> page[c].request,
                    shown |-> page[c].shown]
BY DEF TypeInv, TypeOK, FormState

\* A form stops waiting only with the answer or with the end of its request, or
\* by leaving, which is recorded.
LEMMA WaitIsKept ==
  ASSUME TypeInv, [Next]_vars, NEW q \in Requests,
         server[q].pc \in Working \cup Ready, q \in unheard \/ Waiting(q) # {}
  PROVE  /\ server'[q].pc \in Working \cup Ready => q \in unheard' \/ Waiting(q)' # {}
         /\ server[q].pc = "created" =>
              server'[q].pc = "created" \/ q \in told' \cup unheard'
<1> USE DEF TypeInv, TypeOK, RequestState
<1> DEFINE Aim == /\ server'[q].pc \in Working \cup Ready => q \in unheard' \/ Waiting(q)' # {}
                  /\ server[q].pc = "created" =>
                       server'[q].pc = "created" \/ q \in told' \cup unheard'
           Same == page' = page /\ unheard \subseteq unheard'
                   /\ (server[q].pc = "created" => server'[q].pc = "created")
<1>k. ASSUME Same PROVE Aim
  BY <1>k DEF Waiting
<1>1. ASSUME ProcessEnds PROVE Aim
  <2>1. q \in unheard'
    BY <1>1 DEF ProcessEnds
  <2> QED BY <2>1
<1>2. ASSUME NEW c \in Customers, NEW s \in Selections, ChooseFiles(c, s) PROVE Aim
  <2>1. \A k \in Customers : page'[k].request = page[k].request
    BY <1>2, FormsAreRecords DEF ChooseFiles
  <2> QED BY <1>2, <2>1 DEF Waiting, ChooseFiles
<1>3. ASSUME NEW c \in Customers, NEW n \in 1 .. MaxFiles, RemoveDocument(c, n) PROVE Aim
  <2>1. \A k \in Customers : page'[k].request = page[k].request
    BY <1>3, FormsAreRecords DEF RemoveDocument
  <2> QED BY <1>3, <2>1 DEF Waiting, RemoveDocument
<1>4. ASSUME NEW c \in Customers, NEW r \in Requests, Submit(c, r) PROVE Aim
  <2>1. server[r].pc = "unsent" /\ page[c].request = None /\ unheard' = unheard
    BY <1>4 DEF Submit, SubmitEnabled
  <2>2. server'[q] = server[q]
    BY <1>4, <2>1 DEF Submit, Working, Ready
  <2>3. \A k \in Waiting(q) : page'[k] = page[k]
    BY <1>4, <2>1, IntakeAssumption DEF Submit, Waiting
  <2> QED BY <2>1, <2>2, <2>3 DEF Waiting
<1>5. ASSUME NEW c \in Customers, Leave(c) PROVE Aim
  <2>1. CASE page[c].request = q
    BY <1>5, <2>1, IntakeAssumption DEF Leave
  <2>2. CASE page[c].request # q
    <3>1. \A k \in Waiting(q) : page'[k] = page[k]
      BY <1>5, <2>2 DEF Leave, Waiting
    <3> QED BY <1>5, <3>1 DEF Leave, Waiting
  <2> QED BY <2>1, <2>2
<1>6. ASSUME NEW r \in Requests, Answer(r) PROVE Aim
  <2>1. CASE r = q
    <3>1. server'[q].pc = "done"
      BY <1>6, <2>1 DEF Answer
    <3>2. server[q].pc = "created" => q \in told' \cup unheard'
      BY <1>6, <2>1 DEF Answer
    <3> QED BY <3>1, <3>2 DEF Working, Ready
  <2>2. CASE r # q
    <3>1. server'[q] = server[q] /\ unheard' = unheard
      BY <1>6, <2>2 DEF Answer
    <3>2. \A k \in Waiting(q) : page'[k] = page[k]
      BY <1>6, <2>2 DEF Answer, Waiting
    <3> QED BY <3>1, <3>2 DEF Waiting
  <2> QED BY <2>1, <2>2
<1>7. ASSUME NEW r \in Requests, AnswerLost(r) PROVE Aim
  <2>1. CASE r = q
    BY <1>7, <2>1 DEF AnswerLost
  <2>2. CASE r # q
    <3>1. server'[q] = server[q] /\ unheard \subseteq unheard'
      BY <1>7, <2>2 DEF AnswerLost
    <3>2. \A k \in Waiting(q) : page'[k] = page[k]
      BY <1>7, <2>2 DEF AnswerLost, Waiting
    <3> QED BY <3>1, <3>2 DEF Waiting
  <2> QED BY <2>1, <2>2
<1>8. ASSUME NEW r \in Requests, Create(r) PROVE Aim
  <2>1. ASSUME Refuse(r) \/ QueryRejects(r) \/ CodeTaken(r) PROVE Same
    <3>1. server[r].pc = "code" /\ page' = page /\ unheard' = unheard
      BY <2>1 DEF Refuse, QueryRejects, CodeTaken
    <3>2. r # q => server'[q] = server[q]
      BY <2>1 DEF Refuse, QueryRejects, CodeTaken
    <3> QED BY <3>1, <3>2
  <2>2. ASSUME NEW code \in Codes, CodeFree(r, code) PROVE Same
    <3>1. server[r].pc = "code" /\ page' = page /\ unheard' = unheard
      BY <2>2 DEF CodeFree
    <3>2. r # q => server'[q] = server[q]
      BY <2>2 DEF CodeFree
    <3> QED BY <3>1, <3>2
  <2>3. ASSUME NEW d \in Docs, Uploaded(r, d) \/ UploadRejects(r, d) PROVE Same
    <3>1. PICK w : /\ server' = [server EXCEPT ![r].uploading = @ \ {d}, ![r].pc = w]
                   /\ w = server[r].pc \/ server[r].pc = "upload"
      BY <2>3 DEF Uploaded, UploadRejects
    <3>2. page' = page /\ unheard' = unheard
      BY <2>3 DEF Uploaded, UploadRejects
    <3> QED BY <3>1, <3>2
  <2>4. ASSUME NEW d \in Docs, StrayRejects(r, d), ~ ProcessEnds PROVE Same
    <3>1. /\ server' = [server EXCEPT ![r].uploading = @ \ {d}]
          /\ page' = page /\ unheard' = unheard
      BY <2>4 DEF StrayRejects
    <3> QED BY <3>1
  <2>5. ASSUME Commit(r) \/ CommitRejects(r) PROVE Same
    <3>1. PICK w : server' = [server EXCEPT ![r].pc = w]
      BY <2>5 DEF Commit, CommitRejects
    <3>2. server[r].pc = "commit" /\ page' = page /\ unheard' = unheard
      BY <2>5 DEF Commit, CommitRejects
    <3> QED BY <3>1, <3>2
  <2> QED
    BY <1>k, <1>1, <1>6, <1>7, <1>8, <2>1, <2>2, <2>3, <2>4, <2>5 DEF Create
<1>9. CASE UNCHANGED vars
  BY <1>9, <1>k DEF vars
<1> QED
  BY <1>1, <1>2, <1>3, <1>4, <1>5, <1>8, <1>9 DEF Next, Form, Crash

\* A request begins with a form that waits for it; nothing else begins work.
LEMMA WorkBegins ==
  ASSUME TypeInv, [Next]_vars, NEW q \in Requests,
         server[q].pc \in {"unsent", "done"}, server'[q].pc \in Working \cup Ready
  PROVE  Waiting(q)' # {}
<1> USE DEF TypeInv, TypeOK, RequestState, Working, Ready
<1>1. ASSUME ProcessEnds PROVE FALSE
  BY <1>1, EndsMoves
<1>2. ASSUME NEW c \in Customers, Form(c) PROVE Waiting(q)' # {}
  <2>1. ASSUME NEW r \in Requests, Submit(c, r) PROVE Waiting(q)' # {}
    <3>1. r = q
      BY <2>1 DEF Submit
    <3>2. page'[c].request = q
      BY <2>1, <3>1 DEF Submit, FormState
    <3> QED BY <3>2 DEF Waiting
  <2>2. CASE server' = server
    BY <2>2
  <2> QED
    BY <1>2, <2>1, <2>2 DEF Form, ChooseFiles, RemoveDocument, Leave
<1>3. ASSUME NEW r \in Requests, Create(r) PROVE FALSE
  <2>1. CASE Refuse(r) \/ QueryRejects(r) \/ Commit(r) \/ CommitRejects(r)
    <3>1. PICK w : server' = [server EXCEPT ![r].pc = w]
      BY <2>1 DEF Refuse, QueryRejects, Commit, CommitRejects
    <3>2. r # q
      BY <2>1 DEF Refuse, QueryRejects, Commit, CommitRejects
    <3> QED BY <3>1, <3>2
  <2>2. CASE Answer(r) \/ AnswerLost(r)
    <3>1. server' = [server EXCEPT ![r].pc = "done"]
      BY <2>2 DEF Answer, AnswerLost
    <3> QED BY <3>1
  <2>3. CASE CodeTaken(r)
    <3>1. PICK w : server' = [server EXCEPT ![r].tries = server[r].tries + 1, ![r].pc = w]
      BY <2>3 DEF CodeTaken
    <3>2. r # q
      BY <2>3 DEF CodeTaken
    <3> QED BY <3>1, <3>2
  <2>4. ASSUME NEW code \in Codes, CodeFree(r, code) PROVE FALSE
    <3>1. r # q
      BY <2>4 DEF CodeFree
    <3>2. PICK w : server' = [server EXCEPT ![r].code = code, ![r].pc = w,
                                     ![r].uploading = Started(server[r].docs)]
      BY <2>4 DEF CodeFree
    <3> QED BY <3>1, <3>2
  <2>5. ASSUME NEW d \in Docs, Uploaded(r, d) \/ UploadRejects(r, d) PROVE FALSE
    <3>1. PICK w : /\ server' = [server EXCEPT ![r].uploading = @ \ {d}, ![r].pc = w]
                   /\ w = server[r].pc \/ server[r].pc = "upload"
      BY <2>5 DEF Uploaded, UploadRejects
    <3> QED BY <3>1
  <2>6. ASSUME NEW d \in Docs, StrayRejects(r, d), ~ ProcessEnds PROVE FALSE
    <3>1. server' = [server EXCEPT ![r].uploading = @ \ {d}]
      BY <2>6 DEF StrayRejects
    <3> QED BY <3>1
  <2> QED
    BY <1>1, <1>3, <2>1, <2>2, <2>3, <2>4, <2>5, <2>6 DEF Create
<1>4. CASE UNCHANGED vars
  BY <1>4 DEF vars
<1> QED
  BY <1>1, <1>2, <1>3, <1>4 DEF Next, Crash

\* What was shown or lost stays so.
LEMMA HeardGrows ==
  ASSUME [Next]_vars
  PROVE  told \subseteq told' /\ unheard \subseteq unheard'
<1>1. ASSUME ProcessEnds PROVE told \subseteq told' /\ unheard \subseteq unheard'
  BY <1>1 DEF ProcessEnds
<1>2. ASSUME NEW c \in Customers, Form(c)
      PROVE  told \subseteq told' /\ unheard \subseteq unheard'
  BY <1>2 DEF Form, ChooseFiles, RemoveDocument, Submit, Leave
<1>3. ASSUME NEW r \in Requests, Create(r)
      PROVE  told \subseteq told' /\ unheard \subseteq unheard'
  BY <1>1, <1>3 DEF Create, Refuse, CodeFree, CodeTaken, QueryRejects, Uploaded,
                    UploadRejects, StrayRejects, Commit, CommitRejects, Answer, AnswerLost
<1> QED
  BY <1>1, <1>2, <1>3 DEF Next, Crash, vars

\* A case appears with the answer that tells its code.
LEMMA CasesBegin ==
  ASSUME TypeInv, [Next]_vars, NEW q \in Requests, cases[q] = None, cases'[q] # None
  PROVE  server'[q].pc = "created"
<1> USE DEF TypeInv, TypeOK, RequestState
<1>1. ASSUME ProcessEnds PROVE FALSE
  BY <1>1 DEF ProcessEnds
<1>2. ASSUME NEW c \in Customers, Form(c) PROVE FALSE
  BY <1>2 DEF Form, ChooseFiles, RemoveDocument, Submit, Leave
<1>3. ASSUME NEW r \in Requests, Create(r) PROVE server'[q].pc = "created"
  <2>1. ASSUME Commit(r) PROVE server'[q].pc = "created"
    BY <2>1 DEF Commit
  <2>2. CASE cases' = cases
    BY <2>2
  <2> QED
    BY <1>1, <1>3, <2>1, <2>2 DEF Create, Refuse, CodeFree, CodeTaken, QueryRejects,
       Uploaded, UploadRejects, StrayRejects, CommitRejects, Answer, AnswerLost
<1> QED
  BY <1>1, <1>2, <1>3 DEF Next, Crash, vars

\* No case is created behind the customer's back: its code was shown, or the
\* answer is on its way to a page that waits for it, or the answer was lost.
THEOREM CasesAreKnown == Spec => []CaseIsKnown
<1> DEFINE KnownInv == \A r \in Requests : cases[r] # None =>
                         r \in told \cup unheard \/ server[r].pc = "created"
<1>1. Init => AwaitedInv /\ KnownInv
  BY DEF Init, Unsent, AwaitedInv, Working, Ready
<1>2. TypeInv /\ StoreInv /\ AwaitedInv /\ KnownInv /\ [Next]_vars
        => AwaitedInv' /\ KnownInv'
  <2> SUFFICES ASSUME TypeInv, StoreInv, AwaitedInv, KnownInv, [Next]_vars,
                      NEW q \in Requests
               PROVE  /\ server'[q].pc \in Working \cup Ready =>
                           q \in unheard' \/ Waiting(q)' # {}
                      /\ cases'[q] # None =>
                           q \in told' \cup unheard' \/ server'[q].pc = "created"
    BY DEF AwaitedInv
  <2>1. server'[q].pc \in Working \cup Ready => q \in unheard' \/ Waiting(q)' # {}
    <3>1. CASE server[q].pc \in Working \cup Ready
      BY <3>1, WaitIsKept DEF AwaitedInv
    <3>2. CASE server[q].pc \in {"unsent", "done"}
      BY <3>2, WorkBegins
    <3> QED BY <3>1, <3>2 DEF TypeInv, TypeOK, RequestState
  <2>2. ASSUME cases'[q] # None
        PROVE  q \in told' \cup unheard' \/ server'[q].pc = "created"
    <3>1. CASE cases[q] # None /\ q \in told \cup unheard
      BY <3>1, HeardGrows
    <3>2. CASE server[q].pc = "created"
      BY <3>2, WaitIsKept DEF AwaitedInv, Ready
    <3>3. CASE cases[q] = None
      BY <2>2, <3>3, CasesBegin
    <3> QED BY <3>1, <3>2, <3>3
  <2> QED
    BY <2>1, <2>2
<1>3. AwaitedInv /\ KnownInv => CaseIsKnown
  BY DEF AwaitedInv, CaseIsKnown, Ready
<1> QED
  BY <1>1, <1>2, <1>3, TypesAndTries, StoredFirst, PTL DEF Spec
=============================================================================
