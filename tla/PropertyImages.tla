--------------------------- MODULE PropertyImages ---------------------------
(***************************************************************************)
(* The images of one listing: PropertiesService.addImage, deleteImage and  *)
(* reorderImages, over PropertyImage rows in Postgres and files in the     *)
(* object store (or on disk), which share no transaction.                  *)
(*                                                                         *)
(* Every await is a step of its own, calls of several admins interleave    *)
(* between them, and the process may end there.  A file is named by a      *)
(* fresh UUID and its row by another: one id stands for both.              *)
(***************************************************************************)
EXTENDS Naturals, Sequences, FiniteSetsExt

CONSTANTS
  Images,       \* BOUND: ids of the images ever uploaded
  Calls,        \* requests in flight
  None,         \* no image
  Faults        \* the faults a run allows

FaultKinds == {"crash", "db", "storage", "rebase"}

ASSUME ImagesAssumption ==
  /\ IsFiniteSet(Images)
  /\ None \notin Images
  /\ Faults \subseteq FaultKinds

VARIABLES
  rows,         \* images that have a PropertyImage row
  position,     \* sortOrder of each row, 0 without a row
  files,        \* images whose file is in the store
  foreign,      \* images whose url is not under the publicBaseUrl of today
  call,         \* requests: their next await and what they have read
  used,         \* history: ids handed out
  orphaned,     \* history: files that a fault has left to nobody
  excuse        \* history: what may have made two positions collide

vars == <<rows, position, files, foreign, call, used, orphaned, excuse>>

Idle == [pc |-> "idle", image |-> None, at |-> 0, list |-> <<>>]

\* A call at one of these awaits is responsible for the file of its image.
Adding == {"findLast", "create"}
Owning == Adding \cup {"deleteFile"}

CallState == [pc    : {"idle", "deleteRow", "reorder"} \cup Owning,
              image : Images \cup {None},
              at    : Nat,
              list  : Seq(Images)]

TypeOK ==
  /\ rows \subseteq Images
  /\ position \in [Images -> Nat]
  /\ files \subseteq Images
  /\ foreign \subseteq Images
  /\ call \in [Calls -> CallState]
  /\ used \subseteq Images
  /\ orphaned \subseteq Images
  /\ excuse \subseteq {"overlap", "mismatch"}

Init ==
  /\ rows = {}
  /\ position = [i \in Images |-> 0]
  /\ files = {}
  /\ foreign = {}
  /\ call = [c \in Calls |-> Idle]
  /\ used = {}
  /\ orphaned = {}
  /\ excuse = {}

Answered(c) == call' = [call EXCEPT ![c] = Idle]

-----------------------------------------------------------------------------
(* addImage *)

\* storage.upload resolves.  A missing listing or a wrong file type is refused
\* before and changes nothing.
Upload(c, i) ==
  /\ call[c].pc = "idle"
  /\ i \notin used
  /\ used' = used \cup {i}
  /\ files' = files \cup {i}
  /\ call' = [call EXCEPT ![c].pc = "findLast", ![c].image = i]
  /\ UNCHANGED <<rows, position, foreign, orphaned, excuse>>

\* storage.upload rejects, whether or not the store has kept the file.
UploadFails(c, i) ==
  /\ "storage" \in Faults
  /\ call[c].pc = "idle"
  /\ i \notin used
  /\ used' = used \cup {i}
  /\ \E kept \in SUBSET {i} :
       files' = files \cup kept /\ orphaned' = orphaned \cup kept
  /\ UNCHANGED <<rows, position, foreign, call, excuse>>

\* Mutant: the missing last image of an empty listing is not looked after.
FindLastUnchecked(c) ==
  /\ call[c].pc = "findLast"
  /\ call' = [call EXCEPT ![c].pc = "create",
       ![c].at = IF rows = {} THEN None ELSE Max({position[i] : i \in rows}) + 1]
  /\ UNCHANGED <<rows, position, files, foreign, used, orphaned, excuse>>

\* Mutant: the next position is the number of images.
FindLastByCount(c) ==
  /\ call[c].pc = "findLast"
  /\ call' = [call EXCEPT ![c].pc = "create", ![c].at = Cardinality(rows)]
  /\ UNCHANGED <<rows, position, files, foreign, used, orphaned, excuse>>

\* findFirst by descending sortOrder: the new image goes after the last one.
FindLast(c) ==
  /\ call[c].pc = "findLast"
  /\ \/ rows = {} /\ call' = [call EXCEPT ![c].pc = "create", ![c].at = 0]
     \/ \E last \in rows :
          /\ \A i \in rows : position[i] <= position[last]
          /\ call' = [call EXCEPT ![c].pc = "create", ![c].at = position[last] + 1]
  /\ UNCHANGED <<rows, position, files, foreign, used, orphaned, excuse>>

CreateRow(c) ==
  /\ call[c].pc = "create"
  /\ rows' = rows \cup {call[c].image}
  /\ position' = [position EXCEPT ![call[c].image] = call[c].at]
  /\ Answered(c)
  /\ excuse' = IF \E d \in Calls \ {c} : call[d].pc = "create"
               THEN excuse \cup {"overlap"} ELSE excuse
  /\ UNCHANGED <<files, foreign, used, orphaned>>

\* Either query rejects: 500, and nothing removes the file again.
AddFails(c) ==
  /\ "db" \in Faults
  /\ call[c].pc \in Adding
  /\ Answered(c)
  /\ orphaned' = orphaned \cup {call[c].image}
  /\ UNCHANGED <<rows, position, files, foreign, used, excuse>>

-----------------------------------------------------------------------------
(* deleteImage *)

\* Mutant: the file is deleted first.
FindImageDeleteFile(c, i) ==
  /\ call[c].pc = "idle"
  /\ i \in rows
  /\ files' = files \ {i}
  /\ call' = [call EXCEPT ![c].pc = "deleteRow", ![c].image = i]
  /\ UNCHANGED <<rows, position, foreign, used, orphaned, excuse>>

\* findFirst; an id that is not an image of the listing gets a 404.
FindImage(c, i) ==
  /\ call[c].pc = "idle"
  /\ i \in rows
  /\ call' = [call EXCEPT ![c].pc = "deleteRow", ![c].image = i]
  /\ UNCHANGED <<rows, position, files, foreign, used, orphaned, excuse>>

\* Mutant: the file is forgotten.
DeleteRowOnly(c) ==
  /\ call[c].pc = "deleteRow"
  /\ rows' = rows \ {call[c].image}
  /\ position' = [position EXCEPT ![call[c].image] = 0]
  /\ Answered(c)
  /\ UNCHANGED <<files, foreign, used, orphaned, excuse>>

DeleteRow(c) ==
  /\ call[c].pc = "deleteRow"
  /\ call[c].image \in rows
  /\ rows' = rows \ {call[c].image}
  /\ position' = [position EXCEPT ![call[c].image] = 0]
  /\ call' = [call EXCEPT ![c].pc = "deleteFile"]
  /\ UNCHANGED <<files, foreign, used, orphaned, excuse>>

\* Another call has deleted the row since, or the database fails: 500.
DeleteRowFails(c) ==
  /\ call[c].pc = "deleteRow"
  /\ call[c].image \notin rows \/ "db" \in Faults
  /\ Answered(c)
  /\ UNCHANGED <<rows, position, files, foreign, used, orphaned, excuse>>

\* storage.delete: a url outside the base url of today is left alone.
DeleteFile(c) ==
  /\ call[c].pc = "deleteFile"
  /\ IF call[c].image \in foreign
     THEN files' = files /\ orphaned' = orphaned \cup {call[c].image}
     ELSE files' = files \ {call[c].image} /\ orphaned' = orphaned
  /\ Answered(c)
  /\ UNCHANGED <<rows, position, foreign, used, excuse>>

\* storage.delete rejects, whether or not the file is gone.
DeleteFileFails(c) ==
  /\ "storage" \in Faults
  /\ call[c].pc = "deleteFile"
  /\ \E gone \in SUBSET {call[c].image} : files' = files \ gone
  /\ orphaned' = orphaned \cup {call[c].image}
  /\ Answered(c)
  /\ UNCHANGED <<rows, position, foreign, used, excuse>>

-----------------------------------------------------------------------------
(* reorderImages *)

\* findMany and the check of the list against it: only ids of the listing, and
\* as many of them as it has images.
ReadImages(c, list) ==
  /\ call[c].pc = "idle"
  /\ list # <<>>
  /\ Range(list) \subseteq rows
  /\ Len(list) = Cardinality(rows)
  /\ call' = [call EXCEPT ![c].pc = "reorder", ![c].list = list]
  /\ UNCHANGED <<rows, position, files, foreign, used, orphaned, excuse>>

\* The transaction: the updates in the order of the list, so the last mention
\* of an image counts.
Reorder(c) ==
  LET list == call[c].list IN
  /\ call[c].pc = "reorder"
  /\ Range(list) \subseteq rows
  /\ \E last \in [Range(list) -> DOMAIN list] :
       /\ \A i \in Range(list) : list[last[i]] = i
       /\ \A n \in DOMAIN list : n <= last[list[n]]
       /\ position' = [i \in Images |->
            IF i \in Range(list) THEN last[i] - 1 ELSE position[i]]
  /\ Answered(c)
  /\ excuse' = IF IsInjective(list) /\ Range(list) = rows
               THEN excuse ELSE excuse \cup {"mismatch"}
  /\ UNCHANGED <<rows, files, foreign, used, orphaned>>

\* A listed row is gone, or the database fails: all updates are rolled back.
ReorderFails(c) ==
  /\ call[c].pc = "reorder"
  /\ ~ Range(call[c].list) \subseteq rows \/ "db" \in Faults
  /\ Answered(c)
  /\ UNCHANGED <<rows, position, files, foreign, used, orphaned, excuse>>

-----------------------------------------------------------------------------
(* The process ends *)

Stop ==
  /\ call' = [c \in Calls |-> Idle]
  /\ orphaned' = orphaned \cup
       {call[c].image : c \in {d \in Calls : call[d].pc \in Owning}}
  /\ UNCHANGED <<rows, position, files, used, excuse>>

Crash  == "crash" \in Faults /\ Stop /\ UNCHANGED foreign

\* It comes back with another publicBaseUrl in its configuration.
Rebase == "rebase" \in Faults /\ Stop /\ foreign' = used

-----------------------------------------------------------------------------
AddImage(c) ==
  \/ \E i \in Images : Upload(c, i) \/ UploadFails(c, i)
  \/ FindLast(c)
  \/ CreateRow(c)
  \/ AddFails(c)

DeleteImage(c) ==
  \/ \E i \in Images : FindImage(c, i)
  \/ DeleteRow(c)
  \/ DeleteRowFails(c)
  \/ DeleteFile(c)
  \/ DeleteFileFails(c)

ReorderImages(c) ==
  \/ \E list \in [1 .. Cardinality(rows) -> rows] : ReadImages(c, list)
  \/ Reorder(c)
  \/ ReorderFails(c)

Next ==
  \/ \E c \in Calls : AddImage(c) \/ DeleteImage(c) \/ ReorderImages(c)
  \/ Crash
  \/ Rebase

Spec == Init /\ [][Next]_vars

-----------------------------------------------------------------------------
(* Properties *)

\* No listing shows a broken image: a row has its file, because the upload
\* comes before the row and the row goes before the file.
RowHasFile == rows \subseteq files

\* No file is forgotten: it has a row, a call is about to create the row or to
\* delete the file, or a fault hit between the two stores.
FileHasOwner ==
  files \subseteq rows \cup orphaned
                  \cup {call[c].image : c \in {d \in Calls : call[d].pc \in Owning}}

\* Two images share a position, so that their order is anybody's guess, only
\* after two uploads overlapped or a list was applied that is not exactly the
\* images of that moment, for a repeated id or an upload since its check: no mix
\* of deletions, reorders that match and one upload at a time leads there.
CollisionNeedsOverlap ==
  excuse = {} =>
    \A i, j \in rows : i # j => position[i] # position[j]

\* What the tests of reorderImages say: ids that do not match the images are
\* refused, and positions are updated to match the submitted order.
OrderIsSubmitted ==
  [][\A c \in Calls :
       call[c].pc = "reorder" /\ call'[c].pc = "idle" /\ position' # position =>
         \A n \in DOMAIN call[c].list : position'[call[c].list[n]] = n - 1]_vars

-----------------------------------------------------------------------------
(* Strengthening *)

\* Who is responsible for a file: an image that is being added has a file and
\* no row yet, one whose file is being deleted has no row any more, and no two
\* calls are responsible for the same file.
OwnerInv ==
  /\ rows \cup files \subseteq used
  /\ \A c \in Calls : call[c].pc \in Adding => call[c].image \in files \ rows
  /\ \A c \in Calls : call[c].pc = "deleteFile" => call[c].image \in used \ rows
  /\ \A c \in Calls : call[c].pc # "idle" /\ call[c].pc # "reorder" =>
       call[c].image \in Images
  /\ \A c, d \in Calls :
       c # d /\ call[c].pc \in Owning /\ call[d].pc \in Owning =>
         call[c].image # call[d].image

\* What makes CollisionNeedsOverlap inductive: the position an upload has read
\* is still behind every image, also after a reorder, which numbers the images
\* from 0.
PositionInv ==
  excuse = {} =>
    \A c \in Calls : call[c].pc = "create" => \A i \in rows : position[i] < call[c].at
=============================================================================
