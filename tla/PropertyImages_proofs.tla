------------------------ MODULE PropertyImages_proofs ------------------------
(***************************************************************************)
(* Theorems about PropertyImages for every number of images and calls and  *)
(* every set of faults.  Who is responsible for a file (OwnerInv) is       *)
(* inductive together with the types; that rows have files and files have  *)
(* owners then follows step by step.  Positions come last: why two images  *)
(* may have the same one (PositionInv).                                    *)
(***************************************************************************)
EXTENDS PropertyImages, TLAPS, FiniteSetTheorems

Inv == TypeOK /\ OwnerInv

-----------------------------------------------------------------------------
(* Types and responsibility *)

\* The list of a reorder that passes the check is a sequence of images.
LEMMA ListLemma ==
  ASSUME TypeOK, NEW list \in [1 .. Cardinality(rows) -> rows]
  PROVE  list \in Seq(Images)
<1>1. Cardinality(rows) \in Nat
  BY ImagesAssumption, FS_Subset, FS_CardinalityType DEF TypeOK
<1> QED BY <1>1 DEF TypeOK

\* Looking for the last image yields a natural position and nothing else.
LEMMA FindLastLemma ==
  ASSUME TypeOK, NEW c \in Calls, FindLast(c)
  PROVE  \E n \in Nat : call' = [call EXCEPT ![c].pc = "create", ![c].at = n]
<1>1. CASE rows = {} /\ call' = [call EXCEPT ![c].pc = "create", ![c].at = 0]
  BY <1>1
<1>2. ASSUME NEW last \in rows,
             call' = [call EXCEPT ![c].pc = "create", ![c].at = position[last] + 1]
      PROVE  \E n \in Nat : call' = [call EXCEPT ![c].pc = "create", ![c].at = n]
  <2>1. position[last] + 1 \in Nat
    BY DEF TypeOK
  <2> QED BY <1>2, <2>1
<1> QED BY <1>1, <1>2 DEF FindLast

\* Whatever list a reorder applies, positions stay natural numbers.
LEMMA ReorderLemma ==
  ASSUME TypeOK, NEW c \in Calls, Reorder(c)
  PROVE  position' \in [Images -> Nat]
<1> DEFINE list == call[c].list
<1>1. list \in Seq(Images)
  BY DEF TypeOK, CallState
<1>2. \A n \in DOMAIN list : n - 1 \in Nat
  BY <1>1
<1> HIDE DEF list
<1>3. PICK last \in [Range(list) -> DOMAIN list] :
        position' = [i \in Images |->
          IF i \in Range(list) THEN last[i] - 1 ELSE position[i]]
  BY DEF Reorder, list
<1>4. \A i \in Range(list) : last[i] - 1 \in Nat
  BY <1>2, <1>3
<1> QED BY <1>3, <1>4 DEF TypeOK

\* Every variable keeps its type, and every file has at most one call that is
\* responsible for it.
THEOREM OwnersAreSound == Spec => []Inv
<1>1. Init => Inv
  BY ImagesAssumption DEF Init, Inv, TypeOK, OwnerInv, Idle, CallState, Adding, Owning
<1>2. Inv /\ [Next]_vars => Inv'
  <2> SUFFICES ASSUME Inv, [Next]_vars PROVE Inv'
    OBVIOUS
  <2> USE ImagesAssumption DEF Inv
  <2>1. ASSUME NEW c \in Calls, NEW i \in Images, Upload(c, i) PROVE Inv'
    <3>1. call' \in [Calls -> CallState]
      <4>1. call[c] \in CallState
        BY DEF TypeOK
      <4>2. [call[c] EXCEPT !.pc = "findLast", !.image = i] \in CallState
        BY <4>1 DEF CallState, Adding, Owning
      <4> QED BY <4>2, <2>1 DEF Upload, TypeOK
    <3>2. TypeOK'
      BY <2>1, <3>1 DEF Upload, TypeOK
    <3>3. OwnerInv'
      BY <2>1 DEF Upload, TypeOK, OwnerInv, CallState, Adding, Owning
    <3> QED BY <3>2, <3>3
  <2>2. ASSUME NEW c \in Calls, NEW i \in Images, UploadFails(c, i) PROVE Inv'
    <3>1. TypeOK'
      BY <2>2 DEF UploadFails, TypeOK, OwnerInv, CallState, Adding, Owning
    <3>2. OwnerInv'
      BY <2>2 DEF UploadFails, TypeOK, OwnerInv, CallState, Adding, Owning
    <3> QED BY <3>1, <3>2
  <2>3. ASSUME NEW c \in Calls, FindLast(c) PROVE Inv'
    <3>1. PICK n \in Nat : call' = [call EXCEPT ![c].pc = "create", ![c].at = n]
      BY <2>3, FindLastLemma DEF Inv
    <3>2. call[c].pc = "findLast" /\ UNCHANGED <<rows, position, files, foreign, used, orphaned, excuse>>
      BY <2>3 DEF FindLast
    <3>3. TypeOK'
      <4>1. call[c] \in CallState
        BY DEF TypeOK
      <4>2. [call[c] EXCEPT !.pc = "create", !.at = n] \in CallState
        BY <4>1 DEF CallState, Adding, Owning
      <4> QED BY <4>2, <3>1, <3>2 DEF TypeOK
    <3>4. OwnerInv'
      BY <3>1, <3>2 DEF TypeOK, OwnerInv, CallState, Adding, Owning
    <3> QED BY <3>3, <3>4
  <2>4. ASSUME NEW c \in Calls, CreateRow(c) PROVE Inv'
    <3>1. TypeOK'
      BY <2>4 DEF CreateRow, Answered, Idle, TypeOK, OwnerInv, CallState, Adding, Owning
    <3>2. OwnerInv'
      BY <2>4 DEF CreateRow, Answered, Idle, TypeOK, OwnerInv, CallState, Adding, Owning
    <3> QED BY <3>1, <3>2
  <2>5. ASSUME NEW c \in Calls, AddFails(c) PROVE Inv'
    <3>1. TypeOK'
      BY <2>5 DEF AddFails, Answered, Idle, TypeOK, OwnerInv, CallState, Adding, Owning
    <3>2. OwnerInv'
      BY <2>5 DEF AddFails, Answered, Idle, TypeOK, OwnerInv, CallState, Adding, Owning
    <3> QED BY <3>1, <3>2
  <2>6. ASSUME NEW c \in Calls, NEW i \in Images, FindImage(c, i) PROVE Inv'
    <3>1. call' \in [Calls -> CallState]
      <4>1. call[c] \in CallState
        BY DEF TypeOK
      <4>2. [call[c] EXCEPT !.pc = "deleteRow", !.image = i] \in CallState
        BY <4>1 DEF CallState, Adding, Owning
      <4> QED BY <4>2, <2>6 DEF FindImage, TypeOK
    <3>2. TypeOK'
      BY <2>6, <3>1 DEF FindImage, TypeOK
    <3>3. OwnerInv'
      BY <2>6 DEF FindImage, TypeOK, OwnerInv, CallState, Adding, Owning
    <3> QED BY <3>2, <3>3
  <2>7. ASSUME NEW c \in Calls, DeleteRow(c) PROVE Inv'
    <3>1. call' \in [Calls -> CallState]
      <4>1. call[c] \in CallState
        BY DEF TypeOK
      <4>2. [call[c] EXCEPT !.pc = "deleteFile"] \in CallState
        BY <4>1 DEF CallState, Adding, Owning
      <4> QED BY <4>2, <2>7 DEF DeleteRow, TypeOK
    <3>2. TypeOK'
      BY <2>7, <3>1 DEF DeleteRow, TypeOK
    <3>3. OwnerInv'
      BY <2>7 DEF DeleteRow, TypeOK, OwnerInv, CallState, Adding, Owning
    <3> QED BY <3>2, <3>3
  <2>8. ASSUME NEW c \in Calls, DeleteRowFails(c) PROVE Inv'
    <3>1. TypeOK'
      BY <2>8 DEF DeleteRowFails, Answered, Idle, TypeOK, OwnerInv, CallState, Adding, Owning
    <3>2. OwnerInv'
      BY <2>8 DEF DeleteRowFails, Answered, Idle, TypeOK, OwnerInv, CallState, Adding, Owning
    <3> QED BY <3>1, <3>2
  <2>9. ASSUME NEW c \in Calls, DeleteFile(c) PROVE Inv'
    <3>1. TypeOK'
      BY <2>9 DEF DeleteFile, Answered, Idle, TypeOK, OwnerInv, CallState, Adding, Owning
    <3>2. OwnerInv'
      BY <2>9 DEF DeleteFile, Answered, Idle, TypeOK, OwnerInv, CallState, Adding, Owning
    <3> QED BY <3>1, <3>2
  <2>10. ASSUME NEW c \in Calls, DeleteFileFails(c) PROVE Inv'
    <3>1. TypeOK'
      BY <2>10 DEF DeleteFileFails, Answered, Idle, TypeOK, OwnerInv, CallState, Adding, Owning
    <3>2. OwnerInv'
      BY <2>10 DEF DeleteFileFails, Answered, Idle, TypeOK, OwnerInv, CallState, Adding, Owning
    <3> QED BY <3>1, <3>2
  <2>11. ASSUME NEW c \in Calls, NEW list \in [1 .. Cardinality(rows) -> rows], ReadImages(c, list) PROVE Inv'
    <3>1. call' \in [Calls -> CallState]
      <4>1. call[c] \in CallState /\ list \in Seq(Images)
        BY ListLemma DEF TypeOK
      <4>2. [call[c] EXCEPT !.pc = "reorder", !.list = list] \in CallState
        BY <4>1 DEF CallState
      <4> QED BY <4>2, <2>11 DEF ReadImages, TypeOK
    <3>2. TypeOK'
      BY <2>11, <3>1 DEF ReadImages, TypeOK
    <3>3. OwnerInv'
      BY <2>11 DEF ReadImages, TypeOK, OwnerInv, CallState, Adding, Owning
    <3> QED BY <3>2, <3>3
  <2>12. ASSUME NEW c \in Calls, Reorder(c) PROVE Inv'
    <3>2. position' \in [Images -> Nat]
      BY <2>12, ReorderLemma
    <3>3. TypeOK'
      BY <2>12, <3>2 DEF Reorder, Answered, Idle, TypeOK, CallState, Adding, Owning
    <3>4. OwnerInv'
      BY <2>12 DEF Reorder, Answered, Idle, TypeOK, OwnerInv, CallState, Adding, Owning
    <3> QED BY <3>3, <3>4
  <2>13. ASSUME NEW c \in Calls, ReorderFails(c) PROVE Inv'
    <3>1. TypeOK'
      BY <2>13 DEF ReorderFails, Answered, Idle, TypeOK, OwnerInv, CallState, Adding, Owning
    <3>2. OwnerInv'
      BY <2>13 DEF ReorderFails, Answered, Idle, TypeOK, OwnerInv, CallState, Adding, Owning
    <3> QED BY <3>1, <3>2
  <2>14. ASSUME Crash \/ Rebase PROVE Inv'
    <3>1. Stop /\ (foreign' = foreign \/ foreign' = used)
      BY <2>14 DEF Crash, Rebase
    <3>2. {call[c].image : c \in {d \in Calls : call[d].pc \in Owning}} \subseteq Images
      BY DEF OwnerInv, Adding, Owning
    <3>3. call' \in [Calls -> CallState]
      BY <3>1 DEF Stop, Idle, CallState
    <3>4. TypeOK'
      BY <3>1, <3>2, <3>3 DEF Stop, TypeOK
    <3>5. OwnerInv'
      BY <3>1 DEF Stop, Idle, OwnerInv, Adding, Owning
    <3> QED BY <3>4, <3>5
  <2>15. ASSUME UNCHANGED vars PROVE Inv'
    BY <2>15 DEF vars, TypeOK, OwnerInv
  <2> QED
    BY <2>1, <2>2, <2>3, <2>4, <2>5, <2>6, <2>7, <2>8, <2>9, <2>10, <2>11, <2>12, <2>13, <2>14, <2>15
    DEF Next, AddImage, DeleteImage, ReorderImages
<1> QED BY <1>1, <1>2, PTL DEF Spec

\* Every variable keeps its type: in particular a position is a natural number
\* whatever list is submitted.
THEOREM TypeCorrect == Spec => []TypeOK
<1>1. Inv => TypeOK
  BY DEF Inv
<1> QED BY <1>1, OwnersAreSound, PTL

-----------------------------------------------------------------------------
(* Rows and files *)

\* No listing shows a broken image, whatever fails and whoever overlaps.
THEOREM RowsHaveFiles == Spec => []RowHasFile
<1>1. Init => RowHasFile
  BY DEF Init, RowHasFile
<1>2. Inv /\ RowHasFile /\ [Next]_vars => RowHasFile'
  <2> SUFFICES ASSUME Inv, RowHasFile, [Next]_vars PROVE RowHasFile'
    OBVIOUS
  <2> USE DEF Inv, RowHasFile
  <2>1. ASSUME NEW c \in Calls, NEW i \in Images, Upload(c, i) PROVE RowHasFile'
    BY <2>1 DEF Upload
  <2>2. ASSUME NEW c \in Calls, NEW i \in Images, UploadFails(c, i) PROVE RowHasFile'
    BY <2>2 DEF UploadFails
  <2>3. ASSUME NEW c \in Calls, CreateRow(c) PROVE RowHasFile'
    BY <2>3 DEF CreateRow, OwnerInv, Adding
  <2>4. ASSUME NEW c \in Calls, DeleteRow(c) PROVE RowHasFile'
    BY <2>4 DEF DeleteRow
  <2>5. ASSUME NEW c \in Calls, DeleteFile(c) PROVE RowHasFile'
    BY <2>5 DEF DeleteFile, OwnerInv
  <2>6. ASSUME NEW c \in Calls, DeleteFileFails(c) PROVE RowHasFile'
    BY <2>6 DEF DeleteFileFails, OwnerInv
  <2>7. CASE UNCHANGED <<rows, files>>
    BY <2>7
  <2> QED
    BY <2>1, <2>2, <2>3, <2>4, <2>5, <2>6, <2>7
    DEF Next, AddImage, DeleteImage, ReorderImages, Crash, Rebase, Stop, vars,
        FindLast, AddFails, FindImage, DeleteRowFails, ReadImages, Reorder, ReorderFails
<1> QED BY <1>1, <1>2, OwnersAreSound, PTL DEF Spec

\* A step of one call that touches no row and no file, and does not drop its
\* own responsibility, forgets no file.
LEMMA OwnersKept ==
  ASSUME FileHasOwner, NEW c \in Calls,
         UNCHANGED <<rows, files, orphaned>>,
         \A d \in Calls \ {c} : call'[d] = call[d],
         call[c].pc \in Owning =>
           call'[c].pc \in Owning /\ call'[c].image = call[c].image
  PROVE  FileHasOwner'
<1>1. \A d \in Calls : call[d].pc \in Owning =>
        call'[d].pc \in Owning /\ call'[d].image = call[d].image
  OBVIOUS
<1> QED BY <1>1 DEF FileHasOwner

\* No file is forgotten unless a fault hit between the two stores.
THEOREM FilesHaveOwners == Spec => []FileHasOwner
<1>1. Init => FileHasOwner
  BY DEF Init, FileHasOwner
<1>2. Inv /\ FileHasOwner /\ [Next]_vars => FileHasOwner'
  <2> SUFFICES ASSUME Inv, FileHasOwner, [Next]_vars PROVE FileHasOwner'
    OBVIOUS
  <2> USE DEF Inv, FileHasOwner, TypeOK, CallState, Adding, Owning
  <2>1. ASSUME NEW c \in Calls, NEW i \in Images, Upload(c, i) PROVE FileHasOwner'
    BY <2>1 DEF Upload, OwnerInv
  <2>2. ASSUME NEW c \in Calls, NEW i \in Images, UploadFails(c, i) PROVE FileHasOwner'
    BY <2>2 DEF UploadFails, OwnerInv
  <2>3. ASSUME NEW c \in Calls, FindLast(c) PROVE FileHasOwner'
    <3>1. PICK n \in Nat : call' = [call EXCEPT ![c].pc = "create", ![c].at = n]
      BY <2>3, FindLastLemma
    <3>2. call[c].pc = "findLast" /\ UNCHANGED <<rows, files, orphaned>>
      BY <2>3 DEF FindLast
    <3>3. call'[c] = [call[c] EXCEPT !.pc = "create", !.at = n]
      BY <3>1
    <3>4. \A d \in Calls \ {c} : call'[d] = call[d]
      BY <3>1
    <3>5. call'[c].pc \in Owning /\ call'[c].image = call[c].image
      BY <3>3
    <3> QED BY <3>2, <3>4, <3>5, OwnersKept
  <2>4. ASSUME NEW c \in Calls, CreateRow(c) PROVE FileHasOwner'
    BY <2>4 DEF CreateRow, Answered, Idle, OwnerInv
  <2>5. ASSUME NEW c \in Calls, AddFails(c) PROVE FileHasOwner'
    BY <2>5 DEF AddFails, Answered, Idle, OwnerInv
  <2>6. ASSUME NEW c \in Calls, NEW i \in Images, FindImage(c, i) PROVE FileHasOwner'
    <3>1. call[c].pc = "idle" /\ UNCHANGED <<rows, files, orphaned>>
      BY <2>6 DEF FindImage
    <3>2. \A d \in Calls \ {c} : call'[d] = call[d]
      BY <2>6 DEF FindImage
    <3> QED BY <3>1, <3>2, OwnersKept
  <2>7. ASSUME NEW c \in Calls, DeleteRow(c) PROVE FileHasOwner'
    BY <2>7 DEF DeleteRow, OwnerInv
  <2>8. ASSUME NEW c \in Calls, DeleteRowFails(c) PROVE FileHasOwner'
    <3>1. call[c].pc = "deleteRow" /\ UNCHANGED <<rows, files, orphaned>>
      BY <2>8 DEF DeleteRowFails
    <3>2. \A d \in Calls \ {c} : call'[d] = call[d]
      BY <2>8 DEF DeleteRowFails, Answered
    <3> QED BY <3>1, <3>2, OwnersKept
  <2>9. ASSUME NEW c \in Calls, DeleteFile(c) PROVE FileHasOwner'
    BY <2>9 DEF DeleteFile, Answered, Idle, OwnerInv
  <2>10. ASSUME NEW c \in Calls, DeleteFileFails(c) PROVE FileHasOwner'
    BY <2>10 DEF DeleteFileFails, Answered, Idle, OwnerInv
  <2>11. ASSUME NEW c \in Calls, NEW list \in [1 .. Cardinality(rows) -> rows], ReadImages(c, list) PROVE FileHasOwner'
    <3>1. call[c].pc = "idle" /\ UNCHANGED <<rows, files, orphaned>>
      BY <2>11 DEF ReadImages
    <3>2. \A d \in Calls \ {c} : call'[d] = call[d]
      BY <2>11 DEF ReadImages
    <3> QED BY <3>1, <3>2, OwnersKept
  <2>12. ASSUME NEW c \in Calls, Reorder(c) PROVE FileHasOwner'
    <3>1. call[c].pc = "reorder" /\ UNCHANGED <<rows, files, orphaned>>
      BY <2>12 DEF Reorder
    <3>2. \A d \in Calls \ {c} : call'[d] = call[d]
      BY <2>12 DEF Reorder, Answered
    <3> QED BY <3>1, <3>2, OwnersKept
  <2>13. ASSUME NEW c \in Calls, ReorderFails(c) PROVE FileHasOwner'
    <3>1. call[c].pc = "reorder" /\ UNCHANGED <<rows, files, orphaned>>
      BY <2>13 DEF ReorderFails
    <3>2. \A d \in Calls \ {c} : call'[d] = call[d]
      BY <2>13 DEF ReorderFails, Answered
    <3> QED BY <3>1, <3>2, OwnersKept
  <2>14. ASSUME Crash \/ Rebase PROVE FileHasOwner'
    BY <2>14 DEF Crash, Rebase, Stop, Idle
  <2>15. ASSUME UNCHANGED vars PROVE FileHasOwner'
    BY <2>15 DEF vars
  <2> QED
    BY <2>1, <2>2, <2>3, <2>4, <2>5, <2>6, <2>7, <2>8, <2>9, <2>10, <2>11, <2>12, <2>13, <2>14, <2>15
    DEF Next, AddImage, DeleteImage, ReorderImages
<1> QED BY <1>1, <1>2, OwnersAreSound, PTL DEF Spec

-----------------------------------------------------------------------------
(* Positions *)

CollisionInv == CollisionNeedsOverlap /\ PositionInv

\* Images whose positions differ and are all below n are at most n.
LEMMA PositionsLemma ==
  ASSUME TypeOK, NEW n \in Nat,
         \A i, j \in rows : i # j => position[i] # position[j],
         \A i \in rows : position[i] < n
  PROVE  Cardinality(rows) <= n
<1> DEFINE f == [i \in rows |-> position[i]]
<1>1. \A i \in rows : position[i] \in 0 .. n - 1
  BY DEF TypeOK
<1>2. f \in Injection(rows, 0 .. n - 1)
  BY <1>1 DEF Injection, IsInjective
<1>3. IsFiniteSet(0 .. n - 1) /\ Cardinality(0 .. n - 1) = n
  BY FS_Interval
<1> HIDE DEF f
<1> QED BY <1>2, <1>3, FS_Injection

\* A reorder that names every image once gives every image a position of its
\* own, below the number of images.
LEMMA MatchingReorder ==
  ASSUME TypeOK, NEW c \in Calls, Reorder(c), excuse' = {}
  PROVE  /\ excuse = {}
         /\ \A i, j \in rows : i # j => position'[i] # position'[j]
         /\ \A i \in rows : position'[i] < Cardinality(rows)
<1> DEFINE list == call[c].list
<1>1. list \in Seq(Images)
  BY DEF TypeOK, CallState
<1>2. Len(list) \in Nat /\ DOMAIN list = 1 .. Len(list)
  BY <1>1
<1>3. excuse = {} /\ IsInjective(list) /\ Range(list) = rows
  <2>1. excuse' = IF IsInjective(list) /\ Range(list) = rows
                  THEN excuse ELSE excuse \cup {"mismatch"}
    BY DEF Reorder
  <2> QED BY <2>1
<1>4. Cardinality(rows) = Len(list)
  <2>1. IsFiniteSet(1 .. Len(list)) /\ Cardinality(1 .. Len(list)) = Len(list)
    BY <1>2, FS_Interval
  <2>2. list \in Bijection(1 .. Len(list), rows)
    <3>1. list \in [1 .. Len(list) -> rows]
      BY <1>1, <1>2, <1>3 DEF Range
    <3> QED BY <1>2, <1>3, <3>1 DEF Bijection, Injection, Surjection, Range
  <2>3. ExistsBijection(1 .. Len(list), rows)
    BY <2>2 DEF ExistsBijection
  <2> QED BY <2>1, <2>3, FS_Bijection
<1>5. PICK last \in [Range(list) -> DOMAIN list] :
        /\ \A i \in Range(list) : list[last[i]] = i
        /\ position' = [i \in Images |->
             IF i \in Range(list) THEN last[i] - 1 ELSE position[i]]
  BY DEF Reorder
<1> HIDE DEF list
<1>6. \A i \in rows : position'[i] = last[i] - 1 /\ last[i] \in 1 .. Len(list) /\ list[last[i]] = i
  BY <1>2, <1>3, <1>5 DEF TypeOK
<1>7. \A i, j \in rows : last[i] = last[j] => i = j
  BY <1>6
<1>8. \A i, j \in rows : i # j => position'[i] # position'[j]
  BY <1>6, <1>7
<1> QED BY <1>2, <1>3, <1>4, <1>6, <1>8

\* A step that leaves rows and positions alone, makes no call ready to create a
\* row, and excuses nothing away.
LEMMA PositionsKept ==
  ASSUME CollisionInv, UNCHANGED <<rows, position>>, excuse' = {} => excuse = {},
         \A c \in Calls : call'[c].pc = "create" =>
           call[c].pc = "create" /\ call'[c].at = call[c].at
  PROVE  CollisionInv'
BY DEF CollisionInv, CollisionNeedsOverlap, PositionInv

\* Two images share a position only after uploads overlapped or a list was
\* applied that is not exactly the images of that moment: deletions, matching
\* reorders and one upload at a time never lead there, in whatever order.
THEOREM CollisionsNeedOverlap == Spec => []CollisionNeedsOverlap
<1>1. Init => CollisionInv
  BY DEF Init, CollisionInv, CollisionNeedsOverlap, PositionInv
<1>2. Inv /\ CollisionInv /\ [Next]_vars => CollisionInv'
  <2> SUFFICES ASSUME Inv, CollisionInv, [Next]_vars PROVE CollisionInv'
    OBVIOUS
  <2> USE DEF Inv, TypeOK, CallState, Adding, Owning
  <2>1. ASSUME NEW c \in Calls, NEW i \in Images, Upload(c, i) \/ UploadFails(c, i) \/ FindImage(c, i)
        PROVE  CollisionInv'
    <3>1. UNCHANGED <<rows, position, excuse>>
      BY <2>1 DEF Upload, UploadFails, FindImage
    <3>2. \A d \in Calls : call'[d].pc = "create" => call'[d] = call[d]
      BY <2>1 DEF Upload, UploadFails, FindImage
    <3> QED BY <3>1, <3>2, PositionsKept
  <2>2. ASSUME NEW c \in Calls, FindLast(c) PROVE CollisionInv'
    <3>1. UNCHANGED <<rows, position, excuse>>
      BY <2>2 DEF FindLast
    <3>2. \A d \in Calls \ {c} : call'[d] = call[d]
      BY <2>2 DEF FindLast
    <3>3. \A i \in rows : position[i] < call'[c].at
      <4>1. CASE rows = {}
        BY <4>1
      <4>2. ASSUME NEW last \in rows,
                   \A i \in rows : position[i] <= position[last],
                   call' = [call EXCEPT ![c].pc = "create", ![c].at = position[last] + 1]
            PROVE  \A i \in rows : position[i] < call'[c].at
        <5>1. call'[c].at = position[last] + 1
          BY <4>2
        <5>2. \A i \in rows : position[i] \in Nat
          OBVIOUS
        <5> QED BY <4>2, <5>1, <5>2
      <4> QED BY <2>2, <4>1, <4>2 DEF FindLast
    <3> QED BY <3>1, <3>2, <3>3 DEF CollisionInv, CollisionNeedsOverlap, PositionInv
  <2>3. ASSUME NEW c \in Calls, CreateRow(c) PROVE CollisionInv'
    <3> SUFFICES ASSUME excuse' = {}
                 PROVE  /\ \A i, j \in rows' : i # j => position'[i] # position'[j]
                        /\ \A d \in Calls : call'[d].pc # "create"
      BY DEF CollisionInv, CollisionNeedsOverlap, PositionInv
    <3>1. excuse = {} /\ \A d \in Calls \ {c} : call[d].pc # "create"
      <4>1. excuse' = IF \E d \in Calls \ {c} : call[d].pc = "create"
                      THEN excuse \cup {"overlap"} ELSE excuse
        BY <2>3 DEF CreateRow
      <4> QED BY <4>1
    <3>2. \A d \in Calls : call'[d].pc # "create"
      BY <2>3, <3>1 DEF CreateRow, Answered, Idle
    <3> DEFINE new == call[c].image
    <3>3. new \in Images \ rows /\ rows' = rows \cup {new}
          /\ position' = [position EXCEPT ![new] = call[c].at]
      BY <2>3 DEF CreateRow, OwnerInv
    <3>4. \A i \in rows : position[i] < call[c].at /\ position[i] \in Nat /\ call[c].at \in Nat
      BY <2>3, <3>1 DEF CreateRow, CollisionInv, PositionInv
    <3>5. \A i, j \in rows : i # j => position[i] # position[j]
      BY <3>1 DEF CollisionInv, CollisionNeedsOverlap
    <3> HIDE DEF new
    <3>6. \A i \in rows : position'[i] = position[i] /\ position'[i] # position'[new]
      BY <3>3, <3>4
    <3> QED BY <3>2, <3>3, <3>5, <3>6
  <2>4. ASSUME NEW c \in Calls, AddFails(c) \/ DeleteRowFails(c) \/ DeleteFile(c) \/ DeleteFileFails(c)
                                \/ ReorderFails(c)
        PROVE  CollisionInv'
    <3>1. UNCHANGED <<rows, position, excuse>> /\ call' = [call EXCEPT ![c] = Idle]
      BY <2>4 DEF AddFails, DeleteRowFails, DeleteFile, DeleteFileFails, ReorderFails, Answered
    <3>2. \A d \in Calls : call'[d].pc = "create" => call'[d] = call[d]
      BY <3>1 DEF Idle
    <3> QED BY <3>1, <3>2, PositionsKept
  <2>5. ASSUME NEW c \in Calls, DeleteRow(c) PROVE CollisionInv'
    <3>1. rows' \subseteq rows /\ excuse' = excuse
          /\ \A i \in rows' : position'[i] = position[i]
      BY <2>5 DEF DeleteRow
    <3>2. \A d \in Calls : call'[d].pc = "create" => call'[d] = call[d]
      BY <2>5 DEF DeleteRow
    <3> QED BY <3>1, <3>2 DEF CollisionInv, CollisionNeedsOverlap, PositionInv
  <2>6. ASSUME NEW c \in Calls, NEW list \in [1 .. Cardinality(rows) -> rows], ReadImages(c, list)
        PROVE  CollisionInv'
    <3>1. UNCHANGED <<rows, position, excuse>>
      BY <2>6 DEF ReadImages
    <3>2. \A d \in Calls : call'[d].pc = "create" => call'[d] = call[d]
      BY <2>6 DEF ReadImages
    <3> QED BY <3>1, <3>2, PositionsKept
  <2>7. ASSUME NEW c \in Calls, Reorder(c) PROVE CollisionInv'
    <3> SUFFICES ASSUME excuse' = {}
                 PROVE  /\ \A i, j \in rows' : i # j => position'[i] # position'[j]
                        /\ \A d \in Calls : call'[d].pc = "create" =>
                             \A i \in rows' : position'[i] < call'[d].at
      BY DEF CollisionInv, CollisionNeedsOverlap, PositionInv
    <3>1. /\ excuse = {}
          /\ \A i, j \in rows : i # j => position'[i] # position'[j]
          /\ \A i \in rows : position'[i] < Cardinality(rows)
      BY <2>7, MatchingReorder
    <3>2. rows' = rows /\ position' \in [Images -> Nat]
      BY <2>7, ReorderLemma DEF Reorder
    <3>3. Cardinality(rows) \in Nat
      BY ImagesAssumption, FS_Subset, FS_CardinalityType
    <3>4. ASSUME NEW d \in Calls, call'[d].pc = "create"
          PROVE  \A i \in rows : position'[i] < call'[d].at
      <4>1. call'[d] = call[d] /\ call[d].at \in Nat
        BY <2>7, <3>4 DEF Reorder, Answered, Idle
      <4>2. Cardinality(rows) <= call[d].at
        BY <3>1, <3>4, <4>1, PositionsLemma DEF CollisionInv, CollisionNeedsOverlap, PositionInv
      <4>3. \A i \in rows : position'[i] \in Nat
        BY <3>2
      <4> QED BY <3>1, <3>3, <4>1, <4>2, <4>3
    <3> QED BY <3>1, <3>2, <3>4
  <2>8. ASSUME Crash \/ Rebase PROVE CollisionInv'
    <3>1. UNCHANGED <<rows, position, excuse>> /\ \A d \in Calls : call'[d].pc = "idle"
      BY <2>8 DEF Crash, Rebase, Stop, Idle
    <3> QED BY <3>1, PositionsKept
  <2>9. ASSUME UNCHANGED vars PROVE CollisionInv'
    BY <2>9, PositionsKept DEF vars
  <2> QED
    BY <2>1, <2>2, <2>3, <2>4, <2>5, <2>6, <2>7, <2>8, <2>9
    DEF Next, AddImage, DeleteImage, ReorderImages
<1>3. CollisionInv => CollisionNeedsOverlap
  BY DEF CollisionInv
<1> QED BY <1>1, <1>2, <1>3, OwnersAreSound, PTL DEF Spec
=============================================================================
