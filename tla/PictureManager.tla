--------------------------- MODULE PictureManager ---------------------------
(***************************************************************************)
(* The pictures of a listing on its edit page (PropertyImageManager): they *)
(* are uploaded in batches, deleted, and dragged into another order.  The  *)
(* order changes on the screen first and is sent afterwards; an upload or  *)
(* a deletion is shown when it is done.  Nothing is disabled meanwhile.    *)
(*                                                                         *)
(* A request is served in one step; what two requests do to each other     *)
(* inside the service is in PropertyImages.                                *)
(***************************************************************************)
EXTENDS Browser

CONSTANTS
  Pictures,     \* BOUND: pictures ever stored for the listing
  MaxBatch      \* BOUND: files chosen at once

ASSUME PictureAssumption ==
  /\ MaxBatch \in Nat
  /\ None \notin Pictures \cup {"load", "upload", "delete", "order"}

VARIABLES
  gallery,      \* PropertyImage rows by sortOrder
  born,         \* history: ids handed out
  album,        \* the state of the component and of the page around it
  task,         \* its API calls
  orders,       \* new orders not served yet, as they were sent
  spoiled       \* history: why screen and rows may differ

pictureVars == <<gallery, born, album, task, orders, spoiled>>

\* drag is dragIndex, 0 for null.
Closed == [mounted |-> FALSE, loaded |-> FALSE, failed |-> FALSE, images |-> <<>>, drag |-> 0]
NoTask == [pc |-> "idle", kind |-> None, mine |-> FALSE, image |-> None, left |-> 0,
           images |-> <<>>]

Distinct == {s \in Seq(Pictures) : IsInjective(s)}

PictureTypeOK ==
  /\ gallery \in Distinct
  /\ born \subseteq Pictures
  /\ ToSet(gallery) \cup ToSet(album.images) \subseteq born
  /\ album \in [mounted : BOOLEAN, loaded : BOOLEAN, failed : BOOLEAN,
                images : Distinct, drag : Nat]
  /\ \A q \in Calls : task[q].images \in Distinct
  /\ \A q \in Calls : task[q].pc = "idle" <=> task[q] = NoTask
  /\ ToSet(orders) = {q \in Calls : task[q].pc = "sent" /\ task[q].kind = "order"}
  /\ spoiled \in BOOLEAN

PictureInit ==
  /\ gallery \in {<<i>> : i \in Pictures}
  /\ born = ToSet(gallery)
  /\ album = Closed
  /\ task = [q \in Calls |-> NoTask]
  /\ orders = <<>>
  /\ spoiled = FALSE

\* What filter leaves of a list when one id is refused: ids do not repeat.
Without(s, x) ==
  IF x \in ToSet(s) THEN RemoveAt(s, CHOOSE k \in DOMAIN s : s[k] = x) ELSE s

OwnTasks == {q \in Calls : task[q].mine}
Uploads == {q \in OwnTasks : task[q].kind = "upload"}

-----------------------------------------------------------------------------
(* The page *)

Start(q, t) ==
  /\ task[q].pc = "idle"
  /\ task' = [task EXCEPT ![q] = t]

New(kind) == [NoTask EXCEPT !.pc = "sent", !.kind = kind, !.mine = TRUE]

\* The effect of the edit page; without a token it loads for ever.
OpenPictures(q) ==
  /\ ~ album.mounted
  /\ album' = [Closed EXCEPT !.mounted = TRUE]
  /\ \/ Start(q, New("load"))
     \/ FALSE \in TokenHere /\ UNCHANGED task
  /\ spoiled' = FALSE
  /\ UNCHANGED <<gallery, born, orders>>

\* Answers are for nobody; changes that were sent, and the files of a batch still
\* to be sent, go on.
LeavePictures ==
  /\ album.mounted
  /\ album' = Closed
  /\ task' = [q \in Calls |->
       IF task[q].kind = "upload" \/ (task[q].pc = "sent" /\ task[q].kind # "load")
       THEN [task[q] EXCEPT !.mine = FALSE,
                            !.images = IF task[q].kind = "order" THEN @ ELSE <<>>]
       ELSE NoTask]
  /\ UNCHANGED <<gallery, born, orders, spoiled>>

Editing == album.loaded /\ ~ album.failed

\* uploadFiles: a file that is no JPG or PNG refuses the whole batch and changes
\* nothing.  The files of two batches under way mix.
AddPictures(q, n) ==
  /\ Editing
  /\ spoiled' = (spoiled \/ Uploads # {})
  /\ Start(q, [New("upload") EXCEPT !.left = n])
  /\ UNCHANGED <<gallery, born, album, orders>>

\* handleDelete, confirmed; a second click on the same picture is not held back.
DeletePicture(q, i) ==
  /\ Editing
  /\ i \in ToSet(album.images)
  /\ Start(q, [New("delete") EXCEPT !.image = i])
  /\ UNCHANGED <<gallery, born, album, orders, spoiled>>

\* A drag that ends elsewhere leaves its index behind.
StartDrag(k) ==
  /\ Editing
  /\ k # album.drag
  /\ album' = [album EXCEPT !.drag = k]
  /\ UNCHANGED <<gallery, born, task, orders, spoiled>>

\* Mutant: the order before the drop is sent.
PersistOrderStale(q, next) ==
  \/ /\ Start(q, [New("order") EXCEPT !.images = album.images])
     /\ orders' = Append(orders, q)
     /\ spoiled' = (spoiled /\ OwnTasks # {})
  \/ /\ FALSE \in TokenHere
     /\ spoiled' = TRUE
     /\ UNCHANGED <<task, orders>>

\* persistOrder sends the whole order, which makes up for what went wrong before
\* if nothing else is under way.  Without a token it returns silently.
PersistOrder(q, next) ==
  \/ /\ Start(q, [New("order") EXCEPT !.images = next])
     /\ orders' = Append(orders, q)
     /\ spoiled' = (spoiled /\ OwnTasks # {})
  \/ /\ FALSE \in TokenHere
     /\ spoiled' = TRUE
     /\ UNCHANGED <<task, orders>>

Moved(images, from, to) == InsertAt(RemoveAt(images, from), to, images[from])

\* handleDropReorder.  If pictures were deleted during the drag, its index may be
\* beyond the last: then an undefined image is inserted and rendering it fails.
DropOn(q, k) ==
  /\ Editing
  /\ album.drag \notin {0, k}
  /\ IF album.drag \in DOMAIN album.images
     THEN LET next == Moved(album.images, album.drag, k) IN
          /\ album' = [album EXCEPT !.images = next, !.drag = 0]
          /\ PersistOrder(q, next)
     ELSE /\ album' = [album EXCEPT !.failed = TRUE, !.drag = 0]
          /\ UNCHANGED <<task, orders, spoiled>>
  /\ UNCHANGED <<gallery, born>>

-----------------------------------------------------------------------------
(* The API *)

Done(q) == task' = [task EXCEPT ![q] = NoTask]

\* A request of a page that was left is served for nobody, and is news to the
\* page of today.
Reply(q, pc) ==
  IF task[q].mine THEN task' = [task EXCEPT ![q].pc = pc] ELSE Done(q)
NoteStray(q) == spoiled' = (spoiled \/ ~ task[q].mine)

\* findOneForAdmin with its images.
ServePictures(q) ==
  /\ task[q].pc = "sent" /\ task[q].kind = "load"
  /\ task' = [task EXCEPT ![q].pc = "ok", ![q].images = gallery]
  /\ UNCHANGED <<gallery, born, album, orders, spoiled>>

\* addImage puts the picture after the last one.
ServeUpload(q, i) ==
  /\ task[q].pc = "sent" /\ task[q].kind = "upload"
  /\ i \notin born
  /\ born' = born \cup {i}
  /\ gallery' = Append(gallery, i)
  /\ task' = [task EXCEPT ![q].pc = "ok", ![q].image = i]
  /\ NoteStray(q)
  /\ UNCHANGED <<album, orders>>

\* deleteImage: 404 if it is gone.
ServeDelete(q) ==
  /\ task[q].pc = "sent" /\ task[q].kind = "delete"
  /\ gallery' = Without(gallery, task[q].image)
  /\ Reply(q, IF task[q].image \in ToSet(gallery) THEN "ok" ELSE "refused")
  /\ NoteStray(q)
  /\ UNCHANGED <<born, album, orders>>

\* reorderImages: accepted if it names all the rows.
ServeOrder(q) ==
  LET wanted == task[q].images
      accepted == ToSet(wanted) = ToSet(gallery) IN
  /\ task[q].pc = "sent" /\ task[q].kind = "order"
  /\ gallery' = IF accepted THEN wanted ELSE gallery
  /\ Reply(q, IF accepted THEN "ok" ELSE "refused")
  /\ orders' = Without(orders, q)
  /\ spoiled' = (spoiled \/ ~ task[q].mine \/ Head(orders) # q)
  /\ UNCHANGED <<born, album>>

\* Another member of staff has the same listing open.
PicturesElsewhere ==
  /\ "elsewhere" \in Mishaps
  /\ album.mounted
  /\ gallery # <<>>
  /\ gallery' \in {Tail(gallery), Append(Tail(gallery), Head(gallery))} \ {gallery}
  /\ spoiled' = TRUE
  /\ UNCHANGED <<born, album, task, orders>>

-----------------------------------------------------------------------------
(* Answers *)

AnswerPictures(q) ==
  /\ task[q].pc = "ok" /\ task[q].kind = "load"
  /\ Done(q)
  /\ album' = [album EXCEPT !.loaded = TRUE, !.images = task[q].images]
  /\ UNCHANGED <<gallery, born, orders, spoiled>>

\* One file of a batch is over, with its image or without: the next one, or all
\* that succeeded are shown behind the pictures of the moment.
NextFile(q, uploaded) ==
  IF task[q].left > 1
  THEN /\ task' = [task EXCEPT ![q].pc = "sent", ![q].left = @ - 1, ![q].image = None,
                               ![q].images = IF task[q].mine THEN uploaded ELSE <<>>]
       /\ UNCHANGED album
  ELSE /\ Done(q)
       /\ album' = IF task[q].mine THEN [album EXCEPT !.images = @ \o uploaded] ELSE album

AnswerUpload(q) ==
  /\ task[q].pc = "ok" /\ task[q].kind = "upload"
  /\ NextFile(q, Append(task[q].images, task[q].image))
  /\ UNCHANGED <<gallery, born, orders, spoiled>>

AnswerDelete(q) ==
  /\ task[q].pc = "ok" /\ task[q].kind = "delete"
  /\ Done(q)
  /\ album' = [album EXCEPT !.images = Without(@, task[q].image)]
  /\ UNCHANGED <<gallery, born, orders, spoiled>>

AnswerOrder(q) ==
  /\ task[q].pc = "ok" /\ task[q].kind = "order"
  /\ Done(q)
  /\ UNCHANGED <<gallery, born, album, orders, spoiled>>

\* Refused, or failed on its way there or back: a message, and a batch goes on
\* with its next file.  The order on the screen stays.
TaskFails(q) ==
  /\ task[q].pc = "refused" \/ ("network" \in Mishaps /\ task[q].pc # "idle")
  /\ IF task[q].kind = "upload" THEN NextFile(q, task[q].images)
     ELSE /\ Done(q)
          /\ album' = [album EXCEPT !.failed = @ \/ task[q].kind = "load"]
  /\ orders' = Without(orders, q)
  /\ spoiled' = (spoiled \/ task[q].mine)
  /\ UNCHANGED <<gallery, born>>

\* The browser gives up an order that the server still gets to.
TaskGivenUp(q) ==
  /\ "network" \in Mishaps
  /\ task[q].mine /\ task[q].pc = "sent" /\ task[q].kind = "order"
  /\ task' = [task EXCEPT ![q].mine = FALSE]
  /\ spoiled' = TRUE
  /\ UNCHANGED <<gallery, born, album, orders>>

-----------------------------------------------------------------------------
AtAlbum ==
  \/ \E q \in Calls : OpenPictures(q)
  \/ LeavePictures
  \/ \E q \in Calls, n \in 1 .. MaxBatch : AddPictures(q, n)
  \/ \E q \in Calls, i \in Pictures : DeletePicture(q, i)
  \/ \E k \in DOMAIN album.images : StartDrag(k)
  \/ \E q \in Calls, k \in DOMAIN album.images : DropOn(q, k)

OnTask(q) ==
  \/ ServePictures(q) \/ ServeDelete(q) \/ ServeOrder(q)
  \/ \E i \in Pictures : ServeUpload(q, i)
  \/ AnswerPictures(q) \/ AnswerUpload(q) \/ AnswerDelete(q) \/ AnswerOrder(q)
  \/ TaskFails(q) \/ TaskGivenUp(q)

PictureNext ==
  \/ AtAlbum
  \/ \E q \in Calls : OnTask(q)
  \/ PicturesElsewhere

PictureSpec == PictureInit /\ [][PictureNext]_pictureVars

-----------------------------------------------------------------------------
(* Properties *)

\* When nothing is under way the screen shows the stored order, although it was
\* changed before it was sent and uploads and deletions came in between: unless
\* a call failed or was refused, two orders overtook each other, two batches
\* were mixed, or somebody else touched the pictures.
ShownOrderIsStored ==
  Editing /\ OwnTasks = {} /\ ~ spoiled => album.images = gallery

-----------------------------------------------------------------------------
(* Strengthening: what makes the properties above inductive *)

TaskState == [pc : {"idle", "sent", "ok", "refused"},
              kind : {None, "load", "upload", "delete", "order"}, mine : BOOLEAN,
              image : Pictures \cup {None}, left : Nat, images : Distinct]

PictureStateInv ==
  /\ gallery \in Distinct
  /\ born \subseteq Pictures
  /\ ToSet(gallery) \cup ToSet(album.images) \subseteq born
  /\ album \in [mounted : BOOLEAN, loaded : BOOLEAN, failed : BOOLEAN,
                images : Distinct, drag : Nat]
  /\ ~ album.mounted => album = Closed
  /\ task \in [Calls -> TaskState]
  /\ spoiled \in BOOLEAN

\* orders is the queue of the orders under way.
QueueInv ==
  /\ orders \in Seq(Calls) /\ IsInjective(orders)
  /\ ToSet(orders) = {q \in Calls : task[q].pc = "sent" /\ task[q].kind = "order"}

\* What a batch has stored and the page does not show yet.
Added(q) ==
  IF task[q].pc = "ok" THEN Append(task[q].images, task[q].image) ELSE task[q].images

\* A call carries pictures that exist; a page that was left has none to wait for.
Orderly(t) ==
  \/ t = NoTask
  \/ /\ t.pc # "idle" /\ t.kind # None
     /\ ToSet(t.images) \subseteq born
     /\ t.kind = "load"   => t.mine /\ t.pc \in {"sent", "ok"}
     /\ t.kind = "upload" => /\ t.pc \in {"sent", "ok"}
                             /\ t.pc = "ok" => t.image \in born \ ToSet(t.images)
                             /\ ~ t.mine => t.images = <<>>
     /\ t.kind = "delete" => t.image \in born
     /\ ~ t.mine /\ t.kind # "upload" => t.pc = "sent"

\* The list is loaded once and by itself; only then are there other calls.
VisitInv ==
  \A q \in OwnTasks :
    /\ album.mounted
    /\ album.loaded <=> task[q].kind # "load"
    /\ task[q].kind = "load" => OwnTasks = {q}

\* Whatever happens: a picture is new to the page until its batch is over, and
\* once the service has deleted it, it does not come back.
BatchInv ==
  /\ \A q \in Uploads : ToSet(Added(q)) \cap ToSet(album.images) = {}
  /\ \A q, r \in Uploads : q # r => ToSet(Added(q)) \cap ToSet(Added(r)) = {}
  /\ \A q \in OwnTasks : task[q].kind = "delete" =>
       /\ \A r \in Uploads : task[q].image \notin ToSet(Added(r))
       /\ task[q].pc = "ok" => task[q].image \notin ToSet(gallery)

Trouble == spoiled \/ \E q \in OwnTasks : task[q].pc = "refused"

Before(s, x, y) == \E i, j \in DOMAIN s : i < j /\ s[i] = x /\ s[j] = y

Batch == IF Uploads = {} THEN <<>> ELSE Added(CHOOSE q \in Uploads : TRUE)

\* What the screen comes to show when the batch under way is over.
Settled == album.images \o Batch

\* Own deletions that were served and not answered.
Deleted == {task[q].image :
              q \in {r \in OwnTasks : task[r].kind = "delete" /\ task[r].pc = "ok"}}

OwnOrders == {q \in OwnTasks : task[q].pc = "sent" /\ task[q].kind = "order"}
SentLastOf(q) == q \in OwnOrders /\ \A r \in OwnOrders : ~ Before(orders, q, r)

\* The screen shows its pictures in the order in which s has them.
Keeps(s) == \A x, y \in ToSet(Settled) : Before(s, x, y) => Before(Settled, x, y)

\* Screen and rows differ by what own calls have done and not yet shown.
Level ==
  /\ ToSet(gallery) \subseteq ToSet(Settled)
  /\ ToSet(Settled) \subseteq ToSet(gallery) \cup Deleted
  /\ Keeps(gallery)

\* If this order is accepted, they will.
LevelAfter(sent) ==
  /\ ToSet(sent) \cap ToSet(gallery) \subseteq ToSet(Settled)
  /\ ToSet(Settled) \subseteq ToSet(sent) \cup ToSet(gallery) \cup Deleted
  /\ Keeps(sent)

\* While nothing went wrong screen and rows are level, if no own order is on its
\* way, and otherwise the order sent last will make them so.
SyncInv ==
  ~ Trouble =>
    /\ \A q \in OwnTasks : task[q].kind = "load" /\ task[q].pc = "ok" => task[q].images = gallery
    /\ Editing =>
         /\ \A q, r \in Uploads : q = r
         /\ ToSet(Batch) \subseteq ToSet(gallery)
         /\ OwnOrders = {} => Level
         /\ \A q \in Calls : SentLastOf(q) => LevelAfter(task[q].images)

PictureInv ==
  /\ PictureStateInv /\ QueueInv /\ (\A q \in Calls : Orderly(task[q]))
  /\ VisitInv /\ BatchInv /\ SyncInv
=============================================================================
