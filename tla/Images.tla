-------------------------------- MODULE Images ------------------------------
(***************************************************************************)
(* Uploaded images (upload/, storage/) and the products and articles that  *)
(* show them (product/handler.go, article/handler.go): a save or a deletion *)
(* reads what the item shows, writes the row, and then, image by image,    *)
(* asks whether anything shows it still and removes its file.  Nothing of  *)
(* this is one transaction, and a query or a removal that fails is passed  *)
(* over: the request goes on to the next image and succeeds.               *)
(*                                                                         *)
(* An operator whose name has an underscore is a faulty variant of the     *)
(* operator that follows it; no specification uses it.                     *)
(***************************************************************************)
EXTENDS Naturals, FiniteSets

CONSTANTS
    Products, Articles,
    Keys,          \* the names that uploads get
    Links,         \* image URLs that are no uploads of the shop
    Insides,       \* the sets of images an item may have in it, besides its main one
    Requests, None

Items == Products \cup Articles

Images == Keys \cup Links

ImagesAssumption ==
    /\ Products \cap Articles = {} /\ Keys \cap Links = {}
    /\ {} \in Insides /\ Insides \subseteq SUBSET Images /\ None \notin Images
    /\ None \notin [main : Images \cup {None}, inside : Insides]

VARIABLES
    item,          \* products and articles; None where there is no row
    born,          \* the ids the sequences have given out
    given,         \* the keys that uploads have got
    disk,          \* the files of the upload directory
    released,      \* history: the images that something showed and later nothing did
    request        \* the saves and deletions

vars == <<item, born, given, disk, released, request>>

Shows == [main : Images \cup {None},   \* image_url, or cover_image_url
          inside : Insides]            \* image_urls, or the images of the content

Idle == [at |-> "idle", item |-> None, input |-> None, new |-> FALSE,
         keep |-> FALSE, before |-> None, todo |-> {}, image |-> None,
         renamed |-> FALSE, left |-> {}, alone |-> FALSE]

Ended == {"done", "missing", "failed"}

TypeOK ==
    /\ item \in [Items -> Shows \cup {None}]
    /\ born \in SUBSET Items /\ given \in SUBSET Keys /\ disk \in SUBSET given
    /\ released \in SUBSET Images
    /\ request \in [Requests ->
          [at : {"idle", "writing", "cleaning", "removing"} \cup Ended,
           item : Items \cup {None},
           input : Shows \cup {None},       \* None for a deletion
           new : BOOLEAN,                   \* a creation
           keep : BOOLEAN,                  \* an update that leaves the gallery alone
           before : Shows \cup {None},      \* what GetByID returned, if it did
           todo : SUBSET Images,            \* the images still to look at
           image : Images \cup {None},      \* the one it found unused
           renamed : BOOLEAN,               \* history: a save has named it since
           left : SUBSET Images,            \* history: its query or removal failed
           alone : BOOLEAN]]                \* history: no other request ran beside it
    \* A removal is of an upload.
    /\ \A r \in Requests : request[r].at = "removing" => request[r].image \in given

\* Some items are there already, and show uploads that are there.
Init ==
    /\ given \in SUBSET Keys /\ disk = given
    /\ item \in [Items -> {s \in Shows : ({s.main} \cup s.inside) \cap Keys \subseteq given}
                          \cup {None}]
    /\ born = {i \in Items : item[i] # None}
    /\ released = {}
    /\ request = [r \in Requests |-> Idle]

\* What the properties call in use.
Shown(x) == \E i \in Items : item[i] # None /\ x \in {item[i].main} \cup item[i].inside

Referenced_Products(x) ==
    \E i \in Products : item[i] # None /\ (item[i].main = x \/ x \in item[i].inside)

\* ImageReferenced, and the same query of article/handler.go.
Referenced(x) == \E i \in Items : item[i] # None /\ (item[i].main = x \/ x \in item[i].inside)

-----------------------------------------------------------------------------
(* Uploads.                                                                *)

\* UploadProductImage: a name of its own for each file.
Upload(k) ==
    /\ k \notin given
    /\ given' = given \cup {k} /\ disk' = disk \cup {k}
    /\ UNCHANGED <<item, born, released, request>>

-----------------------------------------------------------------------------
(* Saves and deletions.                                                    *)

Waiting == {r \in Requests : request[r].at = "idle"}

Active(r) == request[r].at \notin {"idle"} \cup Ended

\* A request starts, with the item as it reads it, or with nothing when a product's
\* GetByID fails.
Begin(r, i, start) ==
    LET alone == \A q \in Requests \ {r} : ~Active(q) IN
    /\ request' = [q \in Requests |->
          IF q = r THEN [start EXCEPT !.at = "writing", !.item = i, !.alone = alone]
          ELSE IF Active(q) THEN [request[q] EXCEPT !.alone = FALSE]
          ELSE request[q]]
    /\ UNCHANGED <<item, given, disk, released>>

\* A form may name any upload there has been, whether or not its file is there.
Input(main, inside) ==
    /\ {main} \cap Keys \subseteq given
    /\ inside \cap Keys \subseteq given

Create(r, i, main, inside) ==
    /\ i \notin born /\ born' = born \cup {i} /\ Input(main, inside)
    /\ Begin(r, i, [Idle EXCEPT !.input = [main |-> main, inside |-> inside], !.new = TRUE])

\* An article's Update returns when the read fails; only a product's keeps its gallery.
Update(r, i, main, inside, keep, read) ==
    /\ i \in born /\ UNCHANGED born /\ Input(main, inside)
    /\ keep => inside = {}
    /\ i \in Articles => read /\ item[i] # None /\ ~keep
    /\ Begin(r, i, [Idle EXCEPT !.input = [main |-> main, inside |-> inside], !.keep = keep,
                                !.before = IF read THEN item[i] ELSE None])

Delete(r, i, read) ==
    /\ i \in born /\ UNCHANGED born
    /\ Begin(r, i, [Idle EXCEPT !.before = IF read THEN item[i] ELSE None])

Todo_NoGallery(r) ==
    IF request[r].before = None THEN {} ELSE {request[r].before.main} \ {None}

\* The images it will look at: the main one unless it is saved again, and a
\* product's gallery.  One that is in both places is looked at once.
Todo(r) ==
    LET q == request[r] IN
    IF q.before = None THEN {}
    ELSE ({q.before.main} \ IF q.input = None THEN {None} ELSE {None, q.input.main})
         \cup IF q.item \in Products THEN q.before.inside ELSE {}

\* The INSERT, the UPDATE or the DELETE.
Write(r) ==
    LET i == request[r].item
        input == request[r].input
        after == IF input # None /\ request[r].keep
                 THEN [input EXCEPT !.inside = item[i].inside] ELSE input
    IN
    /\ request[r].at = "writing"
    /\ IF item[i] = None /\ ~request[r].new
       THEN /\ request' = [request EXCEPT ![r] = [Idle EXCEPT !.at = "missing"]]
            /\ UNCHANGED <<item, released>>
       ELSE /\ item' = [item EXCEPT ![i] = after]
            /\ request' = [q \in Requests |->
                  IF q = r THEN [request[r] EXCEPT !.at = "cleaning", !.todo = Todo(r)]
                  ELSE [request[q] EXCEPT !.renamed = @ \/
                           (/\ input # None /\ request[q].at = "removing"
                            /\ request[q].image \in {after.main} \cup after.inside)]]
            /\ released' = released \cup {x \in Images : Shown(x) /\ ~Shown(x)'}
    /\ UNCHANGED <<born, given, disk>>

LookAt_StopsAtError(r, x, answered) ==
    /\ request[r].at = "cleaning" /\ x \in request[r].todo
    /\ request' = IF x \in Keys /\ answered /\ ~Referenced(x)
                  THEN [request EXCEPT ![r].at = "removing", ![r].image = x,
                                       ![r].todo = @ \ {x}]
                  ELSE [request EXCEPT ![r].todo = IF answered THEN @ \ {x} ELSE {},
                                       ![r].left = IF x \in Keys /\ ~answered THEN @ \cup {x} ELSE @]
    /\ UNCHANGED <<item, born, given, disk, released>>

\* cleanupImageIfUnused: KeyFromURL, and the query, which may fail: "err != nil || used"
\* leaves the image as it is, and the next one is looked at.
LookAt(r, x, answered) ==
    /\ request[r].at = "cleaning" /\ x \in request[r].todo
    /\ request' = IF x \in Keys /\ answered /\ ~Referenced(x)
                  THEN [request EXCEPT ![r].at = "removing", ![r].image = x,
                                       ![r].todo = @ \ {x}]
                  ELSE [request EXCEPT ![r].todo = @ \ {x},
                                       ![r].left = IF x \in Keys /\ ~answered THEN @ \cup {x} ELSE @]
    /\ UNCHANGED <<item, born, given, disk, released>>

\* images.Delete: the file goes, or an error, that it is gone already among them, is
\* logged, and the next image is looked at.
Remove(r, removed) ==
    /\ request[r].at = "removing"
    /\ disk' = IF removed THEN disk \ {request[r].image} ELSE disk
    /\ request' = [request EXCEPT ![r].at = "cleaning", ![r].image = None, ![r].renamed = FALSE,
                                  ![r].left = IF removed THEN @ ELSE @ \cup {request[r].image}]
    /\ UNCHANGED <<item, born, given, released>>

Answer(r) ==
    /\ request[r].at = "cleaning" /\ request[r].todo = {}
    /\ request' = [request EXCEPT ![r] = [Idle EXCEPT !.at = "done"]]
    /\ UNCHANGED <<item, born, given, disk, released>>

\* The write is refused, or the process or the client goes: nothing more is removed.
Fail(r) ==
    /\ Active(r)
    /\ request' = [request EXCEPT ![r] = [Idle EXCEPT !.at = "failed"]]
    /\ UNCHANGED <<item, born, given, disk, released>>

Next ==
    \/ \E k \in Keys : Upload(k)
    \/ \E r \in Waiting, i \in Items :
          \/ \E main \in Images \cup {None}, inside \in Insides :
                \/ Create(r, i, main, inside)
                \/ \E keep, read \in BOOLEAN : Update(r, i, main, inside, keep, read)
          \/ \E read \in BOOLEAN : Delete(r, i, read)
    \/ \E r \in Requests :
          \/ Write(r) \/ Answer(r) \/ Fail(r)
          \/ \E x \in Images, answered \in BOOLEAN : LookAt(r, x, answered)
          \/ \E removed \in BOOLEAN : Remove(r, removed)

Spec == Init /\ [][Next]_vars

-----------------------------------------------------------------------------
(* Properties.                                                             *)

\* An upload loses its file only after a moment at which nothing showed it any more.  One
\* that is in use without a break keeps it, however saves and deletions race that hand it
\* from one item to another, in its main place or inside; and so does one that waits for
\* its first save.
ImagesInUseStay == [](given \ disk \subseteq released)

\* One that was released and taken up again loses its file in the gap only: a save named
\* it after a clean-up had asked and before that clean-up removed it.
LossesFallInTheGap ==
    [][\A r \in Requests : request[r].at = "removing" /\ disk' # disk /\ request'[r].at = "cleaning" =>
          ~Shown(request[r].image) \/ request[r].renamed]_vars

\* A product's save or deletion that ran alone leaves no file behind that its product
\* showed and nothing shows any more, but one whose own query or removal failed: an
\* error at one image does not keep it from the others.
AloneItTidies ==
    [][\A r \in Requests :
          LET q == request[r] IN
          /\ q.at = "cleaning" /\ request'[r].at = "done"
          /\ q.alone /\ q.item \in Products /\ q.before # None
          => \A x \in disk \cap ({q.before.main} \cup q.before.inside) : Shown(x) \/ x \in q.left]_vars

\* The clean-up removes what nothing shows, and only that.
ImagesSafety ==
    /\ []TypeOK
    /\ ImagesInUseStay
    /\ LossesFallInTheGap
    /\ AloneItTidies
=============================================================================
