----------------------------- MODULE ImageAlbum -----------------------------
(***************************************************************************)
(* The images of one room or one hotel: the album rows, the cover_image_url   *)
(* of the place they belong to and the uploaded files                         *)
(* (src/backend/src/rooms/rooms.service.ts; hotels.service.ts is the same      *)
(* code with another limit, see HotelAlbum).                                   *)
(*                                                                          *)
(* No request runs in a transaction: every repository call commits by itself. *)
(* save() of an object is one step here, its SELECT and its UPDATE together;   *)
(* a write that falls between them is a write before or after it.             *)
(*                                                                          *)
(* An id that no row and no request names stands for one never used, and so    *)
(* does such a file name: histories of any length stay finite.                 *)
(***************************************************************************)
EXTENDS FiniteSets, Naturals

CONSTANTS
  Client,     \* employees and visitors, each sending one request at a time
  Image,      \* ids of album rows
  File,       \* addresses under /uploads/, each given by multer to one file
  Web,        \* other addresses
  None,
  MaxImages,  \* MAX_ROOM_IMAGES, MAX_HOTEL_IMAGES
  MaxBatch,   \* bound: files in one upload
  Faults      \* TRUE: calls fail, the process dies

Url == File \cup Web

ASSUME AlbumConstants ==
  /\ None \notin Client \cup Image \cup Url /\ File \cap Web = {}
  /\ IsFiniteSet(Image) /\ IsFiniteSet(File)
  /\ MaxImages \in Nat \ {0} /\ MaxBatch \in Nat /\ Faults \in BOOLEAN

VARIABLES
  place,     \* "none", "live" or "removed": the row of rooms, its deleted_at
  cover,     \* its cover_image_url
  url,       \* image_url of each album row, None where there is no row
  primary,   \* the rows with is_primary = 1
  files,     \* the uploaded files on disk
  pc, req,   \* where each client's request is, and what it holds
  alone,     \* history: nothing else ran during this client's request
  sound,     \* history: nothing since the last undisturbed choice of a primary
             \*   has overlapped, failed, or changed the cover by itself
  crowded,   \* history: two requests on the album have overlapped
  clean      \* history: no overlap, no failure, and no client has given the
             \*   address of an uploaded file

placeVars == <<place, cover>>
album == <<url, primary>>
history == <<alone, sound, crowded, clean>>
vars == <<placeVars, album, files, pc, req, history>>

Rows == {i \in Image : url[i] # None}

NoRequest == [op |-> "none", todo |-> {}, lead |-> FALSE, image |-> None,
              url |-> None, seen |-> {}]

Request == [op : {"none", "create", "add", "read", "choose", "delete", "edit", "remove"},
            todo : SUBSET Url,             \* images still to insert
            lead : BOOLEAN,                \* the next one, or this one, is primary
            image : Image \cup {None}, url : Url \cup {None},
            seen : SUBSET Image]           \* room.images, as findOne() loaded it

(* Deliberately wrong variants, see PROJECT.json.                              *)
FitsByItself(c) == Cardinality(Rows) <= MaxImages
LiveOrRemoved == place # "none"
StaysPrimary(c) == primary
FileOfCover(c) == cover
IdAsCover(c) == IF req[c].op = "choose" THEN req[c].image ELSE req[c].url

-----------------------------------------------------------------------------
Init ==
  /\ place = "none" /\ cover = None
  /\ url = [i \in Image |-> None] /\ primary = {}
  /\ files = {}
  /\ pc = [c \in Client |-> "idle"] /\ req = [c \in Client |-> NoRequest]
  /\ alone = [c \in Client |-> FALSE] 
  /\ sound = TRUE /\ crowded = FALSE /\ clean = TRUE

To(c, label) == pc' = [pc EXCEPT ![c] = label]

Keep(c, label, r) == To(c, label) /\ req' = [req EXCEPT ![c] = r]

End(c) == Keep(c, "idle", NoRequest)

OnAlbum(op) == op \notin {"edit", "remove"}

\* The request arrives; `given' is the address it carries, if any.
Begin(c, label, r, given) ==
  LET others == {d \in Client : pc[d] # "idle"}
  IN /\ pc[c] = "idle"
     /\ Keep(c, label, r)
     /\ clean' = (clean /\ others = {} /\ given \notin File)
     /\ alone' = [d \in Client |-> IF d = c THEN others = {} ELSE alone[d] /\ others = {}]
     /\ sound' = (sound /\ others = {})
     /\ crowded' = (crowded \/ (OnAlbum(r.op) /\ \E d \in others : OnAlbum(req[d].op)))

Named == {url[i] : i \in Rows} \cup {cover}
           \cup UNION {req[c].todo \cup {req[c].url} : c \in Client}

FreshFile == File \ (files \cup Named)

FreshImage == {i \in Image \ Rows : \A c \in Client : i # req[c].image /\ i \notin req[c].seen}

Live == place = "live"

-----------------------------------------------------------------------------
(* create(): the row, then, when it has a cover, its first image *)

SavePlace(c) ==
  /\ place = "none"
  /\ \E u \in Url \cup {None} :
       /\ IF u = None THEN Begin(c, "idle", NoRequest, None)
                      ELSE Begin(c, "first", [NoRequest EXCEPT !.op = "create", !.url = u], u)
       /\ cover' = u
  /\ place' = "live"
  /\ UNCHANGED <<album, files>>

\* create()'s first image, and the one getImages() makes from the cover.
InsertFirst(c) ==
  /\ pc[c] = "first"
  /\ \E i \in FreshImage :
       /\ url' = [url EXCEPT ![i] = req[c].url]
       /\ primary' = primary \cup {i}
  /\ End(c)
  /\ UNCHANGED <<placeVars, files, history>>

-----------------------------------------------------------------------------
(* addImages() *)

\* multer has written the files when the handler starts; it names no primary.
Upload(c) ==
  place # "none" /\ \E U \in SUBSET FreshFile :
    /\ Cardinality(U) \in 1 .. MaxBatch
    /\ files' = files \cup U
    /\ Begin(c, "find", [NoRequest EXCEPT !.op = "add", !.todo = U], None)
    /\ UNCHANGED <<placeVars, album>>

\* addImage(): one address, given by the employee.
Post(c) ==
  place # "none" /\ \E u \in Url, wanted \in BOOLEAN :
    /\ Begin(c, "find", [NoRequest EXCEPT !.op = "add", !.todo = {u}, !.lead = wanted], u)
    /\ UNCHANGED <<placeVars, album, files>>

Fits(c) == Cardinality(Rows) + Cardinality(req[c].todo) <= MaxImages

\* Refused, the files of an upload stay on disk.
Count(c) ==
  LET lead == req[c].lead \/ Rows = {}
      r == [req[c] EXCEPT !.lead = lead]
  IN /\ pc[c] = "count"
     /\ \/ /\ Fits(c) /\ ~lead
           /\ Keep(c, "insert", [r EXCEPT !.seen = {}])
        \/ /\ Fits(c) /\ lead
           /\ \E u \in req[c].todo : Keep(c, "clear", [r EXCEPT !.url = u])
        \/ ~Fits(c) /\ End(c)
     /\ UNCHANGED <<placeVars, album, files, history>>

Insert(c) ==
  LET r == req[c]
  IN /\ pc[c] = "insert"
     /\ \E i \in FreshImage, u \in IF r.lead THEN {r.url} ELSE r.todo :
          /\ url' = [url EXCEPT ![i] = u]
          /\ primary' = IF r.lead THEN primary \cup {i} ELSE primary
          /\ IF r.todo = {u} THEN End(c)
             ELSE Keep(c, "insert", [r EXCEPT !.todo = @ \ {u}, !.lead = FALSE,
                                                   !.url = None, !.seen = {}])
     /\ sound' = (sound \/ (r.lead /\ alone[c]))
     /\ UNCHANGED <<placeVars, files, alone, crowded, clean>>

-----------------------------------------------------------------------------
(* getImages() *)

\* Nothing in the album: the room is read for its cover.
Read(c) ==
  /\ place # "none" /\ Rows = {}
  /\ Begin(c, "look", [NoRequest EXCEPT !.op = "read"], None)
  /\ UNCHANGED <<placeVars, album, files>>

LookAtCover(c) ==
  /\ pc[c] = "look"
  /\ IF Live /\ cover # None THEN Keep(c, "first", [req[c] EXCEPT !.url = cover])
                             ELSE End(c)
  /\ UNCHANGED <<placeVars, album, files, history>>

-----------------------------------------------------------------------------
(* setPrimaryImage() and deleteImage() *)

Choose(c) ==
  \E i \in Rows :
    /\ Begin(c, "find", [NoRequest EXCEPT !.op = "choose", !.image = i], None)
    /\ UNCHANGED <<placeVars, album, files>>

Delete(c) ==
  \E i \in Rows :
    /\ Begin(c, "find", [NoRequest EXCEPT !.op = "delete", !.image = i], None)
    /\ UNCHANGED <<placeVars, album, files>>

After(op) == CASE op = "add" -> "count"
               [] op \in {"choose", "delete"} -> "findImage"
               [] op = "edit" -> "cover"

\* findOne(): the row and, for save() to compare, the images it has.
Find(c) ==
  LET r == req[c]
  IN /\ pc[c] = "find"
     /\ IF ~Live THEN End(c)
        ELSE IF r.op = "remove" THEN To(c, "remove") /\ UNCHANGED req
        ELSE Keep(c, After(r.op),
               [r EXCEPT !.seen = Rows,
                         !.url = IF r.op = "edit" /\ ~r.lead THEN cover ELSE r.url])
     /\ UNCHANGED <<placeVars, album, files, history>>

FindImage(c) ==
  LET r == req[c]
  IN /\ pc[c] = "findImage"
     /\ \/ /\ r.image \in Rows
           /\ IF r.op = "choose"
              THEN Keep(c, "clear", [r EXCEPT !.url = url[r.image]])
              ELSE Keep(c, "unlink", [r EXCEPT !.url = url[r.image],
                                               !.lead = r.image \in primary])
        \/ r.image \notin Rows /\ End(c)
     /\ UNCHANGED <<placeVars, album, files, history>>

\* UPDATE ... SET is_primary = 0, of setPrimaryImage() and of addImages().
Cleared(c) == {}

Clear(c) ==
  /\ pc[c] = "clear"
  /\ primary' = Cleared(c)
  /\ To(c, IF req[c].op = "choose" THEN "mark" ELSE "cover")
  /\ UNCHANGED <<placeVars, url, files, req, history>>

\* save(image): an image deleted since it was read is inserted again.
Mark(c) ==
  LET r == req[c]
  IN /\ pc[c] = "mark"
     /\ url' = [url EXCEPT ![r.image] = r.url]
     /\ primary' = primary \cup {r.image}
     /\ To(c, "cover")
     /\ UNCHANGED <<placeVars, files, req, history>>

FileOf(c) == req[c].url

\* deletePhysicalFile() ...
Unlink(c) ==
  /\ pc[c] = "unlink"
  /\ files' = files \ {FileOf(c)}
  /\ To(c, "delete")
  /\ UNCHANGED <<placeVars, album, req, history>>

\* ... then the row ...
DeleteRow(c) ==
  LET r == req[c]
  IN /\ pc[c] = "delete"
     /\ url' = [url EXCEPT ![r.image] = None]
     /\ primary' = primary \ {r.image}
     /\ IF r.lead THEN Keep(c, "next", [r EXCEPT !.url = None, !.lead = FALSE])
                  ELSE End(c)
     /\ UNCHANGED <<placeVars, files, history>>

\* ... then the image that follows, if there is one, becomes the primary one:
\* the first by sort_order and id, any here.
PromoteNext(c) ==
  LET r == req[c]
  IN /\ pc[c] = "next"
     /\ \/ \E i \in Rows : Keep(c, "mark", [r EXCEPT !.image = i, !.url = url[i]])
        \/ Rows = {} /\ Keep(c, "cover", [r EXCEPT !.image = None])
     /\ UNCHANGED <<placeVars, album, files, history>>

-----------------------------------------------------------------------------
(* update() and remove() *)

\* A PATCH that gives a cover, null included, or one that does not.
Edit(c) ==
  place # "none" /\ \E given \in BOOLEAN, u \in Url \cup {None} :
    /\ given \/ u = None
    /\ Begin(c, "find", [NoRequest EXCEPT !.op = "edit", !.lead = given, !.url = u], u)
    /\ UNCHANGED <<placeVars, album, files>>

Remove(c) ==
  /\ place # "none"
  /\ Begin(c, "find", [NoRequest EXCEPT !.op = "remove"], None)
  /\ UNCHANGED <<placeVars, album, files>>

SoftDelete(c) ==
  /\ pc[c] = "remove"
  /\ place' = "removed"
  /\ End(c)
  /\ UNCHANGED <<cover, album, files, history>>

-----------------------------------------------------------------------------
\* The address of the image, or the one that update() was given.
CoverOf(c) == req[c].url

\* save(room): its cover and its deleted_at, which was null when findOne() read
\* it.  An image of the room that is not among room.images would lose its
\* room_id, which is NOT NULL: the call fails.
SaveCover(c) ==
  LET r == req[c]
  IN /\ pc[c] = "cover"
     /\ \/ /\ Rows \subseteq r.seen
           /\ cover' = CoverOf(c)
           /\ place' = "live"
           /\ IF r.op = "add" THEN To(c, "insert") /\ UNCHANGED req ELSE End(c)
           /\ sound' = IF r.op = "edit" THEN sound /\ ~r.lead
                       ELSE sound \/ (r.op = "choose" /\ alone[c])
        \/ /\ ~(Rows \subseteq r.seen)
           /\ End(c)
           /\ sound' = FALSE
           /\ UNCHANGED placeVars
     /\ UNCHANGED <<album, files, alone, crowded, clean>>

\* An error or a crash between two calls: what was committed stays.
Fail(c) ==
  /\ Faults /\ pc[c] # "idle"
  /\ End(c)
  /\ sound' = FALSE /\ clean' = FALSE
  /\ UNCHANGED <<placeVars, album, files, alone, crowded>>

Arrive(c) == SavePlace(c) \/ Upload(c) \/ Post(c) \/ Read(c) \/ Choose(c)
                 \/ Delete(c) \/ Edit(c) \/ Remove(c)

Step(c) ==
  \/ InsertFirst(c) \/ Find(c) \/ Count(c) \/ Insert(c) \/ LookAtCover(c)
  \/ FindImage(c) \/ Clear(c) \/ Mark(c) \/ Unlink(c) \/ DeleteRow(c)
  \/ PromoteNext(c) \/ SaveCover(c) \/ SoftDelete(c)

Next == \E c \in Client : Arrive(c) \/ Step(c) \/ Fail(c)

Spec == Init /\ [][Next]_vars

-----------------------------------------------------------------------------
Label == {"idle", "first", "find", "count", "clear", "cover", "insert", "look",
          "findImage", "mark", "unlink", "delete", "next", "remove"}

TypeOK ==
  /\ place \in {"none", "live", "removed"} /\ cover \in Url \cup {None}
  /\ url \in [Image -> Url \cup {None}] /\ primary \subseteq Rows
  /\ files \subseteq Url
  /\ pc \in [Client -> Label] /\ req \in [Client -> Request]
  /\ alone \in [Client -> BOOLEAN] /\ sound \in BOOLEAN /\ crowded \in BOOLEAN
  /\ clean \in BOOLEAN

Quiet == \A c \in Client : pc[c] = "idle"

\* The album holds MaxImages images at most, however edits and the removal of
\* the place fall between the calls of an upload: only two requests that both
\* change the album can exceed it.
WithinLimit == ~crowded => Cardinality(Rows) <= MaxImages

\* Whatever overlaps and failures have done to it, one undisturbed choice of a
\* primary image (setPrimaryImage(), or an upload that makes its image the
\* primary one) puts the album in order, and every undisturbed request keeps it
\* so: one primary image, and the cover of the place is its address.
AlbumInOrder ==
  Quiet /\ sound =>
    \/ Rows = {} /\ cover = None
    \/ \E i \in Rows : primary = {i} /\ cover = url[i]

\* No image of the album has lost its file, as long as requests come one after
\* the other, none fails, and no client gives the address of an uploaded file
\* himself (two rows may then have one file, which goes with the first of them).
FilesPresent ==
  Quiet /\ clean => {url[i] : i \in Rows} \cap File \subseteq files

\* A removed place comes back only by the stale save() of a request that
\* another one overlapped.
RemovedStays ==
  [][place = "removed" /\ place' # "removed" =>
       \E c \in Client : ~alone[c] /\ pc[c] = "cover"]_vars
=============================================================================
