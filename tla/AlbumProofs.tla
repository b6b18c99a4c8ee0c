----------------------------- MODULE AlbumProofs -----------------------------
(***************************************************************************)
(* Theorems about ImageAlbum and HotelAlbum, for any number of clients,       *)
(* images, files and addresses and any limit.                                 *)
(***************************************************************************)
EXTENDS HotelAlbum, FiniteSetTheorems, TLAPS

\* What a request holds where it is.
Shape(label, r) ==
  /\ label = "first" => r.op \in {"create", "read"} /\ r.url \in Url
  /\ label = "look" => r.op = "read"
  /\ label = "find" => r.op \in {"add", "choose", "delete", "edit", "remove"}
  /\ label = "count" => r.op = "add"
  /\ label = "findImage" => r.op \in {"choose", "delete"}
  /\ label = "clear" => r.op \in {"add", "choose"} /\ r.url \in Url
  /\ label = "mark" => r.op \in {"choose", "delete"} /\ r.url \in Url
  /\ label \in {"clear", "mark"} /\ r.op # "add" => r.image \in Image
  /\ label \in {"unlink", "delete", "next"} => r.op = "delete"
  /\ label \in {"unlink", "delete"} => r.image \in Image
  /\ label = "next" => r.url = None
  /\ label = "cover" => r.op \in {"add", "choose", "delete", "edit"}
  /\ label \in {"clear", "cover"} /\ r.op = "add" => r.lead
  /\ label = "insert" => r.op = "add"
  /\ label \in {"clear", "cover", "insert"} /\ r.op = "add" /\ r.lead => r.url \in r.todo
  /\ label = "remove" => r.op = "remove"
  /\ r.op = "add" => IsFiniteSet(r.todo)

TypeInv == TypeOK /\ \A c \in Client : Shape(pc[c], req[c])

-----------------------------------------------------------------------------
Busy(c) == pc[c] # "idle" /\ OnAlbum(req[c].op)

\* What keeps a request on the album within the limit, if it is the only one.
Room(label, r) ==
  /\ label \in {"first", "look"} => Rows = {}
  /\ label \in {"clear", "cover", "insert"} /\ r.op = "add" =>
       Cardinality(Rows) + Cardinality(r.todo) <= MaxImages
  /\ label \in {"clear", "mark"} /\ r.op # "add" => r.image \in Rows

LimitInv ==
  /\ place = "none" => Rows = {} /\ Quiet
  /\ ~crowded =>
       /\ Cardinality(Rows) <= MaxImages
       /\ \A c, d \in Client : Busy(c) /\ Busy(d) => c = d
       /\ \A c \in Client : Busy(c) => Room(pc[c], req[c])

-----------------------------------------------------------------------------
\* What a request knows that has the album and the place to itself.
Solo(label, r) ==
  /\ label \in {"first", "look"} => Rows = {}
  /\ label \notin {"idle", "find", "first", "look"} => place = "live"
  /\ label \in {"count", "findImage", "clear", "mark", "cover", "unlink", "delete", "next"} =>
       Rows \subseteq r.seen
  /\ label \in {"clear", "mark", "unlink", "delete"} /\ r.op # "add" =>
       r.image \in Rows /\ url[r.image] = r.url
  /\ label \in {"unlink", "delete"} => (r.lead <=> r.image \in primary)
  /\ label = "mark" /\ r.op = "choose" => primary = {}
  /\ label = "cover" /\ r.op = "choose" =>
       r.image \in Rows /\ primary = {r.image} /\ url[r.image] = r.url
  /\ label = "cover" /\ r.op = "add" => primary = {}
  /\ label = "insert" /\ r.lead => primary = {} /\ cover = r.url
  /\ label = "cover" /\ r.op = "edit" /\ ~r.lead => r.url = cover

Alone(c) == alone[c] /\ pc[c] # "idle"

InOrder ==
  \/ Rows = {} /\ cover = None
  \/ \E i \in Rows : primary = {i} /\ cover = url[i]

\* What it knows beyond that of an album that was in order when it came.
Ordered(label, r) ==
  /\ label = "first" => cover = r.url
  /\ label \in {"find", "look", "count", "findImage", "clear", "unlink", "delete", "remove"}
       => InOrder
  /\ label \in {"next", "mark"} /\ r.op = "delete" => primary = {}
  /\ label = "insert" /\ ~r.lead => InOrder /\ Rows # {}
  /\ label = "cover" /\ r.op = "delete" =>
       \/ Rows = {} /\ r.url = None
       \/ \E i \in Rows : primary = {i} /\ r.url = url[i]
  /\ label = "cover" /\ r.op = "edit" => InOrder

AloneInv ==
  /\ \A c \in Client : Alone(c) => \A d \in Client \ {c} : pc[d] = "idle"
  /\ \A c \in Client : Alone(c) => Solo(pc[c], req[c])
  /\ \A c \in Client : (sound \/ clean) /\ pc[c] # "idle" => alone[c]

OrderInv ==
  sound => /\ Quiet => InOrder
           /\ \A c \in Client : pc[c] # "idle" => Ordered(pc[c], req[c])

-----------------------------------------------------------------------------
\* No two rows have one file, and one image at most is primary.
Distinct ==
  /\ \A i, j \in Rows : url[i] = url[j] /\ url[i] \in File => i = j
  /\ \A i, j \in primary : i = j

\* The file of a row is there.
Present(i) == url[i] \in File => url[i] \in files

Filed == Distinct /\ \A i \in Rows : Present(i)

\* A cover that is a file is the primary image's.
Covered == cover \in File => \E i \in Rows : primary = {i} /\ cover = url[i]

\* A file that is there and that no row has.
Spare(u) == u \in File => u \in files /\ \A i \in Rows : url[i] # u

Clean(label, r) ==
  /\ Distinct
  /\ \A i \in Rows : Present(i) \/ (label = "delete" /\ i = r.image)
  /\ label \in {"find", "look", "count", "findImage", "unlink", "delete", "remove"} => Covered
  /\ label = "clear" /\ r.op = "choose" => Covered
  /\ label = "insert" /\ ~r.lead => Covered
  /\ label = "cover" /\ r.op = "edit" /\ ~r.lead => Covered
  /\ label = "first" => r.url \notin File /\ cover \notin File
  /\ label \in {"find", "count", "clear", "cover", "insert"} /\ r.op = "add" =>
       \A u \in r.todo : Spare(u)
  /\ label \in {"next", "mark"} /\ r.op = "delete" => primary = {}
  /\ label = "cover" /\ r.op = "delete" /\ r.url \in File =>
       \E i \in Rows : primary = {i} /\ r.url = url[i]
  /\ label \in {"find", "cover"} /\ r.op = "edit" /\ r.lead => r.url \notin File

FileInv ==
  clean => /\ Quiet => Filed /\ Covered
           /\ \A c \in Client : pc[c] # "idle" => Clean(pc[c], req[c])
-----------------------------------------------------------------------------
(* Types                                                                      *)

\* One request moves on.
LEMMA Moved ==
  ASSUME TypeInv, NEW c \in Client, NEW l \in Label, NEW r \in Request,
         To(c, l), req' = [req EXCEPT ![c] = r], Shape(l, r)
  PROVE  /\ pc' \in [Client -> Label] /\ req' \in [Client -> Request]
         /\ \A d \in Client : Shape(pc[d], req[d])'
  BY DEF TypeInv, TypeOK, To, Shape

LEMMA Ended ==
  ASSUME TypeInv, NEW c \in Client, End(c)
  PROVE  /\ pc' \in [Client -> Label] /\ req' \in [Client -> Request]
         /\ \A d \in Client : Shape(pc[d], req[d])'
<1>1. NoRequest \in Request /\ Shape("idle", NoRequest) /\ "idle" \in Label
  BY DEF NoRequest, Request, Shape, Label
<1> QED BY <1>1, Moved DEF End, Keep

LEMMA Began ==
  ASSUME TypeInv, NEW c \in Client, NEW l \in Label, NEW r \in Request, NEW given,
         Begin(c, l, r, given), Shape(l, r)
  PROVE  /\ pc' \in [Client -> Label] /\ req' \in [Client -> Request]
         /\ \A d \in Client : Shape(pc[d], req[d])'
         /\ alone' \in [Client -> BOOLEAN] /\ sound' \in BOOLEAN /\ crowded' \in BOOLEAN
         /\ clean' \in BOOLEAN
<1>1. alone' \in [Client -> BOOLEAN] /\ sound' \in BOOLEAN /\ crowded' \in BOOLEAN
      /\ clean' \in BOOLEAN
  BY DEF Begin, TypeInv, TypeOK
<1> QED BY <1>1, Moved DEF Begin, Keep

\* What a client may ask for.
LEMMA Asked ==
  /\ NoRequest \in Request
  /\ \A u \in Url : [NoRequest EXCEPT !.op = "create", !.url = u] \in Request
  /\ \A U \in SUBSET Url : [NoRequest EXCEPT !.op = "add", !.todo = U] \in Request
  /\ \A u \in Url, w \in BOOLEAN :
       [NoRequest EXCEPT !.op = "add", !.todo = {u}, !.lead = w] \in Request
  /\ [NoRequest EXCEPT !.op = "read"] \in Request
  /\ [NoRequest EXCEPT !.op = "remove"] \in Request
  /\ \A i \in Image : /\ [NoRequest EXCEPT !.op = "choose", !.image = i] \in Request
                      /\ [NoRequest EXCEPT !.op = "delete", !.image = i] \in Request
  /\ \A g \in BOOLEAN, u \in Url \cup {None} :
       [NoRequest EXCEPT !.op = "edit", !.lead = g, !.url = u] \in Request
  BY DEF NoRequest, Request
\* How a request begins, and what it finds and leaves.
Opens(c, l, r, given) ==
  /\ Begin(c, l, r, given) /\ Shape(l, r)
  /\ l \in {"idle", "first"} => place = "none" /\ place' = "live" /\ files' = files
  /\ l = "idle" => cover' = None
  /\ l = "first" => cover' = r.url /\ r.url = given
  /\ l \in {"find", "look"} => (place # "none" \/ Rows # {}) /\ UNCHANGED placeVars
  /\ l = "look" => Rows = {}
  /\ r.op = "add" => r.todo = {given} \/ (r.todo \subseteq FreshFile \cap files')
  /\ r.op = "edit" /\ r.lead => r.url = given
  /\ files' = files \/ \E U \in SUBSET FreshFile : files' = files \cup U

\* A request that begins leaves the rows of the album alone.
LEMMA Arrival ==
  ASSUME TypeInv, NEW c \in Client, Arrive(c)
  PROVE  /\ UNCHANGED album
         /\ \E l \in {"idle", "first", "find", "look"}, r \in Request, given \in Url \cup {None} :
              Opens(c, l, r, given)
<1>1. CASE SavePlace(c)
  <2>1. PICK u \in Url \cup {None} :
          /\ IF u = None THEN Begin(c, "idle", NoRequest, None)
                         ELSE Begin(c, "first", [NoRequest EXCEPT !.op = "create", !.url = u], u)
          /\ cover' = u
    BY <1>1 DEF SavePlace
  <2>2. CASE u = None
    <3>1. Begin(c, "idle", NoRequest, None) /\ Shape("idle", NoRequest) /\ NoRequest.op = "none"
      BY <2>1, <2>2 DEF Shape, NoRequest
    <3>2. Opens(c, "idle", NoRequest, None)
      BY <1>1, <2>1, <2>2, <3>1 DEF Opens, SavePlace
    <3> QED BY <1>1, <3>2, Asked DEF SavePlace, album
  <2>3. CASE u # None
    <3> DEFINE r == [NoRequest EXCEPT !.op = "create", !.url = u]
    <3>1. Begin(c, "first", r, u) /\ r \in Request
      BY <2>1, <2>3, Asked
    <3>2. Shape("first", r) /\ r.op = "create" /\ r.url = u
      BY <2>3 DEF Shape, NoRequest
    <3> HIDE DEF r
    <3>3. Opens(c, "first", r, u)
      BY <1>1, <2>1, <2>3, <3>1, <3>2 DEF Opens, SavePlace
    <3> QED BY <1>1, <3>1, <3>3 DEF SavePlace, album
  <2> QED BY <2>2, <2>3
<1>2. CASE Upload(c)
  <2>1. PICK U \in SUBSET FreshFile :
          /\ Cardinality(U) \in 1 .. MaxBatch /\ files' = files \cup U
          /\ Begin(c, "find", [NoRequest EXCEPT !.op = "add", !.todo = U], None)
          /\ UNCHANGED <<placeVars, album>>
    BY <1>2 DEF Upload
  <2> DEFINE r == [NoRequest EXCEPT !.op = "add", !.todo = U]
  <2>2. U \subseteq Url /\ IsFiniteSet(U)
    <3>1. U \subseteq File
      BY DEF FreshFile
    <3> QED BY <3>1, AlbumConstants, FS_Subset DEF Url
  <2>3. r \in Request /\ Shape("find", r) /\ r.op = "add" /\ r.todo = U
    BY <2>2, Asked DEF Shape, NoRequest
  <2>4. Begin(c, "find", r, None)
    BY <2>1
  <2> HIDE DEF r
  <2>5. Opens(c, "find", r, None)
    BY <1>2, <2>1, <2>3, <2>4 DEF Opens, Upload
  <2> QED BY <2>1, <2>3, <2>5
<1>3. CASE Post(c)
  <2>1. PICK u \in Url, w \in BOOLEAN :
          /\ Begin(c, "find", [NoRequest EXCEPT !.op = "add", !.todo = {u}, !.lead = w], u)
          /\ UNCHANGED <<placeVars, album, files>>
    BY <1>3 DEF Post
  <2> DEFINE r == [NoRequest EXCEPT !.op = "add", !.todo = {u}, !.lead = w]
  <2>2. r \in Request /\ Shape("find", r) /\ r.op = "add" /\ r.todo = {u}
    BY Asked, FS_Singleton DEF Shape, NoRequest
  <2>3. Begin(c, "find", r, u)
    BY <2>1
  <2> HIDE DEF r
  <2>4. Opens(c, "find", r, u)
    BY <1>3, <2>1, <2>2, <2>3 DEF Opens, Post
  <2> QED BY <2>1, <2>2, <2>4
<1>4. CASE Read(c)
  <2> DEFINE r == [NoRequest EXCEPT !.op = "read"]
  <2>1. Shape("look", r) /\ r.op = "read"
    BY DEF Shape, NoRequest
  <2>2. r \in Request /\ Begin(c, "look", r, None) /\ UNCHANGED <<placeVars, album, files>>
    BY <1>4, Asked DEF Read
  <2> HIDE DEF r
  <2>3. Opens(c, "look", r, None)
    BY <1>4, <2>1, <2>2 DEF Opens, Read
  <2> QED BY <2>2, <2>3
<1>5. CASE Choose(c) \/ Delete(c)
  <2>1. PICK i \in Rows, op \in {"choose", "delete"} :
          /\ Begin(c, "find", [NoRequest EXCEPT !.op = op, !.image = i], None)
          /\ UNCHANGED <<placeVars, album, files>>
    BY <1>5 DEF Choose, Delete
  <2> DEFINE r == [NoRequest EXCEPT !.op = op, !.image = i]
  <2>2. i \in Image
    BY DEF Rows
  <2>3. r \in Request /\ Shape("find", r) /\ r.op \in {"choose", "delete"}
    BY <2>2, Asked DEF Shape, NoRequest
  <2>4. Begin(c, "find", r, None)
    BY <2>1
  <2> HIDE DEF r
  <2>5. Opens(c, "find", r, None)
    BY <2>1, <2>3, <2>4 DEF Opens
  <2> QED BY <2>1, <2>3, <2>5
<1>6. CASE Edit(c)
  <2>1. PICK g \in BOOLEAN, u \in Url \cup {None} :
          /\ Begin(c, "find", [NoRequest EXCEPT !.op = "edit", !.lead = g, !.url = u], u)
          /\ UNCHANGED <<placeVars, album, files>>
    BY <1>6 DEF Edit
  <2> DEFINE r == [NoRequest EXCEPT !.op = "edit", !.lead = g, !.url = u]
  <2>2. r \in Request /\ Shape("find", r) /\ r.op = "edit" /\ r.url = u
    BY Asked DEF Shape, NoRequest
  <2>3. Begin(c, "find", r, u)
    BY <2>1
  <2> HIDE DEF r
  <2>4. Opens(c, "find", r, u)
    BY <1>6, <2>1, <2>2, <2>3 DEF Opens, Edit
  <2> QED BY <2>1, <2>2, <2>4
<1>7. CASE Remove(c)
  <2> DEFINE r == [NoRequest EXCEPT !.op = "remove"]
  <2>1. Shape("find", r) /\ r.op = "remove"
    BY DEF Shape, NoRequest
  <2>2. r \in Request /\ Begin(c, "find", r, None) /\ UNCHANGED <<placeVars, album, files>>
    BY <1>7, Asked DEF Remove
  <2> HIDE DEF r
  <2>3. Opens(c, "find", r, None)
    BY <1>7, <2>1, <2>2 DEF Opens, Remove
  <2> QED BY <2>2, <2>3
<1> QED BY <1>1, <1>2, <1>3, <1>4, <1>5, <1>6, <1>7 DEF Arrive

LEMMA ArrivalTyped ==
  ASSUME TypeInv, NEW c \in Client, Arrive(c) PROVE TypeInv'
<1>1. PICK l \in {"idle", "first", "find", "look"}, r \in Request, given \in Url \cup {None} :
        Opens(c, l, r, given)
  BY Arrival
<1>2. l \in Label
  BY DEF Label
<1>3. /\ pc' \in [Client -> Label] /\ req' \in [Client -> Request]
      /\ \A d \in Client : Shape(pc[d], req[d])'
      /\ alone' \in [Client -> BOOLEAN] /\ sound' \in BOOLEAN /\ crowded' \in BOOLEAN
      /\ clean' \in BOOLEAN
  BY <1>1, <1>2, Began DEF Opens
<1>4. /\ place' \in {"none", "live", "removed"} /\ cover' \in Url \cup {None}
  BY <1>1 DEF Opens, placeVars, TypeInv, TypeOK, Request
<1>5. files' \subseteq Url
  BY <1>1 DEF Opens, FreshFile, Url, TypeInv, TypeOK
<1> QED BY Arrival, <1>3, <1>4, <1>5 DEF TypeInv, TypeOK, album, Rows

\* A step that moves its request on and writes rows of the album.
LEMMA Wrote ==
  ASSUME TypeInv, UNCHANGED <<placeVars, files>>,
         url' \in [Image -> Url \cup {None}], primary' \subseteq Rows',
         UNCHANGED <<alone, crowded, clean>>, sound' \in BOOLEAN,
         pc' \in [Client -> Label], req' \in [Client -> Request],
         \A d \in Client : Shape(pc[d], req[d])'
  PROVE  TypeInv'
  BY DEF TypeInv, TypeOK, placeVars

\* ... or leaves the rows alone.
LEMMA MovedOn ==
  ASSUME TypeInv, UNCHANGED album, UNCHANGED <<alone, crowded>>,
         sound' \in BOOLEAN, clean' \in BOOLEAN, files' \subseteq Url,
         place' \in {"none", "live", "removed"}, cover' \in Url \cup {None},
         pc' \in [Client -> Label], req' \in [Client -> Request],
         \A d \in Client : Shape(pc[d], req[d])'
  PROVE  TypeInv'
  BY DEF TypeInv, TypeOK, album, Rows

\* What the request of a client is.
LEMMA Held ==
  ASSUME TypeInv, NEW c \in Client
  PROVE  /\ req[c] \in Request /\ Shape(pc[c], req[c])
         /\ place \in {"none", "live", "removed"} /\ cover \in Url \cup {None}
         /\ files \subseteq Url /\ sound \in BOOLEAN /\ clean \in BOOLEAN
         /\ req = [req EXCEPT ![c] = req[c]]
         /\ url \in [Image -> Url \cup {None}] /\ primary \subseteq Rows
  BY DEF TypeInv, TypeOK

\* The changes of what a request holds.
LEMMA Held1 ==
  ASSUME NEW r \in Request
  PROVE  /\ \A s \in SUBSET Image, u \in Url \cup {None} : [r EXCEPT !.seen = s, !.url = u] \in Request
         /\ \A w \in BOOLEAN : /\ [r EXCEPT !.lead = w] \in Request
                               /\ [[r EXCEPT !.lead = w] EXCEPT !.seen = {}] \in Request
                               /\ \A u \in Url : [[r EXCEPT !.lead = w] EXCEPT !.url = u] \in Request
         /\ \A u \in Url \cup {None} :
              /\ [r EXCEPT !.url = u] \in Request
              /\ \A w \in BOOLEAN : [r EXCEPT !.url = u, !.lead = w] \in Request
              /\ \A i \in Image : [r EXCEPT !.image = i, !.url = u] \in Request
         /\ [r EXCEPT !.image = None] \in Request
         /\ \A u \in Url : [r EXCEPT !.todo = @ \ {u}, !.lead = FALSE,
                                    !.url = None, !.seen = {}] \in Request
  BY DEF Request

LEMMA InsertFirstTyped ==
  ASSUME TypeInv, NEW c \in Client, InsertFirst(c) PROVE TypeInv'
<1>1. PICK i \in FreshImage : /\ url' = [url EXCEPT ![i] = req[c].url]
                              /\ primary' = primary \cup {i}
  BY DEF InsertFirst
<1>2. req[c].url \in Url
  BY Held DEF InsertFirst, Shape
<1>3. url' \in [Image -> Url \cup {None}] /\ primary' \subseteq Rows'
  BY <1>1, <1>2, Held, AlbumConstants DEF FreshImage, Rows
<1>4. UNCHANGED <<placeVars, files>> /\ UNCHANGED history /\ End(c)
  BY DEF InsertFirst
<1> QED BY <1>3, <1>4, Ended, Wrote, Held DEF history

LEMMA FindTyped ==
  ASSUME TypeInv, NEW c \in Client, Find(c) PROVE TypeInv'
<1>1. /\ pc[c] = "find" /\ UNCHANGED <<placeVars, album, files, history>>
      /\ \/ End(c)
         \/ /\ req[c].op = "remove" /\ To(c, "remove") /\ UNCHANGED req
         \/ /\ req[c].op # "remove"
            /\ Keep(c, After(req[c].op),
                 [req[c] EXCEPT !.seen = Rows,
                    !.url = IF req[c].op = "edit" /\ ~req[c].lead THEN cover ELSE req[c].url])
  BY DEF Find
<1> SUFFICES /\ pc' \in [Client -> Label] /\ req' \in [Client -> Request]
             /\ \A d \in Client : Shape(pc[d], req[d])'
  BY <1>1, MovedOn, Held DEF history, placeVars
<1>2. CASE End(c)
  BY <1>2, Ended
<1>3. CASE req[c].op = "remove" /\ To(c, "remove") /\ UNCHANGED req
  <2>1. Shape("remove", req[c]) /\ "remove" \in Label /\ req[c] \in Request
    BY <1>3, Held DEF Shape, Label
  <2> QED BY <1>3, <2>1, Moved, Held
<1>4. CASE /\ req[c].op # "remove"
           /\ Keep(c, After(req[c].op),
                [req[c] EXCEPT !.seen = Rows,
                   !.url = IF req[c].op = "edit" /\ ~req[c].lead THEN cover ELSE req[c].url])
  <2>1. PICK u \in Url \cup {None} :
          Keep(c, After(req[c].op), [req[c] EXCEPT !.seen = Rows, !.url = u])
    BY <1>4, Held DEF Request
  <2> DEFINE r == [req[c] EXCEPT !.seen = Rows, !.url = u]
  <2>2. r \in Request
    BY Held, Held1 DEF Rows
  <2>3. req[c].op \in {"add", "choose", "delete", "edit"} /\ Shape("find", req[c])
    BY <1>1, <1>4, Held DEF Shape
  <2>4. r.op = req[c].op /\ r.todo = req[c].todo
    BY Held DEF Request
  <2>5. Shape(After(req[c].op), r) /\ After(req[c].op) \in Label
    BY <2>3, <2>4 DEF Shape, After, Label
  <2> HIDE DEF r
  <2> QED BY <2>1, <2>2, <2>5, Moved DEF Keep, r
<1> QED BY <1>1, <1>2, <1>3, <1>4

LEMMA CountTyped ==
  ASSUME TypeInv, NEW c \in Client, Count(c) PROVE TypeInv'
<1>1. UNCHANGED <<placeVars, album, files, history>>
  BY DEF Count
<1> SUFFICES /\ pc' \in [Client -> Label] /\ req' \in [Client -> Request]
             /\ \A d \in Client : Shape(pc[d], req[d])'
  BY <1>1, MovedOn, Held DEF history, placeVars
<1>2. req[c].op = "add" /\ IsFiniteSet(req[c].todo) /\ req[c] \in Request
  BY Held DEF Count, Shape
<1>3. PICK lead \in BOOLEAN :
        \/ Keep(c, "insert", [[req[c] EXCEPT !.lead = lead] EXCEPT !.seen = {}]) /\ ~lead
        \/ /\ lead
           /\ \E u \in req[c].todo : Keep(c, "clear", [[req[c] EXCEPT !.lead = lead] EXCEPT !.url = u])
        \/ End(c)
  <2>1. (req[c].lead \/ Rows = {}) \in BOOLEAN
    BY Held DEF Request
  <2> QED BY <2>1 DEF Count
<1>4. CASE End(c)
  BY <1>4, Ended
<1>5. CASE Keep(c, "insert", [[req[c] EXCEPT !.lead = lead] EXCEPT !.seen = {}]) /\ ~lead
  <2> DEFINE r == [[req[c] EXCEPT !.lead = lead] EXCEPT !.seen = {}]
  <2>1. r \in Request
    BY <1>2, Held1
  <2>2. Shape("insert", r) /\ "insert" \in Label
    BY <1>2, <1>5 DEF Shape, Request, Label
  <2> QED BY <1>5, <2>1, <2>2, Moved DEF Keep
<1>6. CASE /\ lead
           /\ \E u \in req[c].todo : Keep(c, "clear", [[req[c] EXCEPT !.lead = lead] EXCEPT !.url = u])
  <2>1. PICK u \in req[c].todo : Keep(c, "clear", [[req[c] EXCEPT !.lead = lead] EXCEPT !.url = u])
    BY <1>6
  <2> DEFINE r == [[req[c] EXCEPT !.lead = lead] EXCEPT !.url = u]
  <2>2. r \in Request /\ u \in Url
    <3>1. u \in Url
      BY <1>2 DEF Request
    <3> QED BY <1>2, <3>1, Held1
  <2>3. Shape("clear", r) /\ "clear" \in Label
    BY <1>2, <1>6, <2>2 DEF Shape, Request, Label
  <2> QED BY <2>1, <2>2, <2>3, Moved DEF Keep
<1> QED BY <1>3, <1>4, <1>5, <1>6

LEMMA InsertTyped ==
  ASSUME TypeInv, NEW c \in Client, Insert(c) PROVE TypeInv'
<1>1. PICK i \in FreshImage, u \in IF req[c].lead THEN {req[c].url} ELSE req[c].todo :
        /\ url' = [url EXCEPT ![i] = u]
        /\ primary' = IF req[c].lead THEN primary \cup {i} ELSE primary
        /\ IF req[c].todo = {u} THEN End(c)
           ELSE Keep(c, "insert", [req[c] EXCEPT !.todo = @ \ {u}, !.lead = FALSE,
                                                 !.url = None, !.seen = {}])
  BY DEF Insert
<1>2. req[c] \in Request /\ req[c].op = "add" /\ IsFiniteSet(req[c].todo)
  BY Held DEF Insert, Shape
<1>3. u \in req[c].todo /\ u \in Url
  BY <1>1, <1>2, Held DEF Insert, Shape, Request
<1>4. url' \in [Image -> Url \cup {None}] /\ primary' \subseteq Rows'
  BY <1>1, <1>3, Held, AlbumConstants DEF FreshImage, Rows
<1>5. /\ pc' \in [Client -> Label] /\ req' \in [Client -> Request]
      /\ \A d \in Client : Shape(pc[d], req[d])'
  <2>1. CASE End(c)
    BY <2>1, Ended
  <2>2. CASE Keep(c, "insert", [req[c] EXCEPT !.todo = @ \ {u}, !.lead = FALSE,
                                              !.url = None, !.seen = {}])
    <3> DEFINE r == [req[c] EXCEPT !.todo = @ \ {u}, !.lead = FALSE, !.url = None, !.seen = {}]
    <3>1. r \in Request
      BY <1>2, <1>3, Held1
    <3>2. r.op = "add" /\ r.todo = req[c].todo \ {u} /\ ~r.lead
      BY <1>2 DEF Request
    <3>3. IsFiniteSet(r.todo)
      BY <1>2, <3>2, FS_RemoveElement
    <3>4. Shape("insert", r) /\ "insert" \in Label
      BY <3>2, <3>3 DEF Shape, Label
    <3> QED BY <2>2, <3>1, <3>4, Moved DEF Keep
  <2> QED BY <1>1, <2>1, <2>2
<1>6. sound' \in BOOLEAN
  BY Held DEF Insert, TypeInv, TypeOK
<1> QED BY <1>4, <1>5, <1>6, Wrote DEF Insert

LEMMA LookAtCoverTyped ==
  ASSUME TypeInv, NEW c \in Client, LookAtCover(c) PROVE TypeInv'
<1>1. UNCHANGED <<placeVars, album, files, history>>
  BY DEF LookAtCover
<1> SUFFICES /\ pc' \in [Client -> Label] /\ req' \in [Client -> Request]
             /\ \A d \in Client : Shape(pc[d], req[d])'
  BY <1>1, MovedOn, Held DEF history, placeVars
<1>2. CASE End(c)
  BY <1>2, Ended
<1>3. CASE cover # None /\ Keep(c, "first", [req[c] EXCEPT !.url = cover])
  <2> DEFINE r == [req[c] EXCEPT !.url = cover]
  <2>1. r \in Request
    BY Held, Held1
  <2>2. Shape("first", r) /\ "first" \in Label
    BY <1>3, Held DEF LookAtCover, Shape, Label, Request
  <2> QED BY <1>3, <2>1, <2>2, Moved DEF Keep
<1> QED BY <1>2, <1>3 DEF LookAtCover

LEMMA FindImageTyped ==
  ASSUME TypeInv, NEW c \in Client, FindImage(c) PROVE TypeInv'
<1>1. UNCHANGED <<placeVars, album, files, history>>
  BY DEF FindImage
<1> SUFFICES /\ pc' \in [Client -> Label] /\ req' \in [Client -> Request]
             /\ \A d \in Client : Shape(pc[d], req[d])'
  BY <1>1, MovedOn, Held DEF history, placeVars
<1>2. req[c] \in Request /\ req[c].op \in {"choose", "delete"}
  BY Held DEF FindImage, Shape
<1>3. CASE End(c)
  BY <1>3, Ended
<1>4. CASE req[c].image \in Rows /\ ~End(c)
  <2> DEFINE u == url[req[c].image]
  <2>1. req[c].image \in Image /\ u \in Url
    BY <1>4, Held DEF Rows
  <2>2. CASE req[c].op = "choose"
    <3>1. Keep(c, "clear", [req[c] EXCEPT !.url = u])
      BY <1>4, <2>2 DEF FindImage
    <3>2. [req[c] EXCEPT !.url = u] \in Request
      BY <2>1, <1>2, Held1
    <3>3. Shape("clear", [req[c] EXCEPT !.url = u]) /\ "clear" \in Label
      BY <2>1, <2>2, <1>2 DEF Shape, Label, Request
    <3> QED BY <3>1, <3>2, <3>3, Moved DEF Keep
  <2>3. CASE req[c].op # "choose"
    <3>1. PICK w \in BOOLEAN : Keep(c, "unlink", [req[c] EXCEPT !.url = u, !.lead = w])
      <4>1. Keep(c, "unlink", [req[c] EXCEPT !.url = u, !.lead = req[c].image \in primary])
        BY <1>4, <2>3 DEF FindImage
      <4>2. (req[c].image \in primary) \in BOOLEAN
        OBVIOUS
      <4> QED BY <4>1, <4>2
    <3>2. [req[c] EXCEPT !.url = u, !.lead = w] \in Request
      BY <2>1, <1>2, Held1
    <3>3. Shape("unlink", [req[c] EXCEPT !.url = u, !.lead = w]) /\ "unlink" \in Label
      BY <2>1, <2>3, <1>2 DEF Shape, Label, Request
    <3> QED BY <3>1, <3>2, <3>3, Moved DEF Keep
  <2> QED BY <2>2, <2>3
<1> QED BY <1>3, <1>4 DEF FindImage

LEMMA ClearTyped ==
  ASSUME TypeInv, NEW c \in Client, Clear(c) PROVE TypeInv'
<1>1. PICK l \in {"mark", "cover"} : /\ To(c, l)
                                     /\ l = IF req[c].op = "choose" THEN "mark" ELSE "cover"
  BY DEF Clear
<1>2. Shape(l, req[c]) /\ l \in Label /\ req[c] \in Request
  BY <1>1, Held DEF Clear, Shape, Label
<1>3. /\ pc' \in [Client -> Label] /\ req' \in [Client -> Request]
      /\ \A d \in Client : Shape(pc[d], req[d])'
  BY <1>1, <1>2, Moved, Held DEF Clear
<1>4. /\ url' \in [Image -> Url \cup {None}] /\ primary' \subseteq Rows'
      /\ UNCHANGED <<placeVars, files>> /\ UNCHANGED history
  BY Held DEF Clear, Cleared
<1> QED BY <1>3, <1>4, Held, Wrote DEF history

LEMMA MarkTyped ==
  ASSUME TypeInv, NEW c \in Client, Mark(c) PROVE TypeInv'
<1>1. Shape("mark", req[c]) /\ req[c] \in Request
  BY Held DEF Mark
<1>2. Shape("cover", req[c]) /\ "cover" \in Label
  BY <1>1 DEF Shape, Label
<1>3. /\ pc' \in [Client -> Label] /\ req' \in [Client -> Request]
      /\ \A d \in Client : Shape(pc[d], req[d])'
  BY <1>1, <1>2, Moved, Held DEF Mark
<1>4. req[c].image \in Image /\ req[c].url \in Url
  BY <1>1 DEF Shape
<1>5. url' \in [Image -> Url \cup {None}] /\ primary' \subseteq Rows'
  BY <1>4, Held, AlbumConstants DEF Mark, Rows
<1> QED BY <1>3, <1>5, Held, Wrote DEF Mark, history

LEMMA UnlinkTyped ==
  ASSUME TypeInv, NEW c \in Client, Unlink(c) PROVE TypeInv'
<1>1. Shape("delete", req[c]) /\ "delete" \in Label /\ req[c] \in Request
  BY Held DEF Unlink, Shape, Label
<1>2. /\ pc' \in [Client -> Label] /\ req' \in [Client -> Request]
      /\ \A d \in Client : Shape(pc[d], req[d])'
  BY <1>1, Moved, Held DEF Unlink
<1>3. files' \subseteq Url
  BY Held DEF Unlink
<1> QED BY <1>2, <1>3, Held, MovedOn DEF Unlink, history, placeVars

LEMMA DeleteRowTyped ==
  ASSUME TypeInv, NEW c \in Client, DeleteRow(c) PROVE TypeInv'
<1>1. Shape("delete", req[c]) /\ req[c] \in Request /\ req[c].op = "delete"
  BY Held DEF DeleteRow, Shape
<1>2. /\ pc' \in [Client -> Label] /\ req' \in [Client -> Request]
      /\ \A d \in Client : Shape(pc[d], req[d])'
  <2>1. CASE End(c)
    BY <2>1, Ended
  <2>2. CASE Keep(c, "next", [req[c] EXCEPT !.url = None, !.lead = FALSE])
    <3>1. [req[c] EXCEPT !.url = None, !.lead = FALSE] \in Request
      BY <1>1, Held1
    <3>2. Shape("next", [req[c] EXCEPT !.url = None, !.lead = FALSE]) /\ "next" \in Label
      BY <1>1 DEF Shape, Label, Request
    <3> QED BY <2>2, <3>1, <3>2, Moved DEF Keep
  <2> QED BY <2>1, <2>2 DEF DeleteRow
<1>3. url' \in [Image -> Url \cup {None}] /\ primary' \subseteq Rows'
  BY Held DEF DeleteRow, Rows
<1> QED BY <1>2, <1>3, Held, Wrote DEF DeleteRow, history

LEMMA PromoteNextTyped ==
  ASSUME TypeInv, NEW c \in Client, PromoteNext(c) PROVE TypeInv'
<1>1. UNCHANGED <<placeVars, album, files, history>>
  BY DEF PromoteNext
<1> SUFFICES /\ pc' \in [Client -> Label] /\ req' \in [Client -> Request]
             /\ \A d \in Client : Shape(pc[d], req[d])'
  BY <1>1, MovedOn, Held DEF history, placeVars
<1>2. req[c] \in Request /\ req[c].op = "delete"
  BY Held DEF PromoteNext, Shape
<1>3. CASE \E i \in Rows : Keep(c, "mark", [req[c] EXCEPT !.image = i, !.url = url[i]])
  <2>1. PICK i \in Rows : Keep(c, "mark", [req[c] EXCEPT !.image = i, !.url = url[i]])
    BY <1>3
  <2>2. i \in Image /\ url[i] \in Url
    BY Held DEF Rows
  <2> DEFINE r == [req[c] EXCEPT !.image = i, !.url = url[i]]
  <2>3. r \in Request
    BY <1>2, <2>2, Held1
  <2>4. Shape("mark", r) /\ "mark" \in Label
    BY <1>2, <2>2 DEF Shape, Label, Request
  <2> QED BY <2>1, <2>3, <2>4, Moved DEF Keep
<1>4. CASE Keep(c, "cover", [req[c] EXCEPT !.image = None])
  <2>1. [req[c] EXCEPT !.image = None] \in Request
    BY <1>2, Held1
  <2>2. Shape("cover", [req[c] EXCEPT !.image = None]) /\ "cover" \in Label
    BY <1>2 DEF Shape, Label, Request
  <2> QED BY <1>4, <2>1, <2>2, Moved DEF Keep
<1> QED BY <1>3, <1>4 DEF PromoteNext

LEMMA SaveCoverTyped ==
  ASSUME TypeInv, NEW c \in Client, SaveCover(c) PROVE TypeInv'
<1>1. req[c] \in Request /\ Shape("cover", req[c])
  BY Held DEF SaveCover
<1>2. /\ pc' \in [Client -> Label] /\ req' \in [Client -> Request]
      /\ \A d \in Client : Shape(pc[d], req[d])'
  <2>1. CASE End(c)
    BY <2>1, Ended
  <2>2. CASE req[c].op = "add" /\ To(c, "insert") /\ UNCHANGED req
    <3>1. Shape("insert", req[c]) /\ "insert" \in Label
      BY <1>1, <2>2 DEF Shape, Label
    <3> QED BY <1>1, <2>2, <3>1, Moved, Held
  <2> QED BY <2>1, <2>2 DEF SaveCover, CoverOf
<1>3. /\ place' \in {"none", "live", "removed"} /\ cover' \in Url \cup {None}
      /\ sound' \in BOOLEAN
  BY <1>1, Held DEF SaveCover, CoverOf, placeVars, Request
<1> QED BY <1>2, <1>3, Held, MovedOn DEF SaveCover

LEMMA SoftDeleteTyped ==
  ASSUME TypeInv, NEW c \in Client, SoftDelete(c) PROVE TypeInv'
  BY Ended, Held, MovedOn DEF SoftDelete, history

LEMMA FailTyped ==
  ASSUME TypeInv, NEW c \in Client, Fail(c) PROVE TypeInv'
  BY Ended, Held, MovedOn DEF Fail, placeVars

LEMMA TypeNext == ASSUME TypeInv, Next PROVE TypeInv'
<1>1. PICK c \in Client : Arrive(c) \/ Step(c) \/ Fail(c)
  BY DEF Next
<1>2. CASE Arrive(c)
  BY <1>2, ArrivalTyped
<1>3. CASE Step(c)
  BY <1>3, InsertFirstTyped, FindTyped, CountTyped, InsertTyped, LookAtCoverTyped,
     FindImageTyped, ClearTyped, MarkTyped, UnlinkTyped, DeleteRowTyped, PromoteNextTyped,
     SaveCoverTyped, SoftDeleteTyped DEF Step
<1>4. CASE Fail(c)
  BY <1>4, FailTyped
<1> QED BY <1>1, <1>2, <1>3, <1>4

LEMMA TypeInit == Init => TypeInv
<1> SUFFICES ASSUME Init PROVE TypeInv
  OBVIOUS
<1>1. NoRequest \in Request /\ Shape("idle", NoRequest) /\ "idle" \in Label
  BY DEF NoRequest, Request, Shape, Label
<1> QED BY <1>1 DEF Init, TypeInv, TypeOK

LEMMA TypeStutter == TypeInv /\ UNCHANGED vars => TypeInv'
  BY DEF TypeInv, TypeOK, vars, placeVars, album, history, Rows

LEMMA Typed == Spec => []TypeInv
<1>1. TypeInv /\ [Next]_vars => TypeInv'
  BY TypeNext, TypeStutter
<1> QED BY TypeInit, <1>1, PTL DEF Spec

\* Every hotel's history is one of a room: the methods of the hotels are made
\* of steps the rooms take.
LEMMA HotelStep == HotelNext => Next
  BY DEF HotelNext, Next, Arrive, Step, create, getImages, addImages, setPrimaryImage,
     deleteImage, update, remove, Doing

LEMMA HotelsAreAlbums == HotelSpec => Spec
<1>1. [HotelNext]_vars => [Next]_vars
  BY HotelStep
<1> QED BY <1>1, PTL DEF HotelSpec, Spec

\* Types: every value stays in its set, and only rows that exist are primary.
THEOREM AlbumTyped == (Spec => []TypeOK) /\ (HotelSpec => []TypeOK)
<1>1. TypeInv => TypeOK
  BY DEF TypeInv
<1> QED BY <1>1, Typed, HotelsAreAlbums, PTL

-----------------------------------------------------------------------------
(* What a step does to its request                                            *)

Apart(c) == \A d \in Client \ {c} : pc'[d] = pc[d] /\ req'[d] = req[d]

LEMMA Others ==
  ASSUME TypeInv, NEW c \in Client, NEW l, NEW r, Keep(c, l, r)
  PROVE  pc'[c] = l /\ req'[c] = r /\ Apart(c)
  BY DEF Keep, To, TypeInv, TypeOK, Apart

LEMMA OthersTo ==
  ASSUME TypeInv, NEW c \in Client, NEW l, To(c, l), UNCHANGED req
  PROVE  pc'[c] = l /\ req'[c] = req[c] /\ Apart(c)
  BY DEF To, TypeInv, TypeOK, Apart

LEMMA OthersEnd ==
  ASSUME TypeInv, NEW c \in Client, End(c)
  PROVE  pc'[c] = "idle" /\ req'[c] = NoRequest /\ Apart(c)
  BY Others DEF End

LEMMA FindDoes ==
  ASSUME TypeInv, NEW c \in Client, Find(c)
  PROVE  /\ pc[c] = "find" /\ Apart(c) /\ UNCHANGED <<placeVars, album, files, history>>
         /\ \/ ~Live /\ pc'[c] = "idle"
            \/ /\ Live /\ req[c].op = "remove" /\ pc'[c] = "remove" /\ req'[c] = req[c]
            \/ /\ Live /\ req[c].op \in {"add", "choose", "delete", "edit"}
               /\ pc'[c] = After(req[c].op)
               /\ req'[c].op = req[c].op /\ req'[c].todo = req[c].todo
               /\ req'[c].lead = req[c].lead /\ req'[c].image = req[c].image
               /\ req'[c].seen = Rows
               /\ req'[c].url = IF req[c].op = "edit" /\ ~req[c].lead THEN cover ELSE req[c].url
<1>1. pc[c] = "find" /\ UNCHANGED <<placeVars, album, files, history>>
  BY DEF Find
<1>2. CASE ~Live /\ End(c)
  BY <1>1, <1>2, OthersEnd
<1>3. CASE Live /\ req[c].op = "remove" /\ To(c, "remove") /\ UNCHANGED req
  BY <1>1, <1>3, OthersTo
<1>4. CASE Live /\ req[c].op # "remove" /\ Find(c)
  <2>1. PICK u : u = IF req[c].op = "edit" /\ ~req[c].lead THEN cover ELSE req[c].url
    OBVIOUS
  <2>2. PICK r : r = [req[c] EXCEPT !.seen = Rows, !.url = u]
    OBVIOUS
  <2>3. Keep(c, After(req[c].op), r)
    BY <1>4, <2>1, <2>2 DEF Find
  <2>4. /\ r.op = req[c].op /\ r.todo = req[c].todo /\ r.lead = req[c].lead
        /\ r.image = req[c].image /\ r.seen = Rows /\ r.url = u
    BY <2>2, Held DEF Request
  <2>5. pc'[c] = After(req[c].op) /\ req'[c] = r /\ Apart(c)
    BY <2>3 DEF Keep, To, TypeInv, TypeOK, Apart
  <2>6. req[c].op \in {"add", "choose", "delete", "edit"}
    BY <1>1, <1>4, Held DEF Shape
  <2> QED BY <1>1, <1>4, <2>1, <2>4, <2>5, <2>6
<1> QED BY <1>2, <1>3, <1>4 DEF Find

LEMMA CountDoes ==
  ASSUME TypeInv, NEW c \in Client, Count(c)
  PROVE  /\ pc[c] = "count" /\ req[c].op = "add" /\ Apart(c)
         /\ UNCHANGED <<placeVars, album, files, history>>
         /\ \/ ~Fits(c) /\ pc'[c] = "idle"
            \/ /\ Fits(c) /\ ~req[c].lead /\ Rows # {} /\ pc'[c] = "insert"
               /\ req'[c].op = "add" /\ ~req'[c].lead /\ req'[c].todo = req[c].todo
            \/ /\ Fits(c) /\ pc'[c] = "clear"
               /\ req'[c].op = "add" /\ req'[c].lead /\ req'[c].todo = req[c].todo
               /\ req'[c].seen = req[c].seen /\ req'[c].url \in req[c].todo
<1>1. /\ pc[c] = "count" /\ req[c].op = "add" /\ req[c] \in Request
      /\ UNCHANGED <<placeVars, album, files, history>>
  BY Held DEF Count, Shape
<1>2. PICK lead \in BOOLEAN : lead <=> req[c].lead \/ Rows = {}
  OBVIOUS
<1>3. CASE ~Fits(c) /\ End(c)
  BY <1>1, <1>3, OthersEnd
<1>4. CASE /\ Fits(c) /\ ~(req[c].lead \/ Rows = {})
           /\ Keep(c, "insert", [[req[c] EXCEPT !.lead = req[c].lead \/ Rows = {}]
                                          EXCEPT !.seen = {}])
  <2>1. PICK r : r = [[req[c] EXCEPT !.lead = req[c].lead \/ Rows = {}] EXCEPT !.seen = {}]
    OBVIOUS
  <2>2. r.op = "add" /\ ~r.lead /\ r.todo = req[c].todo
    BY <1>1, <1>4, <2>1 DEF Request
  <2>3. pc'[c] = "insert" /\ req'[c] = r /\ Apart(c)
    BY <1>4, <2>1 DEF Keep, To, TypeInv, TypeOK, Apart
  <2> QED BY <1>1, <1>4, <2>2, <2>3
<1>5. CASE /\ Fits(c) /\ (req[c].lead \/ Rows = {})
           /\ \E u \in req[c].todo :
                Keep(c, "clear", [[req[c] EXCEPT !.lead = req[c].lead \/ Rows = {}]
                                         EXCEPT !.url = u])
  <2>1. PICK u \in req[c].todo :
          Keep(c, "clear", [[req[c] EXCEPT !.lead = req[c].lead \/ Rows = {}] EXCEPT !.url = u])
    BY <1>5
  <2>2. PICK r : r = [[req[c] EXCEPT !.lead = req[c].lead \/ Rows = {}] EXCEPT !.url = u]
    OBVIOUS
  <2>3. r.op = "add" /\ r.lead /\ r.todo = req[c].todo /\ r.seen = req[c].seen /\ r.url = u
    BY <1>1, <1>5, <2>2 DEF Request
  <2>4. pc'[c] = "clear" /\ req'[c] = r /\ Apart(c)
    BY <2>1, <2>2 DEF Keep, To, TypeInv, TypeOK, Apart
  <2> QED BY <1>1, <1>5, <2>1, <2>3, <2>4
<1> QED BY <1>3, <1>4, <1>5 DEF Count

LEMMA InsertDoes ==
  ASSUME TypeInv, NEW c \in Client, Insert(c)
  PROVE  /\ pc[c] = "insert" /\ req[c].op = "add" /\ Apart(c)
         /\ UNCHANGED <<placeVars, files, alone, crowded, clean>>
         /\ sound' = (sound \/ (req[c].lead /\ alone[c]))
         /\ \E i \in FreshImage, u \in req[c].todo :
              /\ url' = [url EXCEPT ![i] = u]
              /\ primary' = IF req[c].lead THEN primary \cup {i} ELSE primary
              /\ req[c].lead => u = req[c].url
              /\ \/ req[c].todo = {u} /\ pc'[c] = "idle"
                 \/ /\ req[c].todo # {u} /\ pc'[c] = "insert" /\ req'[c].op = "add"
                    /\ req'[c].todo = req[c].todo \ {u} /\ ~req'[c].lead
<1>1. /\ pc[c] = "insert" /\ req[c].op = "add" /\ req[c] \in Request
      /\ req[c].lead => req[c].url \in req[c].todo
  BY Held DEF Insert, Shape
<1>2. PICK i \in FreshImage, u \in IF req[c].lead THEN {req[c].url} ELSE req[c].todo :
        /\ url' = [url EXCEPT ![i] = u]
        /\ primary' = IF req[c].lead THEN primary \cup {i} ELSE primary
        /\ IF req[c].todo = {u} THEN End(c)
           ELSE Keep(c, "insert", [req[c] EXCEPT !.todo = @ \ {u}, !.lead = FALSE,
                                                 !.url = None, !.seen = {}])
  BY DEF Insert
<1>3. u \in req[c].todo /\ (req[c].lead => u = req[c].url)
  BY <1>1, <1>2
<1>4. CASE req[c].todo = {u}
  BY <1>1, <1>2, <1>3, <1>4, OthersEnd DEF Insert
<1>5. CASE req[c].todo # {u}
  <2>1. PICK r : r = [req[c] EXCEPT !.todo = @ \ {u}, !.lead = FALSE, !.url = None, !.seen = {}]
    OBVIOUS
  <2>2. r.op = "add" /\ r.todo = req[c].todo \ {u} /\ ~r.lead
    BY <1>1, <2>1 DEF Request
  <2>3. pc'[c] = "insert" /\ req'[c] = r /\ Apart(c)
    BY <1>2, <1>5, <2>1 DEF Keep, To, TypeInv, TypeOK, Apart
  <2> QED BY <1>1, <1>2, <1>3, <1>5, <2>2, <2>3 DEF Insert
<1> QED BY <1>4, <1>5

LEMMA LookAtCoverDoes ==
  ASSUME TypeInv, NEW c \in Client, LookAtCover(c)
  PROVE  /\ pc[c] = "look" /\ req[c].op = "read" /\ Apart(c)
         /\ UNCHANGED <<placeVars, album, files, history>>
         /\ \/ ~(Live /\ cover # None) /\ pc'[c] = "idle"
            \/ Live /\ pc'[c] = "first" /\ req'[c].op = "read" /\ req'[c].url = cover
<1>1. /\ pc[c] = "look" /\ req[c].op = "read" /\ req[c] \in Request
      /\ UNCHANGED <<placeVars, album, files, history>>
  BY Held DEF LookAtCover, Shape
<1>2. CASE ~(Live /\ cover # None)
  BY <1>1, <1>2, OthersEnd DEF LookAtCover
<1>3. CASE Live /\ cover # None
  <2>1. PICK r : r = [req[c] EXCEPT !.url = cover]
    OBVIOUS
  <2>2. r.op = "read" /\ r.url = cover
    BY <1>1, <2>1 DEF Request
  <2>3. pc'[c] = "first" /\ req'[c] = r /\ Apart(c)
    BY <1>3, <2>1 DEF LookAtCover, Keep, To, TypeInv, TypeOK, Apart
  <2> QED BY <1>1, <1>3, <2>2, <2>3
<1> QED BY <1>2, <1>3

LEMMA FindImageDoes ==
  ASSUME TypeInv, NEW c \in Client, FindImage(c)
  PROVE  /\ pc[c] = "findImage" /\ req[c].op \in {"choose", "delete"} /\ Apart(c)
         /\ UNCHANGED <<placeVars, album, files, history>>
         /\ \/ pc'[c] = "idle"
            \/ /\ req[c].image \in Rows /\ req'[c].op = req[c].op
               /\ req'[c].image = req[c].image /\ req'[c].url = url[req[c].image]
               /\ req'[c].seen = req[c].seen
               /\ \/ req[c].op = "choose" /\ pc'[c] = "clear"
                  \/ /\ req[c].op = "delete" /\ pc'[c] = "unlink"
                     /\ req'[c].lead <=> req[c].image \in primary
<1>1. /\ pc[c] = "findImage" /\ req[c].op \in {"choose", "delete"} /\ req[c] \in Request
      /\ UNCHANGED <<placeVars, album, files, history>>
  BY Held DEF FindImage, Shape
<1>2. CASE End(c)
  BY <1>1, <1>2, OthersEnd
<1>3. CASE /\ req[c].image \in Rows /\ req[c].op = "choose"
           /\ Keep(c, "clear", [req[c] EXCEPT !.url = url[req[c].image]])
  <2>1. PICK r : r = [req[c] EXCEPT !.url = url[req[c].image]]
    OBVIOUS
  <2>2. /\ r.op = req[c].op /\ r.image = req[c].image /\ r.url = url[req[c].image]
        /\ r.seen = req[c].seen
    BY <1>1, <2>1 DEF Request
  <2>3. pc'[c] = "clear" /\ req'[c] = r /\ Apart(c)
    BY <1>3, <2>1 DEF Keep, To, TypeInv, TypeOK, Apart
  <2> QED BY <1>1, <1>3, <2>2, <2>3
<1>4. CASE /\ req[c].image \in Rows /\ req[c].op = "delete"
           /\ Keep(c, "unlink", [req[c] EXCEPT !.url = url[req[c].image],
                                               !.lead = req[c].image \in primary])
  <2>1. PICK r : r = [req[c] EXCEPT !.url = url[req[c].image], !.lead = req[c].image \in primary]
    OBVIOUS
  <2>2. /\ r.op = req[c].op /\ r.image = req[c].image /\ r.url = url[req[c].image]
        /\ r.seen = req[c].seen /\ (r.lead <=> req[c].image \in primary)
    BY <1>1, <2>1 DEF Request
  <2>3. pc'[c] = "unlink" /\ req'[c] = r /\ Apart(c)
    BY <1>4, <2>1 DEF Keep, To, TypeInv, TypeOK, Apart
  <2> QED BY <1>1, <1>4, <2>2, <2>3
<1> QED BY <1>1, <1>2, <1>3, <1>4 DEF FindImage

LEMMA DeleteRowDoes ==
  ASSUME TypeInv, NEW c \in Client, DeleteRow(c)
  PROVE  /\ pc[c] = "delete" /\ req[c].op = "delete" /\ req[c].image \in Image /\ Apart(c)
         /\ UNCHANGED <<placeVars, files, history>>
         /\ url' = [url EXCEPT ![req[c].image] = None]
         /\ primary' = primary \ {req[c].image}
         /\ \/ ~req[c].lead /\ pc'[c] = "idle"
            \/ /\ req[c].lead /\ pc'[c] = "next" /\ req'[c].op = "delete"
               /\ req'[c].url = None /\ req'[c].seen = req[c].seen
<1>1. /\ pc[c] = "delete" /\ req[c].op = "delete" /\ req[c] \in Request /\ req[c].image \in Image
  BY Held DEF DeleteRow, Shape
<1>2. /\ UNCHANGED <<placeVars, files, history>>
      /\ url' = [url EXCEPT ![req[c].image] = None] /\ primary' = primary \ {req[c].image}
  BY DEF DeleteRow
<1>3. CASE ~req[c].lead
  BY <1>1, <1>2, <1>3, OthersEnd DEF DeleteRow
<1>4. CASE req[c].lead
  <2>1. PICK r : r = [req[c] EXCEPT !.url = None, !.lead = FALSE]
    OBVIOUS
  <2>2. r.op = "delete" /\ r.url = None /\ r.seen = req[c].seen
    BY <1>1, <2>1 DEF Request
  <2>3. pc'[c] = "next" /\ req'[c] = r /\ Apart(c)
    BY <1>4, <2>1 DEF DeleteRow, Keep, To, TypeInv, TypeOK, Apart
  <2> QED BY <1>1, <1>2, <1>4, <2>2, <2>3
<1> QED BY <1>3, <1>4

LEMMA PromoteNextDoes ==
  ASSUME TypeInv, NEW c \in Client, PromoteNext(c)
  PROVE  /\ pc[c] = "next" /\ req[c].op = "delete" /\ Apart(c)
         /\ UNCHANGED <<placeVars, album, files, history>>
         /\ req'[c].op = "delete" /\ req'[c].seen = req[c].seen
         /\ \/ \E i \in Rows : pc'[c] = "mark" /\ req'[c].image = i /\ req'[c].url = url[i]
            \/ Rows = {} /\ pc'[c] = "cover" /\ req'[c].url = req[c].url
<1>1. /\ pc[c] = "next" /\ req[c].op = "delete" /\ req[c] \in Request
      /\ UNCHANGED <<placeVars, album, files, history>>
  BY Held DEF PromoteNext, Shape
<1>2. CASE \E i \in Rows : Keep(c, "mark", [req[c] EXCEPT !.image = i, !.url = url[i]])
  <2>1. PICK i \in Rows : Keep(c, "mark", [req[c] EXCEPT !.image = i, !.url = url[i]])
    BY <1>2
  <2>2. PICK r : r = [req[c] EXCEPT !.image = i, !.url = url[i]]
    OBVIOUS
  <2>3. r.op = "delete" /\ r.image = i /\ r.url = url[i] /\ r.seen = req[c].seen
    BY <1>1, <2>2 DEF Request
  <2>4. pc'[c] = "mark" /\ req'[c] = r /\ Apart(c)
    BY <2>1, <2>2 DEF Keep, To, TypeInv, TypeOK, Apart
  <2> QED BY <1>1, <2>3, <2>4
<1>3. CASE Rows = {} /\ Keep(c, "cover", [req[c] EXCEPT !.image = None])
  <2>1. PICK r : r = [req[c] EXCEPT !.image = None]
    OBVIOUS
  <2>2. r.op = "delete" /\ r.url = req[c].url /\ r.seen = req[c].seen
    BY <1>1, <2>1 DEF Request
  <2>3. pc'[c] = "cover" /\ req'[c] = r /\ Apart(c)
    BY <1>3, <2>1 DEF Keep, To, TypeInv, TypeOK, Apart
  <2> QED BY <1>1, <1>3, <2>2, <2>3
<1> QED BY <1>2, <1>3 DEF PromoteNext

-----------------------------------------------------------------------------
(* The limit                                                                  *)

LEMMA RowsFinite == IsFiniteSet(Rows) /\ Cardinality(Rows) \in Nat
<1>1. Rows \subseteq Image
  BY DEF Rows
<1> QED BY <1>1, AlbumConstants, FS_Subset, FS_CardinalityType

\* What the step of one request must show.
LEMMA LimitStep ==
  ASSUME TypeInv, LimitInv, NEW c \in Client, pc[c] # "idle",
         place' # "none", crowded' = crowded,
         Apart(c),
         pc'[c] = "idle" \/ req'[c].op = req[c].op,
         ~OnAlbum(req[c].op) => Rows' = Rows,
         ~crowded /\ Busy(c) =>
           /\ Cardinality(Rows') <= MaxImages
           /\ pc'[c] # "idle" => Room(pc[c], req[c])'
  PROVE  LimitInv'
<1> SUFFICES ASSUME ~crowded
             PROVE  /\ Cardinality(Rows') <= MaxImages
                    /\ \A a, b \in Client : Busy(a)' /\ Busy(b)' => a = b
                    /\ \A a \in Client : Busy(a)' => Room(pc[a], req[a])'
  BY DEF LimitInv
<1>1. \A d \in Client : Busy(d)' => Busy(d)
  BY DEF Busy, Apart
<1>2. CASE Busy(c)
  <2>1. \A d \in Client : Busy(d)' => d = c
    BY <1>1, <1>2 DEF LimitInv
  <2> QED BY <1>2, <2>1 DEF Busy, Apart
<1>3. CASE ~Busy(c)
  <2>1. Rows' = Rows /\ ~Busy(c)'
    BY <1>1, <1>3 DEF Busy, Apart
  <2>2. \A d \in Client : Busy(d)' => d # c /\ pc'[d] = pc[d] /\ req'[d] = req[d]
    BY <2>1 DEF Apart
  <2>3. \A d \in Client : Busy(d)' => Room(pc[d], req[d])'
    BY <1>1, <2>1, <2>2 DEF LimitInv, Room
  <2> QED BY <1>1, <2>1, <2>3 DEF LimitInv
<1> QED BY <1>2, <1>3

\* A row more.
LEMMA OneMore ==
  ASSUME TypeInv, NEW i \in FreshImage, NEW u \in Url, url' = [url EXCEPT ![i] = u]
  PROVE  /\ Rows' = Rows \cup {i} /\ i \notin Rows /\ i \in Image
         /\ Cardinality(Rows') = Cardinality(Rows) + 1
         /\ url' \in [Image -> Url \cup {None}] /\ url'[i] = u
         /\ \A j \in Image \ {i} : url'[j] = url[j]
<1>1. i \in Image \ Rows
  BY DEF FreshImage
<1>2. Rows' = Rows \cup {i}
  BY <1>1, Held, AlbumConstants DEF Rows, TypeInv, TypeOK
<1>3. Cardinality(Rows \cup {i}) = Cardinality(Rows) + 1
  BY <1>1, RowsFinite, FS_AddElement
<1> QED BY <1>1, <1>2, <1>3 DEF TypeInv, TypeOK

\* The steps that add no row.
LEMMA NoMore ==
  ASSUME TypeInv, LimitInv, NEW c \in Client, pc[c] # "idle", Rows' \subseteq Rows,
         ~OnAlbum(req[c].op) => Rows' = Rows,
         place' \in {place, "live", "removed"}, crowded' = crowded,
         Apart(c),
         pc'[c] = "idle" \/ req'[c].op = req[c].op,
         ~crowded /\ Busy(c) /\ pc'[c] # "idle" => Room(pc[c], req[c])'
  PROVE  LimitInv'
<1>1. Cardinality(Rows') <= Cardinality(Rows) /\ Cardinality(Rows') \in Nat
  BY RowsFinite, FS_Subset, FS_CardinalityType
<1>2. ~crowded => Cardinality(Rows') <= MaxImages
  BY <1>1, RowsFinite, AlbumConstants DEF LimitInv
<1>3. place' # "none"
  BY DEF LimitInv, Quiet
<1> QED BY <1>2, <1>3, LimitStep

LEMMA InsertFirstLimit ==
  ASSUME TypeInv, LimitInv, NEW c \in Client, InsertFirst(c) PROVE LimitInv'
<1>1. req[c].op \in {"create", "read"} /\ req[c].url \in Url
  BY Held DEF InsertFirst, Shape
<1>2. /\ pc'[c] = "idle" /\ pc[c] = "first"
      /\ Apart(c)
  BY OthersEnd DEF InsertFirst
<1>3. Cardinality(Rows') = Cardinality(Rows) + 1
  BY <1>1, OneMore DEF InsertFirst
<1>4. Busy(c)
  BY <1>1, <1>2 DEF Busy, OnAlbum
<1>5. ~crowded => Cardinality(Rows') <= MaxImages
  <2>1. ~crowded => Rows = {}
    BY <1>2, <1>4 DEF LimitInv, Room
  <2> QED BY <1>3, <2>1, FS_EmptySet, AlbumConstants
<1>6. place' # "none" /\ crowded' = crowded
  BY <1>2 DEF InsertFirst, LimitInv, Quiet, placeVars, history
<1> QED BY <1>1, <1>2, <1>4, <1>5, <1>6, LimitStep DEF Busy

LEMMA FindLimit ==
  ASSUME TypeInv, LimitInv, NEW c \in Client, Find(c) PROVE LimitInv'
<1>1. place' = place /\ crowded' = crowded /\ Rows' = Rows
  BY FindDoes DEF placeVars, album, history, Rows
<1>2. Busy(c) /\ pc'[c] # "idle" => Room(pc[c], req[c])'
  BY FindDoes DEF Busy, OnAlbum, After, Room
<1> QED BY <1>1, <1>2, FindDoes, NoMore

LEMMA CountLimit ==
  ASSUME TypeInv, LimitInv, NEW c \in Client, Count(c) PROVE LimitInv'
<1>1. place' = place /\ crowded' = crowded /\ Rows' = Rows
  BY CountDoes DEF placeVars, album, history, Rows
<1>2. pc'[c] # "idle" => Room(pc[c], req[c])'
  BY <1>1, CountDoes DEF Room, Fits
<1> QED BY <1>1, <1>2, CountDoes, NoMore

LEMMA InsertLimit ==
  ASSUME TypeInv, LimitInv, NEW c \in Client, Insert(c) PROVE LimitInv'
<1>1. req[c] \in Request /\ IsFiniteSet(req[c].todo) /\ pc[c] = "insert" /\ req[c].op = "add"
  BY Held, InsertDoes DEF Shape
<1>2. PICK i \in FreshImage, u \in req[c].todo :
        /\ url' = [url EXCEPT ![i] = u]
        /\ \/ pc'[c] = "idle"
           \/ pc'[c] = "insert" /\ req'[c].op = "add" /\ req'[c].todo = req[c].todo \ {u}
  BY InsertDoes
<1>3. u \in Url
  BY <1>1 DEF Request
<1>4. Cardinality(Rows') = Cardinality(Rows) + 1
  BY <1>2, <1>3, OneMore
<1>5. /\ Cardinality(req[c].todo \ {u}) = Cardinality(req[c].todo) - 1
      /\ Cardinality(req[c].todo \ {u}) \in Nat /\ Cardinality(req[c].todo) \in Nat
  BY <1>1, FS_RemoveElement, FS_CardinalityType
<1>6. Busy(c) /\ place' # "none" /\ crowded' = crowded
  BY <1>1, InsertDoes DEF Busy, OnAlbum, LimitInv, Quiet, placeVars
<1>7. ~crowded => Cardinality(Rows) + Cardinality(req[c].todo) <= MaxImages
  BY <1>1, <1>6 DEF LimitInv, Room
<1>8. ~crowded => /\ Cardinality(Rows') <= MaxImages
                  /\ Cardinality(Rows') + Cardinality(req[c].todo \ {u}) <= MaxImages
  BY <1>4, <1>5, <1>7, RowsFinite, AlbumConstants
<1>9. ~crowded /\ pc'[c] # "idle" => Room(pc[c], req[c])'
  BY <1>2, <1>8 DEF Room
<1> QED BY <1>1, <1>2, <1>6, <1>8, <1>9, InsertDoes, LimitStep DEF Busy

LEMMA LookAtCoverLimit ==
  ASSUME TypeInv, LimitInv, NEW c \in Client, LookAtCover(c) PROVE LimitInv'
<1>1. place' = place /\ crowded' = crowded /\ Rows' = Rows
  BY LookAtCoverDoes DEF placeVars, album, history, Rows
<1>2. ~crowded /\ Busy(c) /\ pc'[c] # "idle" => Room(pc[c], req[c])'
  BY <1>1, LookAtCoverDoes DEF Room, LimitInv
<1> QED BY <1>1, <1>2, LookAtCoverDoes, NoMore

LEMMA FindImageLimit ==
  ASSUME TypeInv, LimitInv, NEW c \in Client, FindImage(c) PROVE LimitInv'
<1>1. place' = place /\ crowded' = crowded /\ Rows' = Rows
  BY FindImageDoes DEF placeVars, album, history, Rows
<1>2. pc'[c] # "idle" => Room(pc[c], req[c])'
  BY <1>1, FindImageDoes DEF Room
<1> QED BY <1>1, <1>2, FindImageDoes, NoMore

LEMMA ClearLimit ==
  ASSUME TypeInv, LimitInv, NEW c \in Client, Clear(c) PROVE LimitInv'
<1>1. pc[c] = "clear" /\ req[c] \in Request /\ req[c].op \in {"add", "choose"}
  BY Held DEF Clear, Shape
<1>2. /\ Apart(c)
      /\ req'[c] = req[c]
      /\ pc'[c] = IF req[c].op = "choose" THEN "mark" ELSE "cover"
  BY OthersTo DEF Clear
<1>3. place' = place /\ crowded' = crowded /\ Rows' = Rows
  BY DEF Clear, placeVars, history, Rows
<1>4. ~crowded /\ Busy(c) => Room(pc[c], req[c])'
  BY <1>1, <1>2, <1>3 DEF Room, LimitInv
<1> QED BY <1>1, <1>2, <1>3, <1>4, NoMore

LEMMA MarkLimit ==
  ASSUME TypeInv, LimitInv, NEW c \in Client, Mark(c) PROVE LimitInv'
<1>1. /\ pc[c] = "mark" /\ req[c] \in Request /\ req[c].op \in {"choose", "delete"}
      /\ req[c].image \in Image /\ req[c].url \in Url
  BY Held DEF Mark, Shape
<1>2. /\ Apart(c)
      /\ req'[c] = req[c] /\ pc'[c] = "cover"
  BY OthersTo DEF Mark
<1>3. place' # "none" /\ crowded' = crowded
  BY <1>1 DEF Mark, placeVars, history, LimitInv, Quiet
<1>4. Busy(c)
  BY <1>1 DEF Busy, OnAlbum
<1>5. ~crowded => Rows' = Rows
  <2>1. ~crowded => req[c].image \in Rows
    BY <1>1, <1>4 DEF LimitInv, Room
  <2> QED BY <1>1, <2>1, AlbumConstants DEF Mark, Rows, TypeInv, TypeOK
<1>6. Room(pc[c], req[c])'
  BY <1>1, <1>2 DEF Room
<1>7. ~crowded => Cardinality(Rows') <= MaxImages
  BY <1>5 DEF LimitInv
<1> QED BY <1>1, <1>2, <1>3, <1>4, <1>6, <1>7, LimitStep DEF Busy

LEMMA UnlinkLimit ==
  ASSUME TypeInv, LimitInv, NEW c \in Client, Unlink(c) PROVE LimitInv'
<1>1. /\ pc[c] = "unlink" /\ Apart(c)
      /\ req'[c] = req[c] /\ pc'[c] = "delete"
  BY OthersTo DEF Unlink
<1>2. place' = place /\ crowded' = crowded /\ Rows' = Rows
  BY DEF Unlink, placeVars, album, history, Rows
<1> QED BY <1>1, <1>2, NoMore DEF Room

LEMMA DeleteRowLimit ==
  ASSUME TypeInv, LimitInv, NEW c \in Client, DeleteRow(c) PROVE LimitInv'
<1>1. place' = place /\ crowded' = crowded /\ Rows' \subseteq Rows
  BY DeleteRowDoes DEF placeVars, history, Rows, TypeInv, TypeOK
<1>2. pc'[c] # "idle" => Room(pc[c], req[c])'
  BY DeleteRowDoes DEF Room
<1> QED BY <1>1, <1>2, DeleteRowDoes, NoMore DEF OnAlbum

LEMMA PromoteNextLimit ==
  ASSUME TypeInv, LimitInv, NEW c \in Client, PromoteNext(c) PROVE LimitInv'
<1>1. place' = place /\ crowded' = crowded /\ Rows' = Rows
  BY PromoteNextDoes DEF placeVars, album, history, Rows
<1>2. Room(pc[c], req[c])'
  BY <1>1, PromoteNextDoes DEF Room
<1> QED BY <1>1, <1>2, PromoteNextDoes, NoMore

LEMMA SaveCoverLimit ==
  ASSUME TypeInv, LimitInv, NEW c \in Client, SaveCover(c) PROVE LimitInv'
<1>1. pc[c] = "cover"
  BY DEF SaveCover
<1>2. /\ Apart(c)
      /\ \/ pc'[c] = "idle"
         \/ req'[c] = req[c] /\ req[c].op = "add" /\ pc'[c] = "insert"
  BY OthersEnd, OthersTo DEF SaveCover
<1>3. place' \in {place, "live"} /\ crowded' = crowded /\ Rows' = Rows
  BY DEF SaveCover, placeVars, album, Rows
<1>4. ~crowded /\ Busy(c) /\ pc'[c] # "idle" => Room(pc[c], req[c])'
  BY <1>1, <1>2, <1>3 DEF Room, LimitInv
<1> QED BY <1>1, <1>2, <1>3, <1>4, NoMore

LEMMA EndedLimit ==
  ASSUME TypeInv, LimitInv, NEW c \in Client, SoftDelete(c) \/ Fail(c) PROVE LimitInv'
<1>1. /\ pc[c] # "idle" /\ pc'[c] = "idle"
      /\ Apart(c)
  BY OthersEnd DEF SoftDelete, Fail
<1>2. place' \in {place, "removed"} /\ crowded' = crowded /\ Rows' = Rows
  BY DEF SoftDelete, Fail, placeVars, album, history, Rows
<1> QED BY <1>1, <1>2, NoMore

LEMMA ArrivalLimit ==
  ASSUME TypeInv, LimitInv, NEW c \in Client, Arrive(c) PROVE LimitInv'
<1>1. PICK l \in {"idle", "first", "find", "look"}, r \in Request, given \in Url \cup {None} :
        Opens(c, l, r, given)
  BY Arrival
<1>2. Rows' = Rows
  BY Arrival DEF album, Rows
<1>3. /\ pc'[c] = l /\ req'[c] = r /\ pc[c] = "idle"
      /\ Apart(c)
  BY <1>1, Others DEF Opens, Begin
<1>4. place' # "none"
  BY <1>1 DEF Opens, placeVars, LimitInv
<1> SUFFICES ASSUME ~crowded'
             PROVE  /\ Cardinality(Rows) <= MaxImages
                    /\ \A a, b \in Client : Busy(a)' /\ Busy(b)' => a = b
                    /\ \A a \in Client : Busy(a)' => Room(pc[a], req[a])'
  BY <1>2, <1>4 DEF LimitInv
<1>5. /\ ~crowded
      /\ OnAlbum(r.op) => \A d \in Client : pc[d] # "idle" => ~OnAlbum(req[d].op)
  BY <1>1 DEF Opens, Begin
<1>6. Busy(c)' => \A d \in Client : ~Busy(d)
  BY <1>3, <1>5 DEF Busy
<1>7. \A d \in Client \ {c} : Busy(d)' <=> Busy(d)
  BY <1>3 DEF Busy, Apart
<1>8. \A d \in Client \ {c} : Busy(d)' => Room(pc[d], req[d])'
  BY <1>2, <1>3, <1>5, <1>7 DEF LimitInv, Room, Apart
<1>9. Busy(c)' => Room(pc[c], req[c])'
  <2>1. l \in {"first", "look"} => Rows = {}
    BY <1>1 DEF Opens, LimitInv
  <2> QED BY <1>2, <1>3, <2>1 DEF Room
<1>10. \A a, b \in Client : Busy(a)' /\ Busy(b)' => a = b
  BY <1>5, <1>6, <1>7 DEF LimitInv
<1> QED BY <1>5, <1>8, <1>9, <1>10 DEF LimitInv

LEMMA LimitNext == ASSUME TypeInv, LimitInv, Next PROVE LimitInv'
<1>1. PICK c \in Client : Arrive(c) \/ Step(c) \/ Fail(c)
  BY DEF Next
<1>2. CASE Arrive(c)
  BY <1>2, ArrivalLimit
<1>3. CASE Step(c)
  BY <1>3, InsertFirstLimit, FindLimit, CountLimit, InsertLimit, LookAtCoverLimit,
     FindImageLimit, ClearLimit, MarkLimit, UnlinkLimit, DeleteRowLimit, PromoteNextLimit,
     SaveCoverLimit, EndedLimit DEF Step
<1>4. CASE Fail(c)
  BY <1>4, EndedLimit
<1> QED BY <1>1, <1>2, <1>3, <1>4

LEMMA Limited == Spec => []LimitInv
<1>1. Init => LimitInv
  BY FS_EmptySet, AlbumConstants DEF Init, LimitInv, Rows, Quiet, Busy
<1>2. LimitInv /\ UNCHANGED vars => LimitInv'
  BY DEF LimitInv, vars, placeVars, album, history, Rows, Quiet, Busy, Room
<1>3. TypeInv /\ LimitInv /\ [Next]_vars => LimitInv'
  BY LimitNext, <1>2
<1> QED BY <1>1, <1>3, Typed, PTL DEF Spec

\* Two requests that both change the album must overlap for it to hold more
\* than MaxImages images.
THEOREM AlbumsFit == (Spec => []WithinLimit) /\ (HotelSpec => []WithinLimit)
<1>1. LimitInv => WithinLimit
  BY DEF LimitInv, WithinLimit
<1> QED BY <1>1, Limited, HotelsAreAlbums, PTL

-----------------------------------------------------------------------------
(* Requests that have the album and the place to themselves                   *)

\* What the step of one request must show.
LEMMA AloneStep ==
  ASSUME TypeInv, AloneInv, NEW c \in Client, pc[c] # "idle", Apart(c), alone' = alone,
         sound' => sound \/ alone[c], clean' => clean,
         alone[c] /\ pc'[c] # "idle" => Solo(pc[c], req[c])'
  PROVE  AloneInv'
<1>1. CASE alone[c]
  <2>1. \A d \in Client \ {c} : pc'[d] = "idle"
    BY <1>1 DEF AloneInv, Alone, Apart
  <2> QED BY <1>1, <2>1 DEF AloneInv, Alone
<1>2. CASE ~alone[c]
  <2>1. ~sound /\ ~clean
    BY <1>2 DEF AloneInv
  <2>2. \A d \in Client : ~Alone(d)
    BY <1>2 DEF AloneInv, Alone
  <2>3. \A d \in Client : ~Alone(d)'
    BY <1>2, <2>2 DEF Alone, Apart
  <2> QED BY <1>2, <2>1, <2>3 DEF AloneInv
<1> QED BY <1>1, <1>2

LEMMA AloneSolo ==
  ASSUME AloneInv, NEW c \in Client, alone[c], pc[c] # "idle" PROVE Solo(pc[c], req[c])
  BY DEF AloneInv, Alone

LEMMA FindAlone ==
  ASSUME TypeInv, AloneInv, NEW c \in Client, Find(c) PROVE AloneInv'
<1>1. place' = place /\ cover' = cover /\ Rows' = Rows /\ UNCHANGED history
  BY FindDoes DEF placeVars, album, Rows
<1>2. pc'[c] # "idle" => Solo(pc[c], req[c])'
  BY <1>1, FindDoes DEF Solo, After, Live
<1> QED BY <1>1, <1>2, FindDoes, AloneStep DEF history

LEMMA CountAlone ==
  ASSUME TypeInv, AloneInv, NEW c \in Client, Count(c) PROVE AloneInv'
<1>1. place' = place /\ Rows' = Rows /\ UNCHANGED history
  BY CountDoes DEF placeVars, album, Rows
<1>2. alone[c] /\ pc'[c] # "idle" => Solo(pc[c], req[c])'
  BY <1>1, CountDoes, AloneSolo DEF Solo
<1> QED BY <1>1, <1>2, CountDoes, AloneStep DEF history

LEMMA InsertAlone ==
  ASSUME TypeInv, AloneInv, NEW c \in Client, Insert(c) PROVE AloneInv'
<1>1. place' = place
  BY InsertDoes DEF placeVars
<1>2. alone[c] /\ pc'[c] # "idle" => Solo(pc[c], req[c])'
  BY <1>1, InsertDoes, AloneSolo DEF Solo
<1>3. sound' => sound \/ alone[c]
  BY InsertDoes
<1>4. pc[c] # "idle" /\ Apart(c) /\ alone' = alone /\ clean' = clean
  BY InsertDoes
<1> QED BY <1>2, <1>3, <1>4, AloneStep

LEMMA LookAtCoverAlone ==
  ASSUME TypeInv, AloneInv, NEW c \in Client, LookAtCover(c) PROVE AloneInv'
<1>1. Rows' = Rows /\ UNCHANGED history
  BY LookAtCoverDoes DEF album, Rows
<1>2. alone[c] /\ pc'[c] # "idle" => Solo(pc[c], req[c])'
  BY <1>1, LookAtCoverDoes, AloneSolo DEF Solo
<1> QED BY <1>1, <1>2, LookAtCoverDoes, AloneStep DEF history

LEMMA FindImageAlone ==
  ASSUME TypeInv, AloneInv, NEW c \in Client, FindImage(c) PROVE AloneInv'
<1>1. place' = place /\ url' = url /\ primary' = primary /\ Rows' = Rows /\ UNCHANGED history
  BY FindImageDoes DEF placeVars, album, Rows
<1>2. alone[c] /\ pc'[c] # "idle" => Solo(pc[c], req[c])'
  BY <1>1, FindImageDoes, AloneSolo DEF Solo
<1> QED BY <1>1, <1>2, FindImageDoes, AloneStep DEF history

\* The steps that change only where the request is.
LEMMA ClearDoes ==
  ASSUME TypeInv, NEW c \in Client, Clear(c)
  PROVE  /\ pc[c] = "clear" /\ req[c].op \in {"add", "choose"} /\ Apart(c) /\ req'[c] = req[c]
         /\ pc'[c] = IF req[c].op = "choose" THEN "mark" ELSE "cover"
         /\ primary' = {} /\ Rows' = Rows /\ UNCHANGED <<placeVars, url, files, history>>
  BY OthersTo, Held DEF Clear, Cleared, Shape, Rows

LEMMA MarkDoes ==
  ASSUME TypeInv, NEW c \in Client, Mark(c)
  PROVE  /\ pc[c] = "mark" /\ req[c].op \in {"choose", "delete"} /\ Apart(c) /\ req'[c] = req[c]
         /\ req[c].image \in Image /\ req[c].url \in Url
         /\ pc'[c] = "cover" /\ UNCHANGED <<placeVars, files, history>>
         /\ url' = [url EXCEPT ![req[c].image] = req[c].url]
         /\ primary' = primary \cup {req[c].image}
  BY OthersTo, Held DEF Mark, Shape

LEMMA UnlinkDoes ==
  ASSUME TypeInv, NEW c \in Client, Unlink(c)
  PROVE  /\ pc[c] = "unlink" /\ req[c].op = "delete" /\ req[c].image \in Image
         /\ Apart(c) /\ req'[c] = req[c]
         /\ pc'[c] = "delete" /\ UNCHANGED <<placeVars, album, history>>
         /\ files' = files \ {req[c].url}
  BY OthersTo, Held DEF Unlink, FileOf, Shape

LEMMA SaveCoverDoes ==
  ASSUME TypeInv, NEW c \in Client, SaveCover(c)
  PROVE  /\ pc[c] = "cover" /\ req[c].op \in {"add", "choose", "delete", "edit"} /\ Apart(c)
         /\ UNCHANGED <<album, files, alone, crowded, clean>>
         /\ \/ /\ Rows \subseteq req[c].seen /\ cover' = req[c].url /\ place' = "live"
               /\ \/ /\ req[c].op = "add" /\ pc'[c] = "insert" /\ req'[c] = req[c]
                     /\ req[c].lead /\ req[c].url \in req[c].todo
                  \/ req[c].op # "add" /\ pc'[c] = "idle"
               /\ sound' = IF req[c].op = "edit" THEN sound /\ ~req[c].lead
                           ELSE sound \/ (req[c].op = "choose" /\ alone[c])
            \/ /\ ~(Rows \subseteq req[c].seen) /\ pc'[c] = "idle" /\ ~sound'
               /\ UNCHANGED placeVars
<1>1. /\ pc[c] = "cover" /\ req[c].op \in {"add", "choose", "delete", "edit"}
      /\ req[c].op = "add" => req[c].lead /\ req[c].url \in req[c].todo
  BY Held DEF SaveCover, CoverOf, Shape
<1>2. Apart(c)
  BY OthersEnd, OthersTo DEF SaveCover
<1>3. CASE ~(Rows \subseteq req[c].seen)
  BY <1>1, <1>2, <1>3, OthersEnd DEF SaveCover, CoverOf
<1>4. CASE Rows \subseteq req[c].seen
  BY <1>1, <1>2, <1>4, OthersEnd, OthersTo DEF SaveCover, CoverOf
<1> QED BY <1>3, <1>4

LEMMA ClearAlone ==
  ASSUME TypeInv, AloneInv, NEW c \in Client, Clear(c) PROVE AloneInv'
<1>1. place' = place /\ Rows' = Rows /\ url' = url /\ UNCHANGED history
  BY ClearDoes DEF placeVars
<1>2. alone[c] /\ pc'[c] # "idle" => Solo(pc[c], req[c])'
  BY <1>1, ClearDoes, AloneSolo DEF Solo
<1> QED BY <1>1, <1>2, ClearDoes, AloneStep DEF history

\* An image that is there is saved as it is.
LEMMA Resaved ==
  ASSUME TypeInv, NEW c \in Client, Mark(c), Solo("mark", req[c])
  PROVE  url' = url /\ Rows' = Rows /\ req[c].image \in Rows /\ url[req[c].image] = req[c].url
<1>1. req[c].image \in Rows /\ url[req[c].image] = req[c].url
  BY MarkDoes DEF Solo
<1>2. url' = url
  BY <1>1, MarkDoes, Held
<1> QED BY <1>1, <1>2 DEF Rows

LEMMA MarkAlone ==
  ASSUME TypeInv, AloneInv, NEW c \in Client, Mark(c) PROVE AloneInv'
<1>1. place' = place /\ UNCHANGED history
  BY MarkDoes DEF placeVars
<1>2. ASSUME alone[c] PROVE Solo(pc[c], req[c])'
  <2>1. Solo("mark", req[c])
    BY <1>2, MarkDoes, AloneSolo
  <2> QED BY <1>1, <2>1, MarkDoes, Resaved DEF Solo
<1> QED BY <1>1, <1>2, MarkDoes, AloneStep DEF history

LEMMA UnlinkAlone ==
  ASSUME TypeInv, AloneInv, NEW c \in Client, Unlink(c) PROVE AloneInv'
<1>1. place' = place /\ url' = url /\ primary' = primary /\ Rows' = Rows /\ UNCHANGED history
  BY UnlinkDoes DEF placeVars, album, Rows
<1>2. alone[c] => Solo(pc[c], req[c])'
  BY <1>1, UnlinkDoes, AloneSolo DEF Solo
<1> QED BY <1>1, <1>2, UnlinkDoes, AloneStep DEF history

LEMMA DeleteRowAlone ==
  ASSUME TypeInv, AloneInv, NEW c \in Client, DeleteRow(c) PROVE AloneInv'
<1>1. place' = place /\ Rows' \subseteq Rows /\ UNCHANGED history
  BY DeleteRowDoes DEF placeVars, Rows, TypeInv, TypeOK
<1>2. alone[c] /\ pc'[c] # "idle" => Solo(pc[c], req[c])'
  BY <1>1, DeleteRowDoes, AloneSolo DEF Solo
<1> QED BY <1>1, <1>2, DeleteRowDoes, AloneStep DEF history

LEMMA PromoteNextAlone ==
  ASSUME TypeInv, AloneInv, NEW c \in Client, PromoteNext(c) PROVE AloneInv'
<1>1. place' = place /\ Rows' = Rows /\ url' = url /\ UNCHANGED history
  BY PromoteNextDoes DEF placeVars, album, Rows
<1>2. alone[c] => Solo(pc[c], req[c])'
  BY <1>1, PromoteNextDoes, AloneSolo DEF Solo
<1> QED BY <1>1, <1>2, PromoteNextDoes, AloneStep DEF history

LEMMA SaveCoverAlone ==
  ASSUME TypeInv, AloneInv, NEW c \in Client, SaveCover(c) PROVE AloneInv'
<1>1. Rows' = Rows /\ primary' = primary
  BY SaveCoverDoes DEF album, Rows
<1>2. alone[c] /\ pc'[c] # "idle" => Solo(pc[c], req[c])'
  BY <1>1, SaveCoverDoes, AloneSolo DEF Solo
<1>3. sound' => sound \/ alone[c]
  BY SaveCoverDoes
<1> QED BY <1>2, <1>3, SaveCoverDoes, AloneStep

LEMMA EndedAlone ==
  ASSUME TypeInv, AloneInv, NEW c \in Client, InsertFirst(c) \/ SoftDelete(c) \/ Fail(c)
  PROVE  AloneInv'
<1>1. pc[c] # "idle" /\ pc'[c] = "idle" /\ Apart(c)
  BY OthersEnd DEF InsertFirst, SoftDelete, Fail
<1>2. alone' = alone /\ (sound' => sound) /\ (clean' => clean)
  BY DEF InsertFirst, SoftDelete, Fail, history
<1> QED BY <1>1, <1>2, AloneStep

\* What a beginning request finds of the others.
LEMMA Beginning ==
  ASSUME TypeInv, NEW c \in Client, NEW l, NEW r, NEW given, Begin(c, l, r, given)
  PROVE  /\ pc[c] = "idle" /\ pc'[c] = l /\ req'[c] = r /\ Apart(c)
         /\ \/ /\ Quiet /\ alone'[c] /\ sound' = sound /\ clean' = (clean /\ given \notin File)
               /\ \A d \in Client \ {c} : pc'[d] = "idle"
            \/ ~Quiet /\ ~sound' /\ ~clean' /\ \A d \in Client : ~alone'[d]
<1>1. pc[c] = "idle" /\ pc'[c] = l /\ req'[c] = r /\ Apart(c)
  BY Others DEF Begin
<1>2. CASE Quiet
  <2>1. {d \in Client : pc[d] # "idle"} = {}
    BY <1>2 DEF Quiet
  <2>2. alone'[c] /\ (sound' = sound) /\ (clean' = (clean /\ given \notin File))
    BY <2>1, Held DEF Begin
  <2> QED BY <1>1, <1>2, <2>2 DEF Quiet, Apart
<1>3. CASE ~Quiet
  <2>1. {d \in Client : pc[d] # "idle"} # {}
    BY <1>3 DEF Quiet
  <2> QED BY <1>1, <1>3, <2>1 DEF Begin
<1> QED BY <1>2, <1>3

LEMMA ArrivalAlone ==
  ASSUME TypeInv, LimitInv, AloneInv, NEW c \in Client, Arrive(c) PROVE AloneInv'
<1>1. PICK l \in {"idle", "first", "find", "look"}, r \in Request, given \in Url \cup {None} :
        Opens(c, l, r, given)
  BY Arrival
<1>2. Begin(c, l, r, given)
  BY <1>1 DEF Opens
<1>3. CASE ~sound' /\ ~clean' /\ \A d \in Client : ~alone'[d]
  BY <1>3 DEF AloneInv, Alone
<1>4. CASE alone'[c] /\ \A d \in Client \ {c} : pc'[d] = "idle"
  <2>1. Rows' = Rows
    BY Arrival DEF album, Rows
  <2>2. l \in {"first", "look"} => Rows = {}
    BY <1>1 DEF Opens, LimitInv
  <2>3. pc'[c] = l
    BY <1>2, Beginning
  <2>4. l # "idle" => Solo(pc[c], req[c])'
    BY <2>1, <2>2, <2>3 DEF Solo
  <2> QED BY <1>4, <2>3, <2>4 DEF AloneInv, Alone
<1> QED BY <1>2, <1>3, <1>4, Beginning

LEMMA AloneNext == ASSUME TypeInv, LimitInv, AloneInv, Next PROVE AloneInv'
<1>1. PICK c \in Client : Arrive(c) \/ Step(c) \/ Fail(c)
  BY DEF Next
<1>2. CASE Arrive(c)
  BY <1>2, ArrivalAlone
<1>3. CASE Step(c)
  BY <1>3, FindAlone, CountAlone, InsertAlone, LookAtCoverAlone, FindImageAlone, ClearAlone,
     MarkAlone, UnlinkAlone, DeleteRowAlone, PromoteNextAlone, SaveCoverAlone, EndedAlone DEF Step
<1>4. CASE Fail(c)
  BY <1>4, EndedAlone
<1> QED BY <1>1, <1>2, <1>3, <1>4

LEMMA Apartness == Spec => [](TypeInv /\ LimitInv /\ AloneInv)
<1>1. Init => AloneInv
  BY DEF Init, AloneInv, Alone
<1>2. AloneInv /\ UNCHANGED vars => AloneInv'
  BY DEF AloneInv, Alone, Solo, vars, placeVars, album, history, Rows
<1>3. TypeInv /\ LimitInv /\ AloneInv /\ [Next]_vars => AloneInv'
  BY AloneNext, <1>2
<1> QED BY <1>1, <1>3, Typed, Limited, PTL DEF Spec

\* A removed place comes back only by the stale save() of an overlapped request.
THEOREM RemovedPlacesStay == (Spec => RemovedStays) /\ (HotelSpec => RemovedStays)
<1> DEFINE A == place = "removed" /\ place' # "removed" =>
                  \E c \in Client : ~alone[c] /\ pc[c] = "cover"
<1>1. ASSUME TypeInv, AloneInv, Next, place = "removed", place' # "removed"
      PROVE  \E c \in Client : ~alone[c] /\ pc[c] = "cover"
  <2>1. PICK c \in Client : Arrive(c) \/ Step(c) \/ Fail(c)
    BY <1>1 DEF Next
  <2>2. ~Arrive(c)
    <3> SUFFICES ASSUME Arrive(c) PROVE FALSE
      OBVIOUS
    <3>1. PICK l \in {"idle", "first", "find", "look"}, r \in Request, given \in Url \cup {None} :
            Opens(c, l, r, given)
      BY <1>1, Arrival
    <3> QED BY <1>1, <3>1 DEF Opens, placeVars
  <2>3. SaveCover(c)
    BY <1>1, <2>1, <2>2 DEF Step, Fail, InsertFirst, Find, Count, Insert, LookAtCover,
       FindImage, Clear, Mark, Unlink, DeleteRow, PromoteNext, SoftDelete, placeVars
  <2>4. pc[c] = "cover"
    BY <2>3 DEF SaveCover
  <2>5. ~alone[c]
    BY <1>1, <2>4, AloneSolo DEF Solo
  <2> QED BY <2>4, <2>5
<1>2. TypeInv /\ AloneInv /\ [Next]_vars => [A]_vars
  BY <1>1
<1>3. Spec => [][A]_vars
  <2> HIDE DEF A
  <2> QED BY <1>2, Apartness, PTL DEF Spec
<1> QED BY <1>3, HotelsAreAlbums DEF RemovedStays

-----------------------------------------------------------------------------
(* An album in order                                                          *)

\* What the step of one request must show.
LEMMA OrderStep ==
  ASSUME TypeInv, AloneInv, OrderInv, NEW c \in Client, pc[c] # "idle", Apart(c),
         sound' => sound \/ alone[c],
         sound' /\ alone[c] /\ pc'[c] = "idle" => InOrder',
         sound' /\ alone[c] /\ pc'[c] # "idle" => Ordered(pc[c], req[c])'
  PROVE  OrderInv'
<1> SUFFICES ASSUME sound' PROVE /\ Quiet' => InOrder'
                                 /\ \A d \in Client : pc'[d] # "idle" => Ordered(pc[d], req[d])'
  BY DEF OrderInv
<1>1. alone[c]
  BY DEF AloneInv
<1>2. \A d \in Client \ {c} : pc'[d] = "idle"
  BY <1>1 DEF AloneInv, Alone, Apart
<1>3. Quiet' => pc'[c] = "idle"
  BY DEF Quiet
<1> QED BY <1>1, <1>2, <1>3

LEMMA Knows ==
  ASSUME AloneInv, OrderInv, NEW c \in Client, pc[c] # "idle"
  PROVE  /\ sound => alone[c] /\ Ordered(pc[c], req[c])
         /\ alone[c] => Solo(pc[c], req[c])
  BY AloneSolo DEF AloneInv, OrderInv

LEMMA SameOrder ==
  ASSUME cover' = cover, UNCHANGED album PROVE InOrder' = InOrder /\ Rows' = Rows
  BY DEF InOrder, album, Rows

LEMMA InsertFirstOrder ==
  ASSUME TypeInv, AloneInv, OrderInv, NEW c \in Client, InsertFirst(c) PROVE OrderInv'
<1>1. pc[c] = "first" /\ pc'[c] = "idle" /\ Apart(c) /\ sound' = sound /\ cover' = cover
  BY OthersEnd DEF InsertFirst, history, placeVars
<1>2. ASSUME sound PROVE InOrder'
  <2>1. Rows = {} /\ cover = req[c].url /\ req[c].url \in Url
    BY <1>1, <1>2, Knows, Held DEF Solo, Ordered, Shape
  <2>2. PICK i \in FreshImage : url' = [url EXCEPT ![i] = req[c].url] /\ primary' = primary \cup {i}
    BY DEF InsertFirst
  <2>3. i \in Rows' /\ url'[i] = req[c].url
    BY <2>1, <2>2, OneMore
  <2>4. primary' = {i}
    BY <2>1, <2>2, Held
  <2> QED BY <1>1, <2>1, <2>3, <2>4 DEF InOrder
<1> QED BY <1>1, <1>2, OrderStep

LEMMA FindOrder ==
  ASSUME TypeInv, AloneInv, OrderInv, NEW c \in Client, Find(c) PROVE OrderInv'
<1>1. InOrder' = InOrder /\ sound' = sound
  BY FindDoes, SameOrder DEF placeVars, history
<1>2. sound => InOrder
  BY FindDoes, Knows DEF Ordered
<1>3. sound /\ pc'[c] # "idle" => Ordered(pc[c], req[c])'
  BY <1>1, <1>2, FindDoes DEF Ordered, After
<1> QED BY <1>1, <1>2, <1>3, FindDoes, OrderStep

LEMMA CountOrder ==
  ASSUME TypeInv, AloneInv, OrderInv, NEW c \in Client, Count(c) PROVE OrderInv'
<1>1. InOrder' = InOrder /\ Rows' = Rows /\ sound' = sound
  BY CountDoes, SameOrder DEF placeVars, history
<1>2. sound => InOrder
  BY CountDoes, Knows DEF Ordered
<1>3. sound /\ pc'[c] # "idle" => Ordered(pc[c], req[c])'
  BY <1>1, <1>2, CountDoes DEF Ordered
<1> QED BY <1>1, <1>2, <1>3, CountDoes, OrderStep

LEMMA InsertOrder ==
  ASSUME TypeInv, AloneInv, OrderInv, NEW c \in Client, Insert(c) PROVE OrderInv'
<1>1. /\ pc[c] = "insert" /\ req[c].op = "add" /\ Apart(c) /\ cover' = cover
      /\ sound' = (sound \/ (req[c].lead /\ alone[c])) /\ req[c] \in Request
  BY InsertDoes, Held DEF placeVars
<1>2. PICK i \in FreshImage, u \in req[c].todo :
        /\ url' = [url EXCEPT ![i] = u]
        /\ primary' = IF req[c].lead THEN primary \cup {i} ELSE primary
        /\ req[c].lead => u = req[c].url
        /\ \/ pc'[c] = "idle"
           \/ pc'[c] = "insert" /\ req'[c].op = "add" /\ ~req'[c].lead
  BY InsertDoes
<1>3. u \in Url
  BY <1>1 DEF Request
<1>4. /\ Rows' = Rows \cup {i} /\ i \notin Rows /\ url'[i] = u
      /\ \A j \in Image \ {i} : url'[j] = url[j]
  BY <1>2, <1>3, OneMore
<1>5. ASSUME sound', alone[c] PROVE InOrder' /\ Rows' # {}
  <2>1. CASE req[c].lead
    <3>1. primary = {} /\ cover = req[c].url
      BY <1>1, <1>5, <2>1, Knows DEF Solo
    <3> QED BY <1>1, <1>2, <1>4, <2>1, <3>1 DEF InOrder
  <2>2. CASE ~req[c].lead
    <3>1. sound
      BY <1>1, <1>5, <2>2
    <3>2. InOrder /\ Rows # {}
      BY <1>1, <2>2, <3>1, Knows DEF Ordered
    <3>3. PICK j \in Rows : primary = {j} /\ cover = url[j]
      BY <3>2 DEF InOrder
    <3>4. j \in Image \ {i} /\ primary' = {j}
      BY <1>2, <1>4, <2>2, <3>3 DEF Rows
    <3> QED BY <1>1, <1>4, <3>3, <3>4 DEF InOrder
  <2> QED BY <2>1, <2>2
<1>6. sound' /\ alone[c] /\ pc'[c] # "idle" => Ordered(pc[c], req[c])'
  BY <1>2, <1>5 DEF Ordered
<1>7. sound' => sound \/ alone[c]
  BY <1>1
<1>8. pc[c] # "idle" /\ Apart(c)
  BY <1>1
<1> QED BY <1>5, <1>6, <1>7, <1>8, OrderStep

LEMMA LookAtCoverOrder ==
  ASSUME TypeInv, AloneInv, OrderInv, NEW c \in Client, LookAtCover(c) PROVE OrderInv'
<1>1. InOrder' = InOrder /\ sound' = sound /\ cover' = cover
  BY LookAtCoverDoes, SameOrder DEF placeVars, history
<1>2. sound => InOrder
  BY LookAtCoverDoes, Knows DEF Ordered
<1>3. sound /\ pc'[c] # "idle" => Ordered(pc[c], req[c])'
  BY <1>1, <1>2, LookAtCoverDoes DEF Ordered
<1> QED BY <1>1, <1>2, <1>3, LookAtCoverDoes, OrderStep

LEMMA FindImageOrder ==
  ASSUME TypeInv, AloneInv, OrderInv, NEW c \in Client, FindImage(c) PROVE OrderInv'
<1>1. InOrder' = InOrder /\ sound' = sound
  BY FindImageDoes, SameOrder DEF placeVars, history
<1>2. sound => InOrder
  BY FindImageDoes, Knows DEF Ordered
<1>3. sound /\ pc'[c] # "idle" => Ordered(pc[c], req[c])'
  BY <1>1, <1>2, FindImageDoes DEF Ordered
<1> QED BY <1>1, <1>2, <1>3, FindImageDoes, OrderStep

LEMMA ClearOrder ==
  ASSUME TypeInv, AloneInv, OrderInv, NEW c \in Client, Clear(c) PROVE OrderInv'
<1>1. sound' = sound /\ pc'[c] # "idle" /\ Ordered(pc[c], req[c])'
  BY ClearDoes DEF Ordered, history
<1> QED BY <1>1, ClearDoes, OrderStep

LEMMA MarkOrder ==
  ASSUME TypeInv, AloneInv, OrderInv, NEW c \in Client, Mark(c) PROVE OrderInv'
<1>1. sound' = sound /\ pc[c] = "mark" /\ pc'[c] = "cover" /\ req'[c] = req[c]
  BY MarkDoes DEF history
<1>2. ASSUME sound PROVE Ordered(pc[c], req[c])'
  <2>1. Solo("mark", req[c]) /\ Ordered("mark", req[c])
    BY <1>1, <1>2, Knows
  <2>2. CASE req[c].op = "delete"
    <3>1. primary' = {req[c].image}
      BY <2>1, <2>2, MarkDoes DEF Ordered
    <3> QED BY <1>1, <2>1, <2>2, <3>1, Resaved DEF Ordered
  <2>3. CASE req[c].op # "delete"
    BY <1>1, <2>3, MarkDoes DEF Ordered
  <2> QED BY <2>2, <2>3
<1> QED BY <1>1, <1>2, MarkDoes, OrderStep

LEMMA UnlinkOrder ==
  ASSUME TypeInv, AloneInv, OrderInv, NEW c \in Client, Unlink(c) PROVE OrderInv'
<1>1. InOrder' = InOrder /\ sound' = sound
  BY UnlinkDoes, SameOrder DEF placeVars, history
<1>2. sound => InOrder
  BY UnlinkDoes, Knows DEF Ordered
<1>3. sound => Ordered(pc[c], req[c])'
  BY <1>1, <1>2, UnlinkDoes DEF Ordered
<1> QED BY <1>1, <1>3, UnlinkDoes, OrderStep

LEMMA DeleteRowOrder ==
  ASSUME TypeInv, AloneInv, OrderInv, NEW c \in Client, DeleteRow(c) PROVE OrderInv'
<1>1. sound' = sound /\ cover' = cover
  BY DeleteRowDoes DEF history, placeVars
<1>2. ASSUME sound
      PROVE  IF pc'[c] = "idle" THEN InOrder' ELSE Ordered(pc[c], req[c])'
  <2>1. Solo("delete", req[c]) /\ Ordered("delete", req[c])
    BY <1>2, DeleteRowDoes, Knows
  <2>2. /\ req[c].image \in Rows /\ (req[c].lead <=> req[c].image \in primary)
    BY <2>1, DeleteRowDoes DEF Solo
  <2>3. PICK j \in Rows : primary = {j} /\ cover = url[j]
    BY <2>1, <2>2 DEF Ordered, InOrder
  <2>4. CASE req[c].lead
    BY <2>2, <2>3, <2>4, DeleteRowDoes DEF Ordered
  <2>5. CASE ~req[c].lead
    <3>1. j # req[c].image /\ primary' = {j}
      BY <2>2, <2>3, <2>5, DeleteRowDoes
    <3>2. j \in Rows' /\ url'[j] = url[j]
      BY <2>3, <3>1, DeleteRowDoes DEF Rows, TypeInv, TypeOK
    <3> QED BY <1>1, <2>3, <2>5, <3>1, <3>2, DeleteRowDoes DEF InOrder
  <2> QED BY <2>4, <2>5
<1> QED BY <1>1, <1>2, DeleteRowDoes, OrderStep

LEMMA PromoteNextOrder ==
  ASSUME TypeInv, AloneInv, OrderInv, NEW c \in Client, PromoteNext(c) PROVE OrderInv'
<1>1. sound' = sound /\ Rows' = Rows /\ primary' = primary /\ req[c].url = None
  BY PromoteNextDoes, Held DEF history, album, Rows, Shape
<1>2. sound => primary = {}
  BY PromoteNextDoes, Knows DEF Ordered
<1>3. sound => Ordered(pc[c], req[c])'
  BY <1>1, <1>2, PromoteNextDoes DEF Ordered
<1> QED BY <1>1, <1>3, PromoteNextDoes, OrderStep

LEMMA SaveCoverOrder ==
  ASSUME TypeInv, AloneInv, OrderInv, NEW c \in Client, SaveCover(c) PROVE OrderInv'
<1>1. Rows' = Rows /\ primary' = primary /\ url' = url /\ pc[c] = "cover" /\ Apart(c)
  BY SaveCoverDoes DEF album, Rows
<1>2. sound' => sound \/ alone[c]
  BY SaveCoverDoes
<1>3. sound' /\ pc'[c] # "idle" => Ordered(pc[c], req[c])'
  BY SaveCoverDoes DEF Ordered
<1>4. ASSUME sound', alone[c], pc'[c] = "idle" PROVE InOrder'
  <2>1. cover' = req[c].url /\ req[c].op \in {"choose", "delete", "edit"}
    BY <1>4, SaveCoverDoes
  <2>2. CASE req[c].op = "choose"
    <3>1. req[c].image \in Rows /\ primary = {req[c].image} /\ url[req[c].image] = req[c].url
      BY <1>1, <1>4, <2>2, Knows DEF Solo
    <3> QED BY <1>1, <2>1, <3>1 DEF InOrder
  <2>3. CASE req[c].op = "delete"
    <3>1. sound
      BY <1>4, <2>3, SaveCoverDoes
    <3> QED BY <1>1, <2>1, <2>3, <3>1, Knows DEF Ordered, InOrder
  <2>4. CASE req[c].op = "edit"
    <3>1. sound /\ ~req[c].lead
      BY <1>4, <2>4, SaveCoverDoes
    <3>2. InOrder /\ cover = req[c].url
      BY <1>1, <1>4, <2>4, <3>1, Knows DEF Ordered, Solo
    <3> QED BY <1>1, <2>1, <3>2 DEF InOrder
  <2> QED BY <2>1, <2>2, <2>3, <2>4
<1> QED BY <1>1, <1>2, <1>3, <1>4, OrderStep

LEMMA EndedOrder ==
  ASSUME TypeInv, AloneInv, OrderInv, NEW c \in Client, SoftDelete(c) \/ Fail(c)
  PROVE  OrderInv'
<1>1. pc[c] # "idle" /\ pc'[c] = "idle" /\ Apart(c)
  BY OthersEnd DEF SoftDelete, Fail
<1>2. ASSUME sound' PROVE sound /\ InOrder'
  <2>1. SoftDelete(c) /\ sound
    BY <1>2 DEF Fail, SoftDelete, history
  <2>2. InOrder
    BY <2>1, Knows DEF SoftDelete, Ordered
  <2> QED BY <2>1, <2>2, SameOrder DEF SoftDelete
<1> QED BY <1>1, <1>2, OrderStep

LEMMA ArrivalOrder ==
  ASSUME TypeInv, LimitInv, OrderInv, NEW c \in Client, Arrive(c) PROVE OrderInv'
<1> SUFFICES ASSUME sound'
             PROVE  /\ Quiet' => InOrder'
                    /\ \A d \in Client : pc'[d] # "idle" => Ordered(pc[d], req[d])'
  BY DEF OrderInv
<1>1. PICK l \in {"idle", "first", "find", "look"}, r \in Request, given \in Url \cup {None} :
        Opens(c, l, r, given)
  BY Arrival
<1>2. Begin(c, l, r, given)
  BY <1>1 DEF Opens
<1>3. /\ Quiet /\ sound /\ pc'[c] = l /\ req'[c] = r
      /\ \A d \in Client \ {c} : pc'[d] = "idle"
  BY <1>2, Beginning
<1>4. InOrder /\ Rows' = Rows /\ UNCHANGED album
  BY <1>3, Arrival DEF OrderInv, album, Rows
<1>5. l = "idle" => InOrder'
  BY <1>1, <1>4 DEF Opens, LimitInv, InOrder
<1>6. l \in {"find", "look"} => InOrder'
  BY <1>1, <1>4, SameOrder DEF Opens, placeVars
<1>7. l # "idle" => Ordered(pc[c], req[c])'
  BY <1>1, <1>3, <1>6 DEF Opens, Ordered
<1>8. Quiet' => l = "idle"
  BY <1>3 DEF Quiet
<1> QED BY <1>3, <1>5, <1>7, <1>8

LEMMA OrderNext == ASSUME TypeInv, LimitInv, AloneInv, OrderInv, Next PROVE OrderInv'
<1>1. PICK c \in Client : Arrive(c) \/ Step(c) \/ Fail(c)
  BY DEF Next
<1>2. CASE Arrive(c)
  BY <1>2, ArrivalOrder
<1>3. CASE Step(c)
  BY <1>3, InsertFirstOrder, FindOrder, CountOrder, InsertOrder, LookAtCoverOrder,
     FindImageOrder, ClearOrder, MarkOrder, UnlinkOrder, DeleteRowOrder, PromoteNextOrder,
     SaveCoverOrder, EndedOrder DEF Step
<1>4. CASE Fail(c)
  BY <1>4, EndedOrder
<1> QED BY <1>1, <1>2, <1>3, <1>4

LEMMA Orderly == Spec => []OrderInv
<1>1. Init => OrderInv
  BY DEF Init, OrderInv, Quiet, InOrder, Rows
<1>2. OrderInv /\ UNCHANGED vars => OrderInv'
  BY DEF OrderInv, Quiet, InOrder, Ordered, vars, placeVars, album, history, Rows
<1>3. TypeInv /\ LimitInv /\ AloneInv /\ OrderInv /\ [Next]_vars => OrderInv'
  BY OrderNext, <1>2
<1> QED BY <1>1, <1>3, Apartness, PTL DEF Spec

\* One undisturbed choice of a primary image puts the album in order, whatever
\* was done to it before, and every undisturbed request keeps it so.
THEOREM AlbumsComeInOrder == (Spec => []AlbumInOrder) /\ (HotelSpec => []AlbumInOrder)
<1>1. OrderInv => AlbumInOrder
  BY DEF OrderInv, AlbumInOrder, InOrder
<1> QED BY <1>1, Orderly, HotelsAreAlbums, PTL

-----------------------------------------------------------------------------
(* The files of the images                                                    *)

\* What the step of one request must show.
LEMMA FileStep ==
  ASSUME TypeInv, AloneInv, FileInv, NEW c \in Client, pc[c] # "idle", Apart(c),
         clean' => clean,
         clean' /\ alone[c] /\ pc'[c] = "idle" => Filed' /\ Covered',
         clean' /\ alone[c] /\ pc'[c] # "idle" => Clean(pc[c], req[c])'
  PROVE  FileInv'
<1> SUFFICES ASSUME clean' PROVE /\ Quiet' => Filed' /\ Covered'
                                 /\ \A d \in Client : pc'[d] # "idle" => Clean(pc[d], req[d])'
  BY DEF FileInv
<1>1. alone[c]
  BY DEF AloneInv
<1>2. \A d \in Client \ {c} : pc'[d] = "idle"
  BY <1>1 DEF AloneInv, Alone, Apart
<1>3. Quiet' => pc'[c] = "idle"
  BY DEF Quiet
<1> QED BY <1>1, <1>2, <1>3

LEMMA Holds ==
  ASSUME AloneInv, FileInv, NEW c \in Client, pc[c] # "idle", clean
  PROVE  Clean(pc[c], req[c]) /\ Solo(pc[c], req[c])
  BY AloneSolo DEF AloneInv, FileInv

LEMMA SameFiles ==
  ASSUME UNCHANGED album, files' = files, cover' = cover
  PROVE  /\ Rows' = Rows /\ Distinct' = Distinct /\ Covered' = Covered
         /\ \A i \in Image : Present(i)' = Present(i)
         /\ \A u \in Url : Spare(u)' = Spare(u)
  BY DEF album, Rows, Distinct, Covered, Present, Spare

\* A row more, whose file is one that no other row has, or none.
LEMMA NewRow ==
  ASSUME TypeInv, NEW i \in FreshImage, NEW u \in Url, url' = [url EXCEPT ![i] = u],
         Distinct, \A j \in Rows : Present(j), Spare(u), files' = files,
         primary' = primary \/ (primary = {} /\ primary' = {i})
  PROVE  Filed'
<1>1. /\ Rows' = Rows \cup {i} /\ i \notin Rows /\ url'[i] = u
      /\ \A j \in Rows : url'[j] = url[j]
  BY OneMore DEF Rows
<1>2. \A j \in Rows' : Present(j)'
  BY <1>1 DEF Present, Spare
<1>3. \A j, k \in Rows' : url'[j] = url'[k] /\ url'[j] \in File => j = k
  BY <1>1 DEF Distinct, Spare
<1>4. \A j, k \in primary' : j = k
  BY DEF Distinct
<1> QED BY <1>2, <1>3, <1>4 DEF Filed, Distinct

LEMMA InsertFirstFile ==
  ASSUME TypeInv, AloneInv, FileInv, NEW c \in Client, InsertFirst(c) PROVE FileInv'
<1>1. /\ pc[c] = "first" /\ pc'[c] = "idle" /\ Apart(c) /\ clean' = clean /\ cover' = cover
      /\ files' = files /\ req[c].url \in Url
  BY OthersEnd, Held DEF InsertFirst, history, placeVars, Shape
<1>2. ASSUME clean PROVE Filed' /\ Covered'
  <2>1. Clean("first", req[c]) /\ Rows = {}
    BY <1>1, <1>2, Holds DEF Solo
  <2>2. PICK i \in FreshImage : url' = [url EXCEPT ![i] = req[c].url] /\ primary' = primary \cup {i}
    BY DEF InsertFirst
  <2>3. primary = {} /\ primary' = {i}
    BY <2>1, <2>2, Held
  <2>4. Spare(req[c].url) /\ Distinct /\ cover \notin File
    BY <2>1 DEF Clean, Spare
  <2>5. Filed'
    BY <1>1, <2>1, <2>2, <2>3, <2>4, NewRow
  <2> QED BY <1>1, <2>4, <2>5 DEF Covered
<1> QED BY <1>1, <1>2, FileStep

LEMMA FindFile ==
  ASSUME TypeInv, AloneInv, FileInv, NEW c \in Client, Find(c) PROVE FileInv'
<1>1. pc[c] = "find" /\ clean' = clean /\ Apart(c) /\ req[c].todo \subseteq Url
  BY FindDoes, Held DEF history, Request
<1>2. /\ Rows' = Rows /\ Distinct' = Distinct /\ Covered' = Covered
      /\ \A i \in Image : Present(i)' = Present(i)
      /\ \A u \in Url : Spare(u)' = Spare(u)
  BY FindDoes, SameFiles DEF placeVars
<1>3. ASSUME clean PROVE IF pc'[c] = "idle" THEN Filed' /\ Covered' ELSE Clean(pc[c], req[c])'
  <2>1. Clean("find", req[c])
    BY <1>1, <1>3, Holds
  <2>2. Distinct' /\ Covered' /\ \A i \in Rows' : Present(i)'
    BY <1>2, <2>1 DEF Clean, Rows
  <2>3. req[c].op = "add" => \A u \in req[c].todo : Spare(u)'
    BY <1>1, <1>2, <2>1 DEF Clean
  <2>4. req[c].op = "edit" /\ req[c].lead => req[c].url \notin File
    BY <2>1 DEF Clean
  <2> QED BY <2>2, <2>3, <2>4, FindDoes DEF Clean, Filed, After
<1> QED BY <1>1, <1>3, FileStep

LEMMA CountFile ==
  ASSUME TypeInv, AloneInv, FileInv, NEW c \in Client, Count(c) PROVE FileInv'
<1>1. pc[c] = "count" /\ req[c].op = "add" /\ clean' = clean /\ Apart(c) /\ req[c].todo \subseteq Url
  BY CountDoes, Held DEF history, Request
<1>2. /\ Rows' = Rows /\ Distinct' = Distinct /\ Covered' = Covered
      /\ \A i \in Image : Present(i)' = Present(i)
      /\ \A u \in Url : Spare(u)' = Spare(u)
  BY CountDoes, SameFiles DEF placeVars
<1>3. ASSUME clean PROVE IF pc'[c] = "idle" THEN Filed' /\ Covered' ELSE Clean(pc[c], req[c])'
  <2>1. Clean("count", req[c])
    BY <1>1, <1>3, Holds
  <2>2. Distinct' /\ Covered' /\ \A i \in Rows' : Present(i)'
    BY <1>2, <2>1 DEF Clean, Rows
  <2>3. \A u \in req[c].todo : Spare(u)'
    BY <1>1, <1>2, <2>1 DEF Clean
  <2> QED BY <2>2, <2>3, CountDoes DEF Clean, Filed
<1> QED BY <1>1, <1>3, FileStep

LEMMA InsertFile ==
  ASSUME TypeInv, AloneInv, FileInv, NEW c \in Client, Insert(c) PROVE FileInv'
<1>1. /\ pc[c] = "insert" /\ req[c].op = "add" /\ Apart(c) /\ cover' = cover /\ files' = files
      /\ clean' = clean /\ req[c] \in Request
  BY InsertDoes, Held DEF placeVars
<1>2. PICK i \in FreshImage, u \in req[c].todo :
        /\ url' = [url EXCEPT ![i] = u]
        /\ primary' = IF req[c].lead THEN primary \cup {i} ELSE primary
        /\ req[c].lead => u = req[c].url
        /\ \/ pc'[c] = "idle"
           \/ /\ pc'[c] = "insert" /\ req'[c].op = "add" /\ ~req'[c].lead
              /\ req'[c].todo = req[c].todo \ {u}
  BY InsertDoes
<1>3. u \in Url
  BY <1>1 DEF Request
<1>4. /\ Rows' = Rows \cup {i} /\ i \notin Rows /\ url'[i] = u
      /\ \A j \in Image \ {i} : url'[j] = url[j]
  BY <1>2, <1>3, OneMore
<1>5. ASSUME clean PROVE /\ Filed' /\ Covered' /\ \A v \in req[c].todo \ {u} : Spare(v)'
  <2>1. Clean("insert", req[c]) /\ Solo("insert", req[c])
    BY <1>1, <1>5, Holds
  <2>2. Distinct /\ (\A j \in Rows : Present(j)) /\ \A v \in req[c].todo : Spare(v)
    BY <1>1, <2>1 DEF Clean
  <2>3. req[c].lead => primary = {} /\ cover = u
    BY <1>2, <2>1 DEF Solo
  <2>4. Filed'
    BY <1>1, <1>2, <1>3, <2>2, <2>3, NewRow
  <2>5. \A v \in req[c].todo \ {u} : Spare(v)'
    BY <1>1, <1>4, <2>2 DEF Spare, Rows
  <2>6. Covered'
    <3>1. CASE req[c].lead
      BY <1>1, <1>2, <1>4, <2>3, <3>1 DEF Covered
    <3>2. CASE ~req[c].lead
      <4>1. Covered /\ primary' = primary
        BY <1>2, <2>1, <3>2 DEF Clean
      <4> QED BY <1>1, <1>4, <4>1 DEF Covered, Rows
    <3> QED BY <3>1, <3>2
  <2> QED BY <2>4, <2>5, <2>6
<1>6. clean /\ pc'[c] # "idle" => Clean(pc[c], req[c])'
  BY <1>2, <1>5 DEF Clean, Filed
<1>7. clean /\ pc'[c] = "idle" => Filed' /\ Covered'
  BY <1>5
<1> QED BY <1>1, <1>6, <1>7, FileStep

LEMMA LookAtCoverFile ==
  ASSUME TypeInv, AloneInv, FileInv, NEW c \in Client, LookAtCover(c) PROVE FileInv'
<1>1. pc[c] = "look" /\ clean' = clean /\ Apart(c) /\ cover' = cover
  BY LookAtCoverDoes DEF history, placeVars
<1>2. /\ Rows' = Rows /\ Distinct' = Distinct /\ Covered' = Covered
      /\ \A i \in Image : Present(i)' = Present(i)
  BY LookAtCoverDoes, SameFiles DEF placeVars
<1>3. ASSUME clean PROVE IF pc'[c] = "idle" THEN Filed' /\ Covered' ELSE Clean(pc[c], req[c])'
  <2>1. Clean("look", req[c]) /\ Rows = {}
    BY <1>1, <1>3, Holds DEF Solo
  <2>2. Distinct' /\ Covered' /\ \A i \in Rows' : Present(i)'
    BY <1>2, <2>1 DEF Clean
  <2>3. cover \notin File
    BY <2>1 DEF Clean, Covered
  <2> QED BY <1>1, <2>2, <2>3, LookAtCoverDoes DEF Clean, Filed
<1> QED BY <1>1, <1>3, FileStep

LEMMA FindImageFile ==
  ASSUME TypeInv, AloneInv, FileInv, NEW c \in Client, FindImage(c) PROVE FileInv'
<1>1. pc[c] = "findImage" /\ clean' = clean /\ Apart(c)
  BY FindImageDoes DEF history
<1>2. /\ Rows' = Rows /\ Distinct' = Distinct /\ Covered' = Covered
      /\ \A i \in Image : Present(i)' = Present(i)
  BY FindImageDoes, SameFiles DEF placeVars
<1>3. ASSUME clean PROVE IF pc'[c] = "idle" THEN Filed' /\ Covered' ELSE Clean(pc[c], req[c])'
  <2>1. Clean("findImage", req[c])
    BY <1>1, <1>3, Holds
  <2>2. Distinct' /\ Covered' /\ \A i \in Rows' : Present(i)'
    BY <1>2, <2>1 DEF Clean, Rows
  <2> QED BY <2>2, FindImageDoes DEF Clean, Filed
<1> QED BY <1>1, <1>3, FileStep

LEMMA ClearFile ==
  ASSUME TypeInv, AloneInv, FileInv, NEW c \in Client, Clear(c) PROVE FileInv'
<1>1. /\ pc[c] = "clear" /\ clean' = clean /\ Apart(c) /\ Rows' = Rows /\ url' = url
      /\ primary' = {} /\ files' = files /\ req'[c] = req[c]
  BY ClearDoes DEF history
<1>2. ASSUME clean PROVE Clean(pc[c], req[c])'
  <2>1. Clean("clear", req[c])
    BY <1>1, <1>2, Holds
  <2>2. Distinct' /\ \A i \in Rows' : Present(i)'
    BY <1>1, <2>1 DEF Clean, Distinct, Present
  <2>3. req[c].op = "add" => \A u \in req[c].todo : Spare(u)'
    BY <1>1, <2>1 DEF Clean, Spare
  <2> QED BY <1>1, <2>2, <2>3, ClearDoes DEF Clean
<1> QED BY <1>1, <1>2, ClearDoes, FileStep

LEMMA MarkFile ==
  ASSUME TypeInv, AloneInv, FileInv, NEW c \in Client, Mark(c) PROVE FileInv'
<1>1. /\ pc[c] = "mark" /\ pc'[c] = "cover" /\ clean' = clean /\ Apart(c) /\ files' = files
      /\ req'[c] = req[c] /\ req[c].op \in {"choose", "delete"}
      /\ primary' = primary \cup {req[c].image}
  BY MarkDoes DEF history
<1>2. ASSUME clean PROVE Clean(pc[c], req[c])'
  <2>1. Clean("mark", req[c]) /\ Solo("mark", req[c])
    BY <1>1, <1>2, Holds
  <2>2. /\ Rows' = Rows /\ url' = url /\ req[c].image \in Rows
        /\ url[req[c].image] = req[c].url
    BY <2>1, Resaved
  <2>3. primary' = {req[c].image}
    BY <1>1, <2>1 DEF Clean, Solo
  <2>4. Distinct' /\ \A i \in Rows' : Present(i)'
    BY <1>1, <2>1, <2>2, <2>3 DEF Clean, Distinct, Present
  <2> QED BY <1>1, <2>2, <2>3, <2>4 DEF Clean
<1> QED BY <1>1, <1>2, FileStep

LEMMA UnlinkFile ==
  ASSUME TypeInv, AloneInv, FileInv, NEW c \in Client, Unlink(c) PROVE FileInv'
<1>1. /\ pc[c] = "unlink" /\ pc'[c] = "delete" /\ clean' = clean /\ Apart(c) /\ cover' = cover
      /\ req'[c] = req[c] /\ req[c].op = "delete" /\ files' = files \ {req[c].url}
      /\ Rows' = Rows /\ url' = url /\ primary' = primary
  BY UnlinkDoes DEF history, placeVars, album, Rows
<1>2. ASSUME clean PROVE Clean(pc[c], req[c])'
  <2>1. Clean("unlink", req[c]) /\ req[c].image \in Rows /\ url[req[c].image] = req[c].url
    BY <1>1, <1>2, Holds DEF Solo
  <2>2. Distinct /\ Distinct' /\ Covered'
    BY <1>1, <2>1 DEF Clean, Distinct, Covered
  <2>3. \A i \in Rows : Present(i)' \/ i = req[c].image
    BY <1>1, <2>1, <2>2 DEF Clean, Distinct, Present
  <2> QED BY <1>1, <2>2, <2>3 DEF Clean
<1> QED BY <1>1, <1>2, FileStep

LEMMA DeleteRowFile ==
  ASSUME TypeInv, AloneInv, FileInv, NEW c \in Client, DeleteRow(c) PROVE FileInv'
<1>1. /\ pc[c] = "delete" /\ clean' = clean /\ Apart(c) /\ cover' = cover /\ files' = files
  BY DeleteRowDoes DEF history, placeVars
<1>2. ASSUME clean PROVE IF pc'[c] = "idle" THEN Filed' /\ Covered' ELSE Clean(pc[c], req[c])'
  <2>1. Clean("delete", req[c]) /\ (req[c].lead <=> req[c].image \in primary)
    BY <1>1, <1>2, Holds DEF Solo
  <2>2. Rows' = Rows \ {req[c].image} /\ \A i \in Rows' : url'[i] = url[i]
    BY DeleteRowDoes DEF Rows, TypeInv, TypeOK
  <2>3. primary' = primary \ {req[c].image}
    BY DeleteRowDoes
  <2>4. Filed'
    BY <1>1, <2>1, <2>2, <2>3 DEF Clean, Filed, Distinct, Present
  <2>5. CASE req[c].lead
    <3>1. primary' = {}
      BY <2>1, <2>3, <2>5 DEF Clean, Distinct
    <3> QED BY <2>4, <2>5, <3>1, DeleteRowDoes DEF Clean, Filed
  <2>6. CASE ~req[c].lead
    <3>1. Covered
      BY <2>1 DEF Clean
    <3>2. Covered'
      BY <1>1, <2>1, <2>2, <2>3, <2>6, <3>1 DEF Covered
    <3> QED BY <2>4, <2>6, <3>2, DeleteRowDoes
  <2> QED BY <2>5, <2>6
<1> QED BY <1>1, <1>2, FileStep

LEMMA PromoteNextFile ==
  ASSUME TypeInv, AloneInv, FileInv, NEW c \in Client, PromoteNext(c) PROVE FileInv'
<1>1. /\ pc[c] = "next" /\ clean' = clean /\ Apart(c) /\ primary' = primary
      /\ req[c].op = "delete" /\ req[c].url = None
  BY PromoteNextDoes, Held DEF history, album, Shape
<1>2. /\ Rows' = Rows /\ Distinct' = Distinct
      /\ \A i \in Image : Present(i)' = Present(i)
  BY PromoteNextDoes, SameFiles DEF placeVars
<1>3. ASSUME clean PROVE Clean(pc[c], req[c])'
  <2>1. Clean("next", req[c])
    BY <1>1, <1>3, Holds
  <2>2. Distinct' /\ (\A i \in Rows' : Present(i)') /\ primary' = {}
    BY <1>1, <1>2, <2>1 DEF Clean, Rows
  <2>3. None \notin File
    BY AlbumConstants DEF Url
  <2> QED BY <1>1, <2>2, <2>3, PromoteNextDoes DEF Clean
<1> QED BY <1>1, <1>3, PromoteNextDoes, FileStep

LEMMA SaveCoverFile ==
  ASSUME TypeInv, AloneInv, FileInv, NEW c \in Client, SaveCover(c) PROVE FileInv'
<1>1. /\ pc[c] = "cover" /\ clean' = clean /\ Apart(c) /\ req[c].todo \subseteq Url
      /\ Rows' = Rows /\ url' = url /\ primary' = primary /\ files' = files
  BY SaveCoverDoes, Held DEF album, Rows, Request
<1>2. ASSUME clean PROVE IF pc'[c] = "idle" THEN Filed' /\ Covered' ELSE Clean(pc[c], req[c])'
  <2>1. Clean("cover", req[c]) /\ Solo("cover", req[c]) /\ Rows \subseteq req[c].seen
    BY <1>1, <1>2, Holds DEF Solo
  <2>2. Distinct' /\ \A i \in Rows' : Present(i)'
    BY <1>1, <2>1 DEF Clean, Distinct, Present
  <2>3. cover' = req[c].url
    BY <2>1, SaveCoverDoes
  <2>4. CASE req[c].op = "add"
    <3>1. \A u \in req[c].todo : Spare(u)'
      BY <1>1, <2>1, <2>4 DEF Clean, Spare
    <3> QED BY <2>1, <2>2, <2>4, <3>1, SaveCoverDoes DEF Clean
  <2>5. CASE req[c].op = "choose"
    <3>1. req[c].image \in Rows /\ primary = {req[c].image} /\ url[req[c].image] = req[c].url
      BY <2>1, <2>5 DEF Solo
    <3> QED BY <1>1, <2>1, <2>2, <2>3, <2>5, <3>1, SaveCoverDoes DEF Filed, Covered
  <2>6. CASE req[c].op = "delete"
    <3>1. Covered'
      BY <1>1, <2>1, <2>3, <2>6 DEF Clean, Covered
    <3> QED BY <2>1, <2>2, <2>6, <3>1, SaveCoverDoes DEF Filed
  <2>7. CASE req[c].op = "edit"
    <3>1. Covered'
      BY <1>1, <2>1, <2>3, <2>7 DEF Clean, Covered, Solo
    <3> QED BY <2>1, <2>2, <2>7, <3>1, SaveCoverDoes DEF Filed
  <2> QED BY <2>4, <2>5, <2>6, <2>7, SaveCoverDoes
<1> QED BY <1>1, <1>2, FileStep

LEMMA EndedFile ==
  ASSUME TypeInv, AloneInv, FileInv, NEW c \in Client, SoftDelete(c) \/ Fail(c)
  PROVE  FileInv'
<1>1. pc[c] # "idle" /\ pc'[c] = "idle" /\ Apart(c)
  BY OthersEnd DEF SoftDelete, Fail
<1>2. ASSUME clean' PROVE clean /\ Filed' /\ Covered'
  <2>1. SoftDelete(c) /\ clean /\ pc[c] = "remove"
    BY <1>2 DEF Fail, SoftDelete, history
  <2>2. Clean("remove", req[c])
    BY <2>1, Holds
  <2>3. /\ Rows' = Rows /\ Distinct' = Distinct /\ Covered' = Covered
        /\ \A i \in Image : Present(i)' = Present(i)
    BY <2>1, SameFiles DEF SoftDelete
  <2> QED BY <2>1, <2>2, <2>3 DEF Clean, Filed, Rows
<1> QED BY <1>1, <1>2, FileStep

LEMMA ArrivalFile ==
  ASSUME TypeInv, LimitInv, FileInv, NEW c \in Client, Arrive(c) PROVE FileInv'
<1> SUFFICES ASSUME clean'
             PROVE  /\ Quiet' => Filed' /\ Covered'
                    /\ \A d \in Client : pc'[d] # "idle" => Clean(pc[d], req[d])'
  BY DEF FileInv
<1>1. PICK l \in {"idle", "first", "find", "look"}, r \in Request, given \in Url \cup {None} :
        Opens(c, l, r, given)
  BY Arrival
<1>2. Begin(c, l, r, given)
  BY <1>1 DEF Opens
<1>3. /\ Quiet /\ clean /\ given \notin File /\ pc'[c] = l /\ req'[c] = r
      /\ \A d \in Client \ {c} : pc'[d] = "idle"
  BY <1>2, Beginning
<1>4. /\ Filed /\ Covered /\ Rows' = Rows /\ url' = url /\ primary' = primary
  BY <1>3, Arrival DEF FileInv, album, Rows
<1>5. files \subseteq files'
  BY <1>1 DEF Opens
<1>6. Filed' /\ Distinct' /\ \A i \in Rows' : Present(i)'
  BY <1>4, <1>5 DEF Filed, Distinct, Present
<1>7. l = "idle" => Covered'
  BY <1>1, AlbumConstants DEF Opens, Covered, Url
<1>8. l \in {"find", "look"} => Covered'
  BY <1>1, <1>4 DEF Opens, placeVars, Covered
<1>9. r.op = "add" => \A u \in r.todo : Spare(u)'
  <2>1. r.op = "add" => r.todo = {given} \/ r.todo \subseteq FreshFile \cap files'
    BY <1>1 DEF Opens
  <2> QED BY <1>3, <1>4, <2>1 DEF Spare, FreshFile, Named
<1>10. l # "idle" => Clean(pc[c], req[c])'
  BY <1>1, <1>3, <1>6, <1>8, <1>9 DEF Opens, Clean
<1>11. Quiet' => l = "idle"
  BY <1>3 DEF Quiet
<1> QED BY <1>3, <1>6, <1>7, <1>10, <1>11

LEMMA FileNext == ASSUME TypeInv, LimitInv, AloneInv, FileInv, Next PROVE FileInv'
<1>1. PICK c \in Client : Arrive(c) \/ Step(c) \/ Fail(c)
  BY DEF Next
<1>2. CASE Arrive(c)
  BY <1>2, ArrivalFile
<1>3. CASE Step(c)
  BY <1>3, InsertFirstFile, FindFile, CountFile, InsertFile, LookAtCoverFile, FindImageFile,
     ClearFile, MarkFile, UnlinkFile, DeleteRowFile, PromoteNextFile, SaveCoverFile,
     EndedFile DEF Step
<1>4. CASE Fail(c)
  BY <1>4, EndedFile
<1> QED BY <1>1, <1>2, <1>3, <1>4

LEMMA FilesKept == Spec => []FileInv
<1>1. Init => FileInv
  BY AlbumConstants DEF Init, FileInv, Quiet, Filed, Distinct, Covered, Rows, Url
<1>2. FileInv /\ UNCHANGED vars => FileInv'
  BY DEF FileInv, Quiet, Filed, Distinct, Covered, Clean, Present, Spare, vars, placeVars,
     album, history, Rows
<1>3. TypeInv /\ LimitInv /\ AloneInv /\ FileInv /\ [Next]_vars => FileInv'
  BY FileNext, <1>2
<1> QED BY <1>1, <1>3, Apartness, PTL DEF Spec

\* As long as requests come one after the other, none fails and no client gives
\* the address of an uploaded file himself, every image has its file.
THEOREM FilesStayPresent == (Spec => []FilesPresent) /\ (HotelSpec => []FilesPresent)
<1>1. FileInv => FilesPresent
  BY DEF FileInv, FilesPresent, Filed, Present
<1> QED BY <1>1, FilesKept, HotelsAreAlbums, PTL
=============================================================================
