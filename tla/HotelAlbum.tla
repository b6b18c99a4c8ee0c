----------------------------- MODULE HotelAlbum -----------------------------
(***************************************************************************)
(* The hotels of src/backend/src/hotels/hotels.service.ts have the rooms'     *)
(* album code over again, on hotel_images and hotels.cover_image_url.  Each   *)
(* method is the steps of ImageAlbum it is made of: a hotel does what a room  *)
(* does, within MAX_HOTEL_IMAGES, so what holds of ImageAlbum holds here.     *)
(***************************************************************************)
EXTENDS ImageAlbum

Doing(c, op) == req[c].op = op

create(c) == SavePlace(c) \/ (Doing(c, "create") /\ InsertFirst(c))

getImages(c) == Read(c) \/ (Doing(c, "read") /\ (LookAtCover(c) \/ InsertFirst(c)))

addImages(c) ==
  \/ Upload(c) \/ Post(c)
  \/ Doing(c, "add") /\ (Find(c) \/ Count(c) \/ Clear(c) \/ SaveCover(c) \/ Insert(c))

setPrimaryImage(c) ==
  \/ Choose(c)
  \/ Doing(c, "choose") /\ (Find(c) \/ FindImage(c) \/ Clear(c) \/ Mark(c) \/ SaveCover(c))

deleteImage(c) ==
  \/ Delete(c)
  \/ Doing(c, "delete") /\ (Find(c) \/ FindImage(c) \/ Unlink(c) \/ DeleteRow(c)
                              \/ PromoteNext(c) \/ Mark(c) \/ SaveCover(c))

update(c) == Edit(c) \/ (Doing(c, "edit") /\ (Find(c) \/ SaveCover(c)))

remove(c) == Remove(c) \/ (Doing(c, "remove") /\ (Find(c) \/ SoftDelete(c)))

HotelNext == \E c \in Client :
  \/ create(c) \/ getImages(c) \/ addImages(c) \/ setPrimaryImage(c)
  \/ deleteImage(c) \/ update(c) \/ remove(c) \/ Fail(c)

HotelSpec == Init /\ [][HotelNext]_vars
=============================================================================
