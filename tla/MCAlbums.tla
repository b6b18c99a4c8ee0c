------------------------------ MODULE MCAlbums ------------------------------
(***************************************************************************)
(* An instance of HotelAlbum for TLC.                                         *)
(***************************************************************************)
EXTENDS HotelAlbum, TLC

Symmetry == Permutations(Client) \cup Permutations(Image) \cup Permutations(File)
=============================================================================
