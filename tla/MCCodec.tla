------------------------------ MODULE MCCodec ------------------------------
(***************************************************************************)
(* Bytes of base 3, so that a byte is neither of the two a bool may be;    *)
(* amounts of two bytes and keys of three, so that a field read at the     *)
(* place or with the width of another shows.                               *)
(***************************************************************************)
EXTENDS Codec

MCKeys == {<<0, 1, 2>>, <<2, 0, 1>>, <<1, 1, 0>>}

=============================================================================
