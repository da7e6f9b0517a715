------------------------------ MODULE MCCodec ------------------------------
(* The real layouts and bounds; lengths around zero, each bound and the    *)
(* largest value of the length field.                                      *)
EXTENDS Codec

MCLenValues(w, max) ==
  {0, 1, max, max + 1, CASE w = 1 -> 255 [] w = 2 -> 65535 [] w = 4 -> 16777216}
=============================================================================
