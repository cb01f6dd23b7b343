------------------------------ MODULE MCFsTest ------------------------------
(* Words of six bits and a kilo of 4: sizes from one byte to 32, products  *)
(* that wrap to zero, to a negative int and to a small size.               *)
EXTENDS FsTest

MCNumbers == {0, 1, 3, 17}

=============================================================================
