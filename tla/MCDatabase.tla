------------------------------ MODULE MCDatabase ------------------------------
(* The database for TLC: an artist with two albums, and one with one.      *)
EXTENDS Database

MCFiles == {<<1, 1, 1>>, <<1, 1, 2>>, <<1, 2, 1>>, <<2, 1, 1>>, <<2, 1, 2>>}
=============================================================================
