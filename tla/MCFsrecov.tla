----------------------------- MODULE MCFsrecov -----------------------------
(***************************************************************************)
(* Entries of two bytes, headers of three.  One reserved sector of two     *)
(* bytes, four entries of a directory (clusters 2 to 5 of one sector       *)
(* each), a BMP file of three bytes (clusters 6 and 7) and one of four at  *)
(* the end (8 and 9).  Names 2, 4 and 5 end in .bmp.  Other headers        *)
(* declare more or less than that, or clusters of two sectors; and sectors *)
(* of three bytes, in which entries are cut off at the end.                *)
(***************************************************************************)
EXTENDS Fsrecov

Entry(k, n, c, s) == [kind |-> k, name |-> n, cluster |-> c, size |-> s]
Zero == Entry("zero", 0, 0, 0)
Lfn(part) == Entry("lfn", part, 0, 0)
File(n, c, s) == Entry("file", n, c, s)
Bmp(s) == Entry("bmp", 0, 0, s)
Small(n) == File(n, 6, 3)
Big(n) == File(n, 8, 4)

\* Each entry and a byte inside it, at which nothing begins that makes sense.
Bytes(dir) == FlattenSeq([k \in 1 .. Len(dir) |-> << dir[k], Zero >>])
Image(dir) == Bytes(<< Zero >> \o dir \o << Bmp(3), Zero, Bmp(4), Zero >>)

Directories == [1 .. 4 -> {Zero, Lfn(1), Lfn(2), Small(2), Big(4)}]

\* Entries that mislead: sizes and clusters beyond the image, by a byte and by
\* more, cluster 0, a size that is not the header's, an entry that is data, names
\* that are not allowed or empty, directories; and one file more than there is
\* place for.
Misleading == { << File(2, 8, 5), File(2, 10, 3), File(2, 0, 3), Small(2) >>,
                << File(2, 8, 3), File(2, 9, 2), File(2, 2, 3), Big(2) >>,
                << Small(0), Small(3), Lfn(0), Small(2) >>,
                << Lfn(3), Lfn(2), Lfn(1), Small(2) >>,
                << Lfn(2), Entry("other", 0, 0, 0), Small(4), File(2, 8, 0) >>,
                << Lfn(1), Bmp(3), File(4, 4, 3), Zero >>,
                << Bmp(4), Small(2), Big(4), File(5, 2, 4) >> }

\* For sectors of three bytes: entries at 6 to 12, and half of one behind them.
\* The data is that of the first, in cluster 3; a second one is inside a file.
Uneven == << Zero, Zero, Zero, Zero, Zero, Zero, File(2, 3, 6), Zero, Lfn(4), Bmp(6), File(5, 4, 3),
             Zero, Bmp(3), Zero, Small(2) >>

AllImages == {Image(d) : d \in Directories \cup Misleading}
             \cup {<< >>, << Zero >>, << Zero, Zero >>, Uneven}

H(bytes, sectors, reserved, perCluster) ==
    [valid |-> TRUE, bytesPerSec |-> bytes, sectors |-> sectors, reserved |-> reserved,
     perCluster |-> perCluster]
NoHeader == [H(2, 9, 1, 1) EXCEPT !.valid = FALSE]
AllHeaders == {H(2, 9, 1, 1), H(2, 8, 1, 1), H(2, 10, 1, 1), H(2, 9, 9, 1), H(2, 9, 1, 2),
               H(2, 9, 1, 0), H(2, 0, 1, 1), H(0, 9, 1, 1), H(2, 1, 0, 1), H(3, 5, 2, 1), NoHeader}
=============================================================================
