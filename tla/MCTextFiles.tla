----------------------------- MODULE MCTextFiles -----------------------------
(***************************************************************************)
(* Instances of TextFiles: all files of up to four pieces, texts of up to  *)
(* five characters, and short files that are not text.                     *)
(***************************************************************************)
EXTENDS TextFiles

x == <<"x">>
y == <<"y">>
lf == <<"LF">>
cr == <<"CR">>
e == <<"e1", "e2">>

Pieces(set, n) == {FlattenSeq(pieces) : pieces \in BoundedSeq(set, n)}

MCFiles ==
  Pieces({x, lf, cr, e, Bom}, 4)
    \cup Pieces({x, y, lf}, 5)
    \cup Pieces({x, <<"NUL">>, <<"e1">>, <<"e2">>, <<"b1", "b2">>}, 2)

MCThreshold == <<1, 2>>

Read(ranges, budget, limit) == [ranges |-> ranges, budget |-> budget, limit |-> limit]
MCReads ==
  {Read(ranges, budget, limit) :
     ranges \in {<<>>, <<<<2, 2>>>>, <<<<3, 8>>, <<1, 1>>>>, <<<<2, 3>>, <<1, 1>>>>},
     budget \in {1, 9}, limit \in {0, 99}}
    \cup {Read(<<<<1, 2>>, <<2, 3>>>>, 9, 0), Read(<<<<0, 1>>>>, 9, 99)}

Replace1(old, new, all, fuzzy) == [old |-> old, new |-> new, all |-> all, fuzzy |-> fuzzy]
MCReplacements ==
  {Replace1(old, new, all, fuzzy) :
     old \in {x, x \o y, lf, x \o lf, x \o lf \o y, x \o cr \o lf \o x, Bom},
     new \in {<<>>, y, y \o lf \o x, lf \o lf \o lf \o lf \o lf},
     all \in BOOLEAN, fuzzy \in BOOLEAN}

Row(kind, text) == [kind |-> kind, text |-> text]
MCHunks ==
  {<<Row("-", x)>>, <<Row("-", x), Row("+", y), Row("+", y)>>,
   <<Row(" ", y), Row("-", <<>>)>>, <<Row("+", x), Row(" ", y)>>,
   <<Row("-", x \o x), Row(" ", y)>>, <<Row(" ", x)>>, <<Row("+", x)>>}
MCDiffs ==
  {[hunks |-> hunks, fuzzy |-> fuzzy] :
     hunks \in {<<h>> : h \in MCHunks} \cup MCHunks \X MCHunks, fuzzy \in BOOLEAN}
=============================================================================
