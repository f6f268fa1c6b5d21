----------------------------- MODULE MCIngestion -----------------------------
(***************************************************************************)
(* Two programs and four files, two of which share a stem; the second name *)
(* of the third is the stem of another.                                    *)
(***************************************************************************)
EXTENDS Ingestion, TLC

CONSTANTS w1, w2

MCPaths == <<"a.md", "b/a_txt.md", "c/a.txt", "p.pdf">>

MCNames ==
    "a.md"       :> <<"a", "a_md", "a_md_2", "a_md_3">> @@
    "b/a_txt.md" :> <<"a_txt", "a_txt_md", "a_txt_md_2", "a_txt_md_3">> @@
    "c/a.txt"    :> <<"a", "a_txt", "a_txt_2", "a_txt_3">> @@
    "p.pdf"      :> <<"p", "p_pdf", "p_pdf_2", "p_pdf_3">>

Block(kind, length) ==
    [kind |-> kind, level |-> 0, title |-> 0, length |-> length, header |-> <<>>, cells |-> <<>>]
Heading(level) == [Block("heading", 2 + level) EXCEPT !.level = level, !.title = 1]

Cell(row, column, at) == [row |-> row, column |-> column, from |-> at, to |-> at + 1]

\* Two of its three columns have one name, and its row a cell too many.
Table ==
    [Block("table", 20) EXCEPT
        !.header = <<"x", "y", "x">>,
        !.cells  = <<Cell(0, 1, 1), Cell(0, 2, 3), Cell(0, 3, 5),
                     Cell(1, 1, 12), Cell(1, 2, 14), Cell(1, 3, 16), Cell(1, 4, 18)>>]

MCBlocks ==
    "report" :> <<Block("prose", 2), Heading(2), Block("glossary", 2), Block("prose", 9),
                  Block("glossary", 1), Block("glossary", 2), Block("glossary", 3),
                  Heading(3), Block("prose", 1), Block("prose", 2), Table,
                  Heading(1), Block("prose", 6), Block("prose", 1), Block("glossary", 2)>> @@
    "note"   :> <<Heading(1), Heading(2), Block("prose", 3)>> @@
    "blank"  :> <<>> @@
    "image"  :> <<Block("prose", 1)>> @@
    "unsafe" :> <<Block("prose", 2)>>

MCDisks ==
    {"a.md" :> "report" @@ "b/a_txt.md" :> "note" @@ "c/a.txt" :> "note" @@ "p.pdf" :> "blank",
     "a.md" :> "image" @@ "b/a_txt.md" :> "unsafe" @@ "c/a.txt" :> "Absent" @@ "p.pdf" :> "note"}

MCEdits ==
    {<<"a.md", "note">>, <<"a.md", "Absent">>, <<"c/a.txt", "report">>, <<"p.pdf", "report">>}

MCUploadIds == <<"upload_1", "upload_2", "upload_3">>

SymmetryWorkers == Permutations({w1, w2})
=============================================================================
