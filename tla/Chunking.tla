------------------------------- MODULE Chunking -------------------------------
(***************************************************************************)
(* The two chunkers (kuhaku/tools/rag/chunking.py).  A document is a       *)
(* sequence of blocks: a heading of level 1 to 3, a paragraph of prose, a  *)
(* Markdown table or a glossary line, each with the length of its text (a  *)
(* glossary line with the length of its entry as JSON), a heading with the *)
(* length of its title, a table with the names of its columns and its      *)
(* cells, [row, column, from, to], of which row 0 is the header.           *)
(* A piece of text is [block, from, to]; a chunk is [kind, path, pieces],  *)
(* where path holds the headings put in front of it.                       *)
(***************************************************************************)
EXTENDS Naturals, Sequences, SequencesExt, FiniteSetsExt

Larger(a, b) == IF a > b THEN a ELSE b
Smaller(a, b) == IF a < b THEN a ELSE b

Whole(doc, i) == [block |-> i, from |-> 0, to |-> doc[i].length]
Size(piece) == piece.to - piece.from

\* The elements of s that are in S, in their order.
Among(s, S) ==
    LET upTo[n \in 0 .. Len(s)] ==
            IF n = 0 THEN <<>> ELSE IF s[n] \in S THEN Append(upTo[n - 1], s[n]) ELSE upTo[n - 1]
    IN  upTo[Len(s)]

Total(pieces) ==
    LET upTo[n \in 0 .. Len(pieces)] == IF n = 0 THEN 0 ELSE upTo[n - 1] + Size(pieces[n])
    IN  upTo[Len(pieces)]

\* The length of pieces that are joined by a blank line.
Joined(pieces) == Total(pieces) + (IF pieces = <<>> THEN 0 ELSE 2 * (Len(pieces) - 1))

Chunk(kind, path, pieces) == [kind |-> kind, path |-> path, pieces |-> pieces]

----------------------------------------------------------------------------
(***************************************************************************)
(* Windows of prose.                                                       *)
(***************************************************************************)
\* Mutant: the stride leaves the overlap out instead of repeating it.
StrideSkipping(size, overlap) == size + overlap

Stride(size, overlap) == Larger(1, size - (IF overlap < size THEN overlap ELSE size))

\* A paragraph that is too long: windows of the full size, one stride apart,
\* for as long as one starts within the paragraph.
HardSplit(piece, size, overlap) ==
    LET stride == Stride(size, overlap)
    IN  [n \in 1 .. ((Size(piece) - 1) \div stride) + 1 |->
            <<[piece EXCEPT !.from = (n - 1) * stride,
                            !.to = Smaller(piece.to, (n - 1) * stride + size)]>>]

\* The last window is still open in "buffer".
Flushed(packed) ==
    IF packed.buffer = <<>> THEN packed.windows ELSE Append(packed.windows, packed.buffer)

\* Two characters are reserved for the blank line even where the buffer is empty.
PackStep(packed, piece, size, overlap) ==
    IF Joined(packed.buffer) + Size(piece) + 2 <= size
    THEN [packed EXCEPT !.buffer = Append(@, piece)]
    ELSE IF Size(piece) <= size
    THEN [windows |-> Flushed(packed), buffer |-> <<piece>>]
    ELSE [windows |-> Flushed(packed) \o HardSplit(piece, size, overlap), buffer |-> <<>>]

\* _pack_paragraphs
Pack(pieces, size, overlap) ==
    LET upTo[n \in 0 .. Len(pieces)] ==
            IF n = 0 THEN [windows |-> <<>>, buffer |-> <<>>]
            ELSE PackStep(upTo[n - 1], pieces[n], size, overlap)
    IN  Flushed(upTo[Len(pieces)])

\* ParagraphChunker: headings, tables and glossary lines are paragraphs too.
ParagraphChunks(doc, size, overlap) ==
    LET windows == Pack([i \in 1 .. Len(doc) |-> Whole(doc, i)], size, overlap)
    IN  [n \in 1 .. Len(windows) |-> Chunk("prose", <<>>, windows[n])]

----------------------------------------------------------------------------
(***************************************************************************)
(* StructuralChunker.                                                      *)
(***************************************************************************)
Flush(split) ==
    IF split.body = <<>> THEN split.sections
    ELSE Append(split.sections, [path |-> split.stack, body |-> split.body])

\* The top of the stack is popped for as long as "pops" holds of it.
Popped(stack, pops) ==
    SubSeq(stack, 1, Max({n \in 0 .. Len(stack) : n = 0 \/ stack[n] \notin pops}))

\* Mutant: a heading replaces the one before it only if that is of its level.
EnterSameLevel(doc, stack, i) ==
    Append(Popped(stack, {h \in 1 .. (i - 1) : doc[h].level = doc[i].level}), i)

\* The headings above a new one: those of a higher rank stay.
Enter(doc, stack, i) ==
    Append(Popped(stack, {h \in 1 .. (i - 1) : doc[h].level >= doc[i].level}), i)

SplitStep(doc, split, i) ==
    IF doc[i].kind = "heading"
    THEN [sections |-> Flush(split), stack |-> Enter(doc, split.stack, i), body |-> <<>>]
    ELSE [split EXCEPT !.body = Append(@, i)]

\* _split_by_headings; a heading with nothing under it yields no section.
Sections(doc) ==
    LET upTo[i \in 0 .. Len(doc)] ==
            IF i = 0 THEN [sections |-> <<>>, stack |-> <<>>, body |-> <<>>]
            ELSE SplitStep(doc, upTo[i - 1], i)
    IN  Flush(upTo[Len(doc)])

\* An entry is counted with one comma, though json.dumps puts ", " between two.
Counted(piece) == Size(piece) + 1

\* Mutant: the entry that opens a batch is not counted.
BatchStepUncounted(acc, piece, size) ==
    IF acc.current # <<>> /\ acc.length + Counted(piece) > size
    THEN [batches |-> Append(acc.batches, acc.current), current |-> <<piece>>, length |-> 2]
    ELSE [acc EXCEPT !.current = Append(@, piece), !.length = @ + Counted(piece)]

BatchStep(acc, piece, size) ==
    IF acc.current # <<>> /\ acc.length + Counted(piece) > size
    THEN [batches |-> Append(acc.batches, acc.current), current |-> <<piece>>, length |-> 2 + Counted(piece)]
    ELSE [acc EXCEPT !.current = Append(@, piece), !.length = @ + Counted(piece)]

\* _batch_glossary; the brackets take two characters.
Batches(pieces, size) ==
    LET upTo[n \in 0 .. Len(pieces)] ==
            IF n = 0 THEN [batches |-> <<>>, current |-> <<>>, length |-> 2]
            ELSE BatchStep(upTo[n - 1], pieces[n], size)
        all == upTo[Len(pieces)]
    IN  IF all.current = <<>> THEN all.batches ELSE Append(all.batches, all.current)

\* The blocks of a section that are of one kind.
OfKind(doc, section, kind) ==
    LET found == Among(section.body, {i \in 1 .. Len(doc) : doc[i].kind = kind})
    IN  [n \in 1 .. Len(found) |-> Whole(doc, found[n])]

\* Each row becomes a dictionary: a cell beyond the header is cut off, and of two
\* columns of one name the later one stays.
Kept(table, cell) ==
    \/ cell.row = 0
    \/ /\ cell.column \in DOMAIN table.header
       /\ \A later \in DOMAIN table.header :
             later > cell.column => table.header[later] # table.header[cell.column]

\* _parse_markdown_table
KeptCells(doc, i) ==
    LET kept == Among(doc[i].cells, {cell \in ToSet(doc[i].cells) : Kept(doc[i], cell)})
    IN  [n \in 1 .. Len(kept) |-> [block |-> i, from |-> kept[n].from, to |-> kept[n].to]]

\* Tables as they are met, then the windows of prose, then the glossary.
SectionChunks(doc, section, size, overlap) ==
    LET tables  == OfKind(doc, section, "table")
        windows == Pack(OfKind(doc, section, "prose"), size, overlap)
        batches == Batches(OfKind(doc, section, "glossary"), size)
    IN  [n \in 1 .. Len(tables) |-> Chunk("table", <<>>, KeptCells(doc, tables[n].block))]
        \o [n \in 1 .. Len(windows) |-> Chunk("prose", section.path, windows[n])]
        \o [n \in 1 .. Len(batches) |-> Chunk("glossary", <<>>, batches[n])]

StructuralChunks(doc, size, overlap) ==
    LET sections == Sections(doc)
        upTo[n \in 0 .. Len(sections)] ==
            IF n = 0 THEN <<>> ELSE upTo[n - 1] \o SectionChunks(doc, sections[n], size, overlap)
    IN  upTo[Len(sections)]

----------------------------------------------------------------------------
(***************************************************************************)
(* What the chunks of a document are for.                                  *)
(***************************************************************************)
\* As much as two windows share, or else a character: never more than one holds.
PhraseBound(size, overlap) == Smaller(size, Larger(1, overlap))

\* The headings a reader sees above block i.
HeadingsAbove(doc, i) ==
    {h \in 1 .. (i - 1) :
        /\ doc[h].kind = "heading"
        /\ \A other \in (h + 1) .. (i - 1) :
              doc[other].kind = "heading" => doc[other].level > doc[h].level}

\* The length of what is put in front of a window: the titles, " > " between two
\* of them, and a blank line.
Prefix(doc, path) ==
    LET titles == [n \in 1 .. Len(path) |-> [block |-> path[n], from |-> 0, to |-> doc[path[n]].title]]
    IN  IF path = <<>> THEN 0 ELSE Total(titles) + 3 * (Len(path) - 1) + 2

\* The length of a chunk as it is stored: a window under its headings, or the
\* entries of a batch with ", " between two of them, in brackets.
Written(doc, chunk) ==
    IF chunk.kind = "prose" THEN Prefix(doc, chunk.path) + Joined(chunk.pieces)
    ELSE 2 + Total(chunk.pieces) + 2 * (Len(chunk.pieces) - 1)

\* What a stored chunk may be longer than chunk_size by: its headings, or the
\* spaces in a batch, but for two of the entries.
KeepsToSize(doc, chunk, size) ==
    /\ chunk.kind = "prose" => Written(doc, chunk) <= size + Prefix(doc, chunk.path)
    /\ chunk.kind = "glossary" /\ Len(chunk.pieces) > 1 =>
          Written(doc, chunk) <= size + Len(chunk.pieces) - 2

=============================================================================
