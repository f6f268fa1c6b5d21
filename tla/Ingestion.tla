------------------------------ MODULE Ingestion ------------------------------
(***************************************************************************)
(* Filling the vector store from files.                                    *)
(*                                                                         *)
(* ingest() (tools/rag/ingestion.py) drops the collection, reads every     *)
(* file of a directory tree, chunks and embeds them and adds all chunks at *)
(* once, under ids made of the file names.  RAG.load_documents             *)
(* (kuhaku/__init__.py) passes the files of one directory to RAG.ingest    *)
(* one at a time; each gets a random id, and nothing is dropped.  Neither  *)
(* looks at what the other does: programs run either at any time, files    *)
(* are edited meanwhile, and a call may fail or be killed at any step.     *)
(*                                                                         *)
(* A row of the store is [doc, index, text, tags]; its chunk is            *)
(* ChunksOf[strategy][text][index].  A text stands for what a file holds   *)
(* once it is sanitized.  The writer lock around each RAG.ingest is WriterLock's; it  *)
(* does not keep ingest() out, and is not held between two files.          *)
(***************************************************************************)
EXTENDS Chunking, Functions

CONSTANTS
    Workers,        \* the programs that call ingest or load_documents
    Paths,          \* the files, in sorted order
    Names,          \* per file: its stem, stem_suffix, stem_suffix_2, ...
    Scanned,        \* the files FileSystemLoader reads: .md .txt .json .xml .log
    Listed,         \* the files load_documents reads: .md .txt .pdf, not in subdirectories
    Pdfs,           \* those of Listed that are PDFs
    Texts,          \* what a file can hold
    Blocks,         \* the blocks of each text
    Undecodable,    \* texts that are not UTF-8, or not a readable PDF
    Unsafe,         \* texts that inspect_query refuses
    Absent,         \* there is no such file
    Disks,          \* the contents of the disk to start from
    Edits,          \* the edits that are made: pairs of a file and what it then holds
    UploadIds,      \* bound: the random ids uuid4 is going to return, in order
    ChunkSize, Overlap,
    MaxCalls,       \* bound: calls
    MaxEdits        \* bound: edits of a file

\* What a block of a text is.
CellTypes == {cell \in [row : Nat, column : Nat, from : Nat, to : Nat] : cell.from <= cell.to}
BlockTypes == [kind : {"heading", "prose", "table", "glossary"}, level : Nat, title : Nat,
               length : Nat, header : Seq(STRING), cells : Seq(CellTypes)]

\* A file never runs out of names: as many are listed as there are files.
ASSUME IngestionAssumption ==
    /\ Paths \in Seq(ToSet(Paths))
    /\ Scanned \cup Listed \subseteq ToSet(Paths)
    /\ \A f \in ToSet(Paths) :
          /\ Names[f] \in Seq(ToSet(Names[f]))
          /\ IsInjective(Names[f])
          /\ Len(Names[f]) >= Len(Paths)
          /\ ToSet(UploadIds) \cap ToSet(Names[f]) = {}
    /\ UploadIds \in Seq(ToSet(UploadIds)) /\ IsInjective(UploadIds)
    /\ Absent \notin Texts
    /\ Blocks \in [Texts -> Seq(BlockTypes)]
    /\ Disks \subseteq [ToSet(Paths) -> Texts \cup {Absent}]
    /\ ChunkSize \in Nat \ {0} /\ Overlap \in Nat
    /\ MaxCalls \in Nat /\ MaxEdits \in Nat

\* The tags a call is given: none, one role's, or a blank one.
Tags == {{}, {"hr"}, {""}}

\* build_chunker
ChunksOf ==
    [choice \in {"structural", "paragraph"} |-> [t \in Texts |->
        IF choice = "structural" THEN StructuralChunks(Blocks[t], ChunkSize, Overlap)
        ELSE ParagraphChunks(Blocks[t], ChunkSize, Overlap)]]

VARIABLES
    strategy,       \* chunking_strategy
    disk,           \* what each file holds
    rows,           \* the collection
    job,            \* what each worker is doing
    uploads,        \* how many random ids have been drawn
    calls, edits

\* History variables, read by no action.
VARIABLES
    indexed,        \* the documents a call has added since the collection was dropped
    mixed           \* the collection holds rows of two loads, as its callers asked

ingestVars == <<strategy, disk, rows, job, uploads, calls, edits, indexed, mixed>>

Idle == [at |-> "idle"]

IngestInit ==
    /\ strategy \in {"structural", "paragraph"}
    /\ disk \in Disks
    /\ rows = {}
    /\ job = [w \in Workers |-> Idle]
    /\ uploads = 0 /\ calls = 0 /\ edits = 0
    /\ indexed = {}
    /\ mixed = FALSE

Present == Among(Paths, {f \in ToSet(Paths) : disk[f] # Absent})

Calls(w) ==
    /\ job[w] = Idle
    /\ calls < MaxCalls
    /\ calls' = calls + 1

Continue(w, state) == job' = [job EXCEPT ![w] = state]

\* A document is [id, text].  Chroma keeps the row it has of an id.
RowsOf(doc, tags) ==
    {[doc |-> doc.id, index |-> n, text |-> doc.text, tags |-> tags] :
        n \in DOMAIN ChunksOf[strategy][doc.text]}

Known(row) == \E r \in rows : r.doc = row.doc /\ r.index = row.index

AddRows(docs, tags) ==
    /\ rows' = rows \cup {row \in UNION {RowsOf(d, tags) : d \in docs} : ~Known(row)}
    /\ indexed' = indexed \cup docs

IsUpload(id) == id \in ToSet(UploadIds)

CorpusRows == {row \in rows : ~IsUpload(row.doc)}

----------------------------------------------------------------------------
(***************************************************************************)
(* ingest()                                                                *)
(***************************************************************************)
\* Mutant: the collection is not dropped.
ResetNever(w, reset, tags) ==
    /\ Calls(w)
    /\ indexed' = IF reset THEN {} ELSE indexed
    /\ mixed' = (mixed /\ ~reset)
    /\ Continue(w, [at |-> "scan", files |-> Among(Present, Scanned),
                    docs |-> <<>>, tags |-> tags, keeps |-> ~reset, joined |-> FALSE])
    /\ UNCHANGED <<strategy, disk, rows, uploads, edits>>

\* The collection is dropped before anything is read or checked.
Reset(w, reset, tags) ==
    /\ Calls(w)
    /\ rows' = IF reset THEN {} ELSE rows
    /\ indexed' = IF reset THEN {} ELSE indexed
    /\ mixed' = (mixed /\ ~reset)
    /\ Continue(w, [at |-> "scan", files |-> Among(Present, Scanned),
                    docs |-> <<>>, tags |-> tags, keeps |-> ~reset, joined |-> FALSE])
    /\ UNCHANGED <<strategy, disk, uploads, edits>>

\* _unique_id
UniqueId(f, seen) == Names[f][Min({n \in DOMAIN Names[f] : Names[f][n] \notin seen})]

\* One file of FileSystemLoader.load; undecodable bytes are replaced.  A file that
\* is gone is skipped, unless it goes after is_file: then the load fails.
Scan(w) ==
    LET f    == Head(job[w].files)
        seen == {d.id : d \in ToSet(job[w].docs)}
    IN  /\ job[w].at = "scan"
        /\ job[w].files # <<>>
        /\ IF disk[f] = Absent
           THEN Continue(w, [job[w] EXCEPT !.files = Tail(@)]) \/ Continue(w, Idle)
           ELSE Continue(w, [job[w] EXCEPT
                    !.files = Tail(@),
                    !.docs  = Append(@, [id |-> UniqueId(f, seen), text |-> disk[f]])])
        /\ UNCHANGED <<strategy, disk, rows, uploads, calls, edits, indexed, mixed>>

\* _normalize_access_tags and the chunker; without a chunk there is nothing to
\* embed, and the call returns 0.
Chunked(w) ==
    /\ job[w].at = "scan"
    /\ job[w].files = <<>>
    /\ Continue(w, IF "" \in job[w].tags \/ \A d \in ToSet(job[w].docs) : ChunksOf[strategy][d.text] = <<>>
                   THEN Idle ELSE [job[w] EXCEPT !.at = "embed"])
    /\ UNCHANGED <<strategy, disk, rows, uploads, calls, edits, indexed, mixed>>

\* Whoever else is between dropping the collection and filling it adds to this.
Joining(w) ==
    [v \in Workers |-> IF v = w THEN Idle
                       ELSE IF job[v].at \in {"scan", "embed"} THEN [job[v] EXCEPT !.joined = TRUE]
                       ELSE job[v]]

\* embed_documents has returned: store.add
AddCorpus(w) ==
    /\ job[w].at = "embed"
    /\ AddRows(ToSet(job[w].docs), job[w].tags)
    /\ mixed' = (mixed \/ job[w].joined \/ (job[w].keeps /\ CorpusRows # {}))
    /\ job' = Joining(w)
    /\ UNCHANGED <<strategy, disk, uploads, calls, edits>>

----------------------------------------------------------------------------
(***************************************************************************)
(* RAG.load_documents                                                      *)
(***************************************************************************)
ListFiles(w, tags) ==
    /\ Calls(w)
    /\ Continue(w, [at |-> "batch", files |-> Among(Present, Listed),
                    tags |-> tags])
    /\ UNCHANGED <<strategy, disk, rows, uploads, edits, indexed, mixed>>

\* A file that cannot be decoded is skipped; a blank PDF raises EmptyContent,
\* and a file that is gone OSError, which end the batch.
ReadListed(w) ==
    LET f    == Head(job[w].files)
        rest == [job[w] EXCEPT !.files = Tail(@)]
    IN  /\ job[w].at = "batch"
        /\ job[w].files # <<>>
        /\ Continue(w,
              CASE disk[f] = Absent -> Idle
                [] disk[f] \in Undecodable -> rest
                [] f \in Pdfs /\ disk[f] \notin Undecodable /\ Blocks[disk[f]] = <<>> -> Idle
                [] OTHER -> [at |-> "single", files |-> Tail(job[w].files), tags |-> job[w].tags,
                             text |-> disk[f]])
        /\ UNCHANGED <<strategy, disk, rows, uploads, calls, edits, indexed, mixed>>

\* ingest_single_document, which raises before it adds anything: the batch ends.
IngestSingle(w) ==
    LET doc   == [id |-> UploadIds[uploads + 1], text |-> job[w].text]
        rest  == [at |-> "batch", files |-> job[w].files, tags |-> job[w].tags]
    IN  /\ job[w].at = "single"
        /\ uploads < Len(UploadIds)
        /\ IF "" \in job[w].tags \/ job[w].text \in Unsafe
           THEN Continue(w, Idle) /\ UNCHANGED <<rows, indexed, uploads>>
           ELSE /\ AddRows({doc}, job[w].tags)
                /\ uploads' = uploads + 1
                /\ Continue(w, rest)
        /\ UNCHANGED <<strategy, disk, calls, edits, mixed>>

BatchReturns(w) ==
    /\ job[w].at = "batch"
    /\ job[w].files = <<>>
    /\ Continue(w, Idle)
    /\ UNCHANGED <<strategy, disk, rows, uploads, calls, edits, indexed, mixed>>

----------------------------------------------------------------------------
\* The embedding provider, the disk or the lock refuses, or the program is
\* killed: what has been dropped or added stays so.
Fail(w) ==
    /\ job[w] # Idle
    /\ Continue(w, Idle)
    /\ UNCHANGED <<strategy, disk, rows, uploads, calls, edits, indexed, mixed>>

Edit(f, text) ==
    /\ edits < MaxEdits
    /\ <<f, text>> \in Edits
    /\ disk[f] # text
    /\ disk' = [disk EXCEPT ![f] = text]
    /\ edits' = edits + 1
    /\ UNCHANGED <<strategy, rows, job, uploads, calls, indexed, mixed>>

IngestNext ==
    \/ \E w \in Workers, tags \in Tags :
          (\E reset \in BOOLEAN : Reset(w, reset, tags)) \/ ListFiles(w, tags)
    \/ \E w \in Workers :
          \/ Scan(w) \/ Chunked(w) \/ AddCorpus(w)
          \/ ReadListed(w) \/ IngestSingle(w) \/ BatchReturns(w)
          \/ Fail(w)
    \/ \E f \in ToSet(Paths), text \in Texts \cup {Absent} : Edit(f, text)

IngestSpec == IngestInit /\ [][IngestNext]_ingestVars

----------------------------------------------------------------------------
\* The phrases of a block: whatever is as long as the overlap, or is all of it.
PhrasesOf(doc, i) ==
    LET length == Smaller(doc[i].length, PhraseBound(ChunkSize, Overlap))
    IN  {[block |-> i, from |-> at, to |-> at + length] : at \in 0 .. (doc[i].length - length)}

\* A cell of a row that stands under a heading no other column has.
HasItsColumn(table, cell) ==
    /\ cell.column \in DOMAIN table.header
    /\ \A other \in DOMAIN table.header :
          table.header[other] = table.header[cell.column] => other = cell.column

\* The cells of a table that the structural chunker is to keep.
CellsOf(doc, i) ==
    {[block |-> i, from |-> cell.from, to |-> cell.to] :
        cell \in {c \in ToSet(doc[i].cells) : c.row = 0 \/ HasItsColumn(doc[i], c)}}

\* What is to be found of a text, prose, tables and glossary lines alike.
Phrases ==
    [choice \in DOMAIN ChunksOf |-> [t \in Texts |->
        UNION {IF choice = "structural" /\ Blocks[t][i].kind = "table"
               THEN CellsOf(Blocks[t], i) ELSE PhrasesOf(Blocks[t], i) :
                   i \in {j \in DOMAIN Blocks[t] : Blocks[t][j].kind # "heading"}}]]

\* Those that stand uncut in each chunk.
FoundIn ==
    [choice \in DOMAIN ChunksOf |-> [t \in Texts |-> [n \in DOMAIN ChunksOf[choice][t] |->
        {phrase \in Phrases[choice][t] :
            \E p \in ToSet(ChunksOf[choice][t][n].pieces) :
                p.block = phrase.block /\ p.from <= phrase.from /\ phrase.to <= p.to}]]]

\* What the prose, the glossary and the tables of an added document say can be
\* found in the store: no file loses its id to another, no window, section or
\* batch leaves text out, and no phrase as short as the overlap is cut in two.
\* Of a table the structural chunker promises the header and the cells under a
\* heading of their own.  It takes callers that do not put one load into another
\* (chunking.py, _unique_id, ingest).
TextIsIndexed ==
    /\ \A w \in Workers : job[w].at = "embed" =>
          \A m, n \in DOMAIN job[w].docs : job[w].docs[m].id = job[w].docs[n].id => m = n
    /\ ~mixed => \A doc \in indexed :
          LET own == {row \in rows : row.doc = doc.id /\ row.text = doc.text}
          IN  UNION {FoundIn[strategy][row.text][row.index] : row \in own} = Phrases[strategy][doc.text]

\* The corpus part of the store is nothing or all of one load, under one set of
\* tags: never a part of it, never a document of an earlier one, whatever fails
\* in between (ingest with reset, FileSystemLoader.load).
CorpusIsOneLoad ==
    ~mixed =>
        LET docs == {d \in indexed : ~IsUpload(d.id)}
        IN  \E tags \in Tags : CorpusRows = UNION {RowsOf(d, tags) : d \in docs}

\* Whether a chunk stands in the section it came from.
InItsSection(doc, chunk) ==
    LET blocks == {chunk.pieces[n].block : n \in DOMAIN chunk.pieces}
    IN  /\ \A i, j \in blocks : HeadingsAbove(doc, i) = HeadingsAbove(doc, j)
        /\ chunk.kind = "prose" =>
              /\ \A i \in blocks : ToSet(chunk.path) = HeadingsAbove(doc, i)
              /\ \A m, n \in DOMAIN chunk.path : m < n => chunk.path[m] < chunk.path[n]

Faithful ==
    [choice \in DOMAIN ChunksOf |-> [t \in Texts |->
        {n \in DOMAIN ChunksOf[choice][t] :
            choice = "structural" => InItsSection(Blocks[t], ChunksOf[choice][t][n])}]]

\* A structural chunk never joins two sections, and names the headings above its
\* text, in order (StructuralChunker, _split_by_headings).
ChunksAreFaithful == \A row \in rows : row.index \in Faithful[strategy][row.text]

Sized ==
    [choice \in DOMAIN ChunksOf |-> [t \in Texts |->
        {n \in DOMAIN ChunksOf[choice][t] :
            KeepsToSize(Blocks[t], ChunksOf[choice][t][n], ChunkSize)}]]

\* A stored chunk of prose is longer than chunk_size by no more than the headings
\* in front of it, and one of several glossary entries by no more than the spaces
\* that are not counted (_pack_paragraphs, _batch_glossary).
ChunksKeepToSize == \A row \in rows : row.index \in Sized[strategy][row.text]
=============================================================================
