------------------------------ MODULE TaskFile ------------------------------
(***************************************************************************)
(* The submission of a task file: the constructor of node/master/Task.java *)
(* under MasterNode.submitTask, which is synchronized, with the URL filter *)
(* that the default parser is wrapped in (TaskFileParseProxyFacotry) and   *)
(* what FileServer then tells the client.                                  *)
(*                                                                         *)
(* A line is its URL.  A blank line, which the parser skips, is a URL that *)
(* was seen long ago.  A path is a day and a file name, which is what the  *)
(* file of the parsed rows is called; it is opened for appending.          *)
(* A Bad... definition is a faulty variant of the one that follows it.     *)
(***************************************************************************)
EXTENDS Integers, Sequences

CONSTANTS
  Url, Path,
  Chunk,           \* Task.java:84, 1000000 in the code
  SizeLimit,       \* Task.java:149, 10000 in the code
  Given,           \* the block sizes that callers ask for
  Null,            \* none is asked for: the constructor computes one
  MaxSlaves,       \* bound: slaves the master may have cached
  MaxLines,        \* bound: lines of a task file
  MaxSubmissions,  \* bound: submitted files
  HeapBlocks       \* bound: blocks that the heap has room for

ASSUME FileAssumption ==
  /\ Chunk \in Nat \ {0} /\ SizeLimit \in Nat \ {0}
  /\ Null \notin Int /\ Given \subseteq Int \cup {Null}
  /\ MaxSlaves \in Nat /\ MaxLines \in Nat /\ MaxSubmissions \in Nat /\ HeapBlocks \in Nat

VARIABLES
  seen,    \* the URLs in the filter's database
  files,   \* the files of parsed rows, each row with the number of its submission
  past,    \* the submissions that have ended
  job      \* the constructor that is running

vars == <<seen, files, past, job>>

Idle == [at |-> "idle"]

Init ==
  /\ seen \in SUBSET Url
  /\ files = [p \in Path |-> <<>>]
  /\ past = <<>>
  /\ job = Idle

-----------------------------------------------------------------------------
(* The lines of the file, the size that the caller asks for and the number *)
(* of slaves are chosen where the constructor first uses them.             *)

\* submitTask for a file of the name and day p.  lines, offset and known are
\* history: the lines read, and the rows in the file and the URLs in the filter
\* when the submission began.
SubmitTask(p) ==
  /\ job = Idle /\ Len(past) < MaxSubmissions
  /\ job' = [at |-> "read", path |-> p, offset |-> Len(files[p]), known |-> seen, lines |-> <<>>,
             floor |-> 0, temp |-> <<>>, last |-> FALSE, reqs |-> <<>>, totalRow |-> 0,
             rowPerBlock |-> Null, modcount |-> 1, blocks |-> <<>>]
  /\ UNCHANGED <<seen, files, past>>

\* The constructor returns or throws, and the client is told.
End(outcome, blocks) ==
  /\ past' = Append(past, [path |-> job.path, outcome |-> outcome, blocks |-> blocks,
                           totalRow |-> job.totalRow, offset |-> job.offset,
                           urls |-> {job.lines[i] : i \in 1 .. Len(job.lines)}])
  /\ job' = Idle

-----------------------------------------------------------------------------
(* Reading, in chunks that a temporary file collects.                      *)

No == Len(job.lines) + 1     \* no, for the line that is being read

BadInChunkLong == job.floor < No /\ No <= job.floor + Chunk + 1
BadInChunk == job.floor < No /\ No < job.floor + Chunk
InChunk == job.floor < No /\ No <= job.floor + Chunk

ReadLine(url) ==
  /\ job.at = "read" /\ No <= MaxLines /\ InChunk
  /\ job' = [job EXCEPT !.lines = Append(@, url), !.temp = Append(@, url)]
  /\ UNCHANGED <<seen, files, past>>

\* The line that does not fit is read, and has the chunk before it parsed.
CutChunk(url) ==
  /\ job.at = "read" /\ No <= MaxLines /\ ~InChunk
  /\ job' = [job EXCEPT !.lines = Append(@, url), !.at = "parse"]
  /\ UNCHANGED <<seen, files, past>>

EndOfFile ==
  /\ job.at = "read"
  /\ job' = [job EXCEPT !.at = "parse", !.last = TRUE]
  /\ UNCHANGED <<seen, files, past>>

BadIsNew(url) == \A i \in 1 .. Len(job.reqs) : job.reqs[i] # url
IsNew(url) == url \notin seen

\* The parser's requests are put to the filter one by one and stay if they
\* were not in it.
ParseLine ==
  /\ job.at = "parse" /\ job.temp # <<>>
  /\ LET url == Head(job.temp)
     IN /\ seen' = seen \cup {url}
        /\ job' = [job EXCEPT !.temp = Tail(@),
                              !.reqs = IF IsNew(url) THEN Append(@, url) ELSE @]
  /\ UNCHANGED <<files, past>>

Row(url) == [url |-> url, by |-> Len(past) + 1]
Rows(urls) == [i \in 1 .. Len(urls) |-> Row(urls[i])]

BadAppended(f, rows) == rows
Appended(f, rows) == f \o rows

\* The chunk's requests are counted and written.
WriteRows ==
  /\ job.at = "parse" /\ job.temp = <<>>
  /\ files' = [files EXCEPT ![job.path] = Appended(@, Rows(job.reqs))]
  /\ job' = [job EXCEPT !.totalRow = @ + Len(job.reqs), !.reqs = <<>>,
                        !.floor = IF job.last THEN @ ELSE @ + Chunk,
                        !.at = IF job.last THEN "size" ELSE "read"]
  /\ UNCHANGED <<seen, past>>

\* Reading the file or writing the chunk fails: FileServer sends
\* task_submit_fail, and what the filter has taken in stays there.
ReadFails ==
  /\ job.at = "read"
  /\ End("failed", <<>>)
  /\ UNCHANGED <<seen, files>>

WriteFails ==
  /\ job.at = "parse" /\ job.temp = <<>>
  /\ \E n \in 0 .. Len(job.reqs) :
        files' = [files EXCEPT ![job.path] = @ \o Rows(SubSeq(job.reqs, 1, n))]
  /\ End("failed", <<>>)
  /\ UNCHANGED seen

-----------------------------------------------------------------------------
(* The number of rows of a block.                                          *)

\* No row is left: FileServer recognises the message of the exception and
\* sends crawl_finish_msg.
NothingNew ==
  /\ job.at = "size" /\ job.totalRow = 0
  /\ End("finished", <<>>)
  /\ UNCHANGED <<seen, files>>

ChooseRows(rows, slaves) ==
  /\ job.at = "size" /\ job.totalRow > 0
  /\ LET modcount == IF slaves = 0 THEN 1 ELSE slaves
     IN job' = IF rows = Null
               THEN [job EXCEPT !.at = "shrink", !.modcount = modcount,
                                !.rowPerBlock = job.totalRow \div modcount]
               ELSE [job EXCEPT !.at = "cut", !.rowPerBlock = rows]
  /\ UNCHANGED <<seen, files, past>>

\* With one slave the division changes nothing and is repeated for ever.
ShrinkRows ==
  /\ job.at = "shrink"
  /\ job' = IF job.rowPerBlock > SizeLimit
            THEN [job EXCEPT !.rowPerBlock = @ \div job.modcount]
            ELSE [job EXCEPT !.at = "cut"]
  /\ UNCHANGED <<seen, files, past>>

-----------------------------------------------------------------------------
(* The queue of blocks.                                                    *)

BadBlocksLeft == job.rowPerBlock > 0 => (Len(job.blocks) + 1) * job.rowPerBlock <= job.totalRow
\* blockid < blockCount, which is the rounded-up quotient; no row per block
\* makes that infinite, and as an int the largest one.
BlocksLeft == job.rowPerBlock > 0 => (Len(job.blocks) + 1) * job.rowPerBlock < job.totalRow

\* A negative number of rows makes the queue's capacity negative, or zero.
QueueRefused ==
  /\ job.at = "cut" /\ job.rowPerBlock < 0
  /\ End("failed", <<>>)
  /\ UNCHANGED <<seen, files>>

\* Block number b of those that are full.
FullBlock(b) == [start |-> (b - 1) * job.rowPerBlock + 1, end |-> b * job.rowPerBlock,
                 size |-> job.rowPerBlock]

AddBlock ==
  /\ job.at = "cut" /\ job.rowPerBlock >= 0 /\ BlocksLeft
  /\ Len(job.blocks) < HeapBlocks
  /\ job' = [job EXCEPT !.blocks = Append(@, FullBlock(Len(job.blocks) + 1))]
  /\ UNCHANGED <<seen, files, past>>

\* An Error is no Exception: the client is told nothing.
OutOfMemory ==
  /\ job.at = "cut" /\ job.rowPerBlock >= 0 /\ BlocksLeft
  /\ Len(job.blocks) = HeapBlocks
  /\ End("untold", <<>>)
  /\ UNCHANGED <<seen, files>>

LastBlock(before) == [start |-> before + 1, end |-> job.totalRow, size |-> job.totalRow - before]

AddLastBlock ==
  /\ job.at = "cut" /\ job.rowPerBlock >= 0 /\ ~BlocksLeft
  /\ End("submitted", Append(job.blocks, LastBlock(Len(job.blocks) * job.rowPerBlock)))
  /\ UNCHANGED <<seen, files>>

Step ==
  \/ \E url \in Url : ReadLine(url) \/ CutChunk(url)
  \/ EndOfFile \/ ParseLine \/ WriteRows \/ ReadFails \/ WriteFails \/ NothingNew
  \/ \E rows \in Given, slaves \in 0 .. MaxSlaves : ChooseRows(rows, slaves)
  \/ ShrinkRows \/ QueueRefused \/ AddBlock \/ OutOfMemory \/ AddLastBlock

Next == (\E p \in Path : SubmitTask(p)) \/ Step

Spec == Init /\ [][Next]_vars

-----------------------------------------------------------------------------
(* Properties.                                                             *)

BlockType == [start : Int, end : Int, size : Int]

Submission ==
  [path : Path, outcome : {"submitted", "finished", "failed", "untold"}, urls : SUBSET Url,
   totalRow : Nat, offset : Nat, blocks : Seq(BlockType)]

Running ==
  [at : {"read", "parse", "size", "shrink", "cut"}, path : Path, offset : Nat,
   known : SUBSET Url, lines : Seq(Url), floor : Nat, temp : Seq(Url), last : BOOLEAN,
   reqs : Seq(Url), totalRow : Nat, rowPerBlock : Int \cup {Null}, modcount : Nat \ {0},
   blocks : Seq(BlockType)]

\* Type correctness of the files, the filter, the submissions and the running
\* constructor, whose temporary file never has more lines than a chunk.
TypeOK ==
  /\ seen \subseteq Url
  /\ files \in [Path -> Seq([url : Url, by : Nat])]
  /\ past \in Seq(Submission)
  /\ job \in Running \cup {Idle}
  /\ job # Idle => Len(job.temp) <= Chunk

Submitted == {s \in 1 .. Len(past) : past[s].outcome = "submitted"}

\* A URL is a row at most once: not twice in a file, not in two chunks of one,
\* not in two tasks (TaskFileParseProxyFacotry.java:61-71, BdbUriUniqFilter.java:250-263).
UrlOnce ==
  \A p, q \in Path : \A i \in 1 .. Len(files[p]), j \in 1 .. Len(files[q]) :
     files[p][i].url = files[q][j].url => p = q /\ i = j

\* The blocks of a task follow one another without gap or overlap from row 1 to
\* its last row, none is empty, and each has the size that finishedRows will
\* count (Task.java:153-180): the sizes add up to totalRow.
BlocksTile ==
  \A s \in Submitted :
    LET bs == past[s].blocks
    IN /\ bs # <<>> /\ bs[1].start = 1 /\ bs[Len(bs)].end = past[s].totalRow
       /\ \A i \in 1 .. Len(bs) : bs[i].size = bs[i].end - bs[i].start + 1 /\ bs[i].size > 0
       /\ \A i \in 2 .. Len(bs) : bs[i].start = bs[i - 1].end + 1

\* The rows of a task are one piece of its file, in the order of its lines, and
\* whatever else is submitted they stay there: the blocks of the first task of
\* a file are its own rows (Task.java:106-112,129-134).
RowsStayTogether ==
  \A s \in Submitted : LET f == files[past[s].path] IN
    /\ past[s].offset + past[s].totalRow <= Len(f)
    /\ \A r \in 1 .. past[s].totalRow : f[past[s].offset + r].by = s

\* The lines that are the first too many of a chunk.
Cut(i) == i > 1 /\ (i - 1) % Chunk = 0

\* When the file is read there is a row for every URL in it that was new, except
\* for those only on a line at which a chunk is cut, and for no other
\* (Task.java:94-137).
NewUrlsBecomeRows ==
  job.at \in {"size", "shrink", "cut"} =>
    LET f == files[job.path]
    IN {f[r].url : r \in job.offset + 1 .. Len(f)}
         = {job.lines[i] : i \in {i \in 1 .. Len(job.lines) : ~Cut(i)}} \ job.known

=============================================================================
