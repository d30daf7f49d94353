--------------------------------- MODULE Cli ---------------------------------
(***************************************************************************)
(* The command line driver bk (bk-cli/src/main.rs): it takes its arguments *)
(* one by one, reads every input, lists each into one document in the      *)
(* order of the arguments, and prints the document or writes its pages.    *)
(*                                                                         *)
(* More than two inputs are read by a pool of threads (rayon), so reads    *)
(* complete in any order and which of several failures is reported is open.*)
(* A file is abstracted to whether it can be read and what listing it      *)
(* comes to; a page to its number, and whether it can be drawn and written.*)
(***************************************************************************)
EXTENDS Pagination, Totals, SequencesExt

CONSTANTS
    CommandLines,       \* the command lines: [command, args]
    FileNames,          \* the arguments that name a file of the disk
    Numbers,            \* the number an argument parses to, of those that do
    Disks,              \* what the file system can be: see Disk
    ParallelThreshold,  \* PARALLEL_THRESHOLD
    DefaultPageRows     \* ViewOptions::DEFAULT_PAGE_ROWS

\* A file: whether it reads, as text if need be, whether it lists to its end,
\* and how many rows and opcodes that comes to.
File == [reads : BOOLEAN, text : BOOLEAN, lists : BOOLEAN, rows : Nat, opcodes : Nat]

\* A disk: the inputs, whether the font is one, and, counted from zero, a page
\* too large to draw and one that cannot be written: it is full when it comes to
\* that page, or its file cannot even be created.
Disk == [files : [FileNames -> File], font : BOOLEAN,
         undrawn : Nat, unwritable : Nat, full : BOOLEAN]

ASSUME CliAssumption ==
    /\ Disks \subseteq Disk
    /\ ParallelThreshold \in Nat
    /\ DefaultPageRows \in Nat \ {0}
    /\ \A n \in DOMAIN Numbers : Numbers[n] \in Nat

VARIABLES
    command,    \* the first argument
    rest,       \* the arguments parse has not looked at
    disk,
    options,    \* Options
    stage,      \* what run does next
    reads,      \* of each input, "waiting", "read" or "failed"
    bytes,      \* what was read, as far as it is collected
    rows,       \* the lines ended in the builder
    total,      \* Stats: the opcodes of each input listed
    counter,    \* TOTAL_OPCODES of this process
    page,       \* the page under the loop
    png,        \* the pages encoded into the buffer
    written,    \* the page files on disk, in the order they were created
    reported,   \* the document and its statistics were reported
    error       \* what run fails with, and on which input

vars == <<command, rest, disk, options, stage, reads, bytes, rows, total, counter,
          page, png, written, reported, error>>
given == <<command, disk>>
gathered == <<reads, bytes>>
listed == <<rows, total, counter>>
drawn == <<page, png, written>>
results == <<listed, drawn, reported>>
-----------------------------------------------------------------------------
NoError == [what |-> "none", input |-> 0]
Because(what, i) == [what |-> what, input |-> i]

Inputs == 1..Len(options.inputs)
Content(i) == disk.files[options.inputs[i]]

Goto(from, to) == stage = from /\ stage' = to /\ UNCHANGED error

Fail(from, why) ==
    /\ stage = from
    /\ stage' = "failed"
    /\ error' = why

AllFlags == {"METHODS", "CONSTANT_POOL", "LOCALS", "STACK_MAP", "LINE_NUMBERS", "ATTRIBUTES"}

\* Those of Options that decide what is done; the font size and the prefix of
\* the page names change no step.
DefaultOptions ==
    [inputs |-> <<>>, font |-> FALSE, rows |-> DefaultPageRows, flags |-> {"METHODS"}]

Init ==
    /\ \E line \in CommandLines : command = line.command /\ rest = line.args
    /\ disk \in Disks
    /\ options = DefaultOptions
    /\ stage = "parse"
    /\ reads = <<>>
    /\ bytes = <<>>
    /\ rows = 0
    /\ total = <<>>
    /\ counter = 0
    /\ page = 0
    /\ png = <<>>
    /\ written = <<>>
    /\ reported = FALSE
    /\ error = NoError
-----------------------------------------------------------------------------
(***************************************************************************)
(* parse                                                                   *)
(***************************************************************************)
Valued == {"--font", "--size", "--out", "--rows"}
Numeric == {"--size", "--rows"}
Flagged == [option \in {"--pool", "--locals", "--all"} |->
               CASE option = "--pool" -> {"CONSTANT_POOL"}
                 [] option = "--locals" -> {"LOCALS"}
                 [] option = "--all" -> AllFlags]

\* An option takes the argument behind it, whatever that looks like.
WithValue(option, value) ==
    CASE option = "--font" -> [options EXCEPT !.font = TRUE]
      [] option = "--rows" -> [options EXCEPT !.rows = Numbers[value]]
      [] option \in {"--size", "--out"} -> options

\* An argument that is complete by itself.
With(arg) ==
    IF arg \in DOMAIN Flagged THEN [options EXCEPT !.flags = @ \cup Flagged[arg]]
    ELSE [options EXCEPT !.inputs = Append(@, arg)]

ParseValued ==
    /\ stage = "parse" /\ rest # <<>> /\ Head(rest) \in Valued
    /\ IF Len(rest) = 1
       THEN Fail("parse", Because("needs a value", 0)) /\ UNCHANGED <<options, rest>>
       ELSE IF Head(rest) \in Numeric /\ rest[2] \notin DOMAIN Numbers
       THEN Fail("parse", Because("must be a number", 0)) /\ UNCHANGED <<options, rest>>
       ELSE /\ options' = WithValue(Head(rest), rest[2])
            /\ rest' = Tail(Tail(rest))
            /\ UNCHANGED <<stage, error>>
    /\ UNCHANGED <<given, gathered, results>>

ParseOther ==
    /\ stage = "parse" /\ rest # <<>> /\ Head(rest) \notin Valued
    /\ IF Head(rest) \in FileNames \cup DOMAIN Flagged
       THEN /\ options' = With(Head(rest))
            /\ rest' = Tail(rest)
            /\ UNCHANGED <<stage, error>>
       ELSE Fail("parse", Because("unknown option", 0)) /\ UNCHANGED <<options, rest>>
    /\ UNCHANGED <<given, gathered, results>>

\* A diagnostic is read file by file as it is laid out, anything else first.
ParseEnd ==
    /\ stage = "parse"
    /\ rest = <<>>
    /\ IF options.inputs = <<>>
       THEN Fail("parse", Because("no input files", 0))
       ELSE Goto("parse", IF command = "diagnostic" THEN "list" ELSE "read")
    /\ reads' = [i \in Inputs |-> "waiting"]
    /\ UNCHANGED <<given, rest, options, bytes, results>>
-----------------------------------------------------------------------------
(***************************************************************************)
(* build and build_diagnostic                                              *)
(***************************************************************************)
\* Mutant: two inputs are read by the pool as well.
ParallelSooner == Len(options.inputs) >= ParallelThreshold

\* A pool of threads reads the inputs; else one reads them in turn.
Parallel == Len(options.inputs) > ParallelThreshold

\* Mutant: what was read is collected in the order in which reads complete.
GatheredAsItComes(i) == Append(bytes, Content(i))

\* collect: what one thread found goes behind what was found of the inputs
\* before it, however many of those are still to come.
Gathered(i) ==
    InsertAt(bytes, 1 + Cardinality({j \in 1..(i - 1) : reads[j] = "read"}), Content(i))

\* One read completes.  rayon may start an input after another failed.
Read(i) ==
    /\ stage = "read"
    /\ reads[i] = "waiting"
    /\ Parallel \/ \A j \in 1..(i - 1) : reads[j] = "read"
    /\ IF Content(i).reads
       THEN reads' = [reads EXCEPT ![i] = "read"] /\ bytes' = Gathered(i)
       ELSE reads' = [reads EXCEPT ![i] = "failed"] /\ UNCHANGED bytes
    /\ UNCHANGED <<given, rest, options, stage, results, error>>

\* collect into a Result: of several failures, that of any one input.
ReadFailed ==
    /\ stage = "read"
    /\ \E i \in Inputs : reads[i] = "failed" /\ Fail("read", Because("read", i))
    /\ UNCHANGED <<given, rest, options, gathered, results>>

Ready == \A i \in Inputs : reads[i] = "read"

ReadAll ==
    /\ Goto("read", "list")
    /\ Ready
    /\ UNCHANGED <<given, rest, options, gathered, results>>

\* Stats::merge.
Merge(opcodes) == Append(total, opcodes)

\* The input listed next.
Turn == Len(total) + 1

\* Mutant: an input that does not list is passed over.
ListClassRegardless(input) ==
    /\ total' = Merge(input.opcodes)
    /\ rows' = rows + input.rows + 1
    /\ counter' = counter + (IF input.lists THEN input.opcodes ELSE 0)
    /\ UNCHANGED <<stage, error>>

\* Frontend::emit of what was collected in the place of the input, merge, and a
\* blank line.  The opcodes of the inputs before one that fails stay counted.
ListClass(input) ==
    IF ~input.lists
    THEN Fail("list", Because("list", Turn)) /\ UNCHANGED listed
    ELSE /\ rows' = rows + input.rows + 1
         /\ total' = Merge(input.opcodes)
         /\ counter' = counter + input.opcodes
         /\ UNCHANGED <<stage, error>>

\* read_to_string and diagnostic::emit: no statistics.
ListDiagnostic(i) ==
    IF ~(Content(i).reads /\ Content(i).text)
    THEN Fail("list", Because("read", i)) /\ UNCHANGED listed
    ELSE /\ rows' = rows + Content(i).rows
         /\ total' = Merge(0)
         /\ UNCHANGED <<stage, error, counter>>

List ==
    /\ stage = "list"
    /\ Turn \in Inputs
    /\ IF command = "diagnostic" THEN ListDiagnostic(Turn) ELSE ListClass(bytes[Turn])
    /\ UNCHANGED <<given, rest, options, gathered, drawn, reported>>

ListEnd ==
    /\ Turn \notin Inputs
    /\ Goto("list", "show")
    /\ UNCHANGED <<given, rest, options, gathered, results>>
-----------------------------------------------------------------------------
(***************************************************************************)
(* run and render                                                          *)
(***************************************************************************)
Dump ==
    /\ command = "dump"
    /\ Goto("show", "done")
    /\ reported' = TRUE
    /\ UNCHANGED <<given, rest, options, gathered, listed, drawn>>

\* A command that is none is found out when all is listed.
Unknown ==
    /\ command \notin {"dump", "render", "diagnostic"}
    /\ Fail("show", Because("unknown command", 0))
    /\ UNCHANGED <<given, rest, options, gathered, results>>

\* The font: an option, a file, a font.
Font ==
    /\ command \in {"render", "diagnostic"}
    /\ IF options.font /\ disk.font
       THEN Goto("show", "pages")
       ELSE Fail("show", Because(IF options.font THEN "font" ELSE "needs --font", 0))
    /\ UNCHANGED <<given, rest, options, gathered, results>>

\* Renderer::pages; finish leaves no row for what follows the last newline.
PagesTotal == Pages(rows, options.rows)

\* Mutant: the buffer keeps the pages before.
Uncleared == png

\* png.clear, so that one buffer serves all pages.
Cleared == <<>>

\* render_page, which appends the page to the buffer.
Draw ==
    /\ stage = "pages"
    /\ page < PagesTotal
    /\ IF page = disk.undrawn
       THEN Fail("pages", Because("draw", page)) /\ png' = Cleared
       ELSE Goto("pages", "write") /\ png' = Append(Cleared, page)
    /\ UNCHANGED <<given, rest, options, gathered, listed, page, written, reported>>

\* The file of the page at hand: all of the buffer, or only a part of it.
PageFile(whole) == [page |-> page, holds |-> png, whole |-> whole]

\* fs::write creates the file before it writes: what fails behind that leaves
\* a part of the page.  Pages written before one that fails stay.
Write ==
    /\ IF page = disk.unwritable
       THEN /\ Fail("write", Because("write", page))
            /\ written' = IF disk.full THEN Append(written, PageFile(FALSE)) ELSE written
            /\ UNCHANGED page
       ELSE /\ Goto("write", "pages")
            /\ written' = Append(written, PageFile(TRUE))
            /\ page' = page + 1
    /\ UNCHANGED <<given, rest, options, gathered, listed, png, reported>>

Report ==
    /\ page = PagesTotal
    /\ Goto("pages", "done")
    /\ reported' = TRUE
    /\ UNCHANGED <<given, rest, options, gathered, listed, drawn>>

Main ==
    \/ ParseValued \/ ParseOther \/ ParseEnd
    \/ ReadFailed \/ ReadAll
    \/ List \/ ListEnd
    \/ Dump \/ Unknown \/ Font \/ Draw \/ Write \/ Report

Next == Main \/ \E i \in Inputs : Read(i)

Spec == Init /\ [][Next]_vars
-----------------------------------------------------------------------------
(***************************************************************************)
(* Properties.                                                             *)
(***************************************************************************)
Opcodes(i) == IF command = "diagnostic" THEN 0 ELSE Content(i).opcodes

\* Each input is listed from its own bytes, in the order of the arguments,
\* whatever the order in which they were read, and each is counted once: for
\* the report and for the process, failed runs included.
TotalsInArgumentOrder ==
    /\ \A i \in 1..Len(total) : total[i] = Opcodes(i)
    /\ counter = SumOf(total)

\* Nothing is listed before every input was read, nothing comes out before
\* every input was listed, and a failure reports no statistics.
AllOrNothing ==
    /\ total # <<>> /\ command # "diagnostic" => \A i \in Inputs : reads[i] = "read"
    /\ written # <<>> \/ reported =>
           /\ Len(total) = Len(options.inputs)
           /\ command # "diagnostic" => \A i \in Inputs : Content(i).lists
    /\ reported = (stage = "done")

WholePages == {k \in 1..Len(written) : written[k].whole}

\* The files on disk are the first pages of the document in order, none left
\* out, each with that page alone in it.  They are whole, and after a success
\* all there are; after a failure those before the culprit are whole, and the
\* culprit is not there, or, if writing it failed, perhaps there in part.
PagesAreAPrefix ==
    /\ \A k \in 1..Len(written) : written[k].page = k - 1 /\ written[k].holds = <<k - 1>>
    /\ CASE error.what = "draw"  -> WholePages = 1..error.input /\ Len(written) = error.input
         [] error.what = "write" -> WholePages = 1..error.input /\ Len(written) <= error.input + 1
         [] OTHER -> WholePages = 1..Len(written)
    /\ stage = "done" /\ command # "dump" => Len(written) = PagesTotal

\* A failure is blamed on an input that cannot be read, or listed: when they
\* are read in turn, on the first that cannot be read, and always on the first
\* that cannot be listed, though it is known by what was collected in its place.
BlameIsDeserved ==
    /\ stage = "failed" /\ error.what = "read" =>
           /\ error.input \in Inputs
           /\ ~(Content(error.input).reads /\ (command = "diagnostic" => Content(error.input).text))
           /\ Len(options.inputs) <= ParallelThreshold => \A i \in 1..(error.input - 1) : Content(i).reads
    /\ stage = "failed" /\ error.what = "list" =>
           /\ error.input \in Inputs
           /\ ~Content(error.input).lists
           /\ \A i \in 1..(error.input - 1) : Content(i).lists
=============================================================================
