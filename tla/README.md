# A TLA+ model of the bytekodex platform

The platform turns Java class files, pasted disassembly and compiler output
into a classified listing, and the listing into pages of PNG images. It is
called from other languages through a C ABI, and locally through a command line
driver. These modules model the program as it is written in `crates/`, check it
with TLC on small instances and prove part of it with TLAPS for all instances.

    tlc -config <Run>.cfg <MC module>.tla        e.g.  tlc -config Ffi.cfg MCFfi.tla
    tlapm <Module>Proofs.tla

## 1. Inventory

| part | source | state | operations |
|---|---|---|---|
| document | `bk-core/document.rs`, `token.rs` | text, tokens, line starts, widest column, current column | `push`, `push_fmt`, `pad`, `pad_to`, `newline`, `finish`; `line_tokens`, `slice`, `rows` |
| diagnostics | `bk-core/diagnostic.rs` | none | `emit`, `split`, `find_severity` |
| statistics | `bk-core/stats.rs` | `TOTAL_OPCODES`, a process-wide atomic | `merge`, `record_opcodes` |
| reader | `bk-jvm/reader.rs` | position in borrowed bytes | `need`, `u1`, `u2`, `u4`, `bytes` |
| class file | `bk-jvm/pool.rs`, `class.rs` | constants by slot, members, attributes as slices | `parse` of each, `get`, `iter` |
| instructions | `bk-jvm/opcodes.rs`, `emit_instructions` | pc, count | `instruction_len`, the walk |
| stack map | `bk-jvm/stackmap.rs` | previous offset, frames | `parse`, `parse_frame`, `parse_base_frame` |
| listing | `bk-jvm/emit.rs` | `Stats`, the builder | `emit_class`, `emit_method` and a function per section |
| pasted text | `bk-jvm/text.rs` | "opens the line", `Stats` | `emit_text` |
| flags | `bk-jvm/flags.rs` | none | `decode`, `declaration_keywords` |
| dispatch | `bk-jvm/lib.rs` | none | `emit`, `detect_input_kind` |
| pages | `bk-render/lib.rs` | none | `pages`, `render_page`, `page_columns`, `encode` |
| canvas | `bk-render/canvas.rs` | palette indices by pixel | `blend`, `round_corners`, `palette` |
| glyph atlas | `bk-render/atlas.rs` | cache of rasterized glyphs | `glyph` |
| C ABI | `bk-ffi/lib.rs`, `include/bytekodex.h` | renderer handles, `LAST_ERROR` by thread | `bk_renderer_new`, `bk_renderer_free`, `bk_render`, `bk_last_error` |
| driver | `bk-cli/main.rs` | options, reads, totals, files written | `parse`, `build`, `build_diagnostic`, `render`, `report` |

**How they interact.** Everything that produces a listing pushes runs of text
into one `DocumentBuilder`; everything that draws reads the finished `Document`
a line at a time. `JvmFrontend::emit` parses a class file and lists it,
returning `Stats`, and adds to `TOTAL_OPCODES` when it got to the end. The
renderer cuts the document into pages, computes the size of an image, draws it
into a canvas and encodes it. The C ABI does all of this in one call, page by
page, behind `catch_unwind`; what calls on different threads share is the
counter, and what calls on one thread share is its message and its renderer.
The driver does it for many files, reading them with a pool of threads.

**What is hard.** The program is mostly sequential; concurrency is confined to
the C ABI and to the reads of the driver. The hard parts are:

* input that ends or lies anywhere, while counts, offsets and totals have to
  agree with what was read (class file, instructions, stack map, listing);
* state recorded by one operation and searched by another, much later (tokens
  and line starts against pages);
* failure half way: after counting and before drawing, after some pages were
  written, behind a panic;
* a buffer that is too small and the call that is made again;
* two computations of one thing that nothing keeps in step: the length of an
  instruction and its operands, the columns measured and drawn, the flags of a
  member and its keywords, five ways to name a class, a palette and its indices;
* boundaries: the longest token, the last page, the slot behind a `long`, the
  first frame, u16 and u32 arithmetic, rounding, corners on odd canvases.

`PROJECT.json` lists each of these at its line, with the properties that would
catch it going wrong.

**What makes each part correct.** Of the document: tokens in order, over every
byte, never across a newline, and lines that share them out. Of a diagnostic:
it reads the same when it was laid out. Of the class file: constants at the
slots the format numbers, attributes as disjoint slices, all or nothing. Of the
walk: instructions that tile the array, nothing behind what could not be read.
Of the stack map: the frames that were meant. Of the listing: totals that are
those of the lines printed, the sections its flags add, tables as they
were written, names that are those of the slots beside them. Of pasted text:
rows that are its lines, offsets that open them, mnemonics counted once. Of
pages: every row once, nothing cut off, the ceiling, and a picture that is the
same whatever was drawn before. Of the canvas: an image that does not depend on
the drawing order, in the colours of its ink. Of the C ABI: one answer for each call, its
own message, whole images or nothing, counts that survive. Of the driver: the
order of the arguments, whatever order they are read in, all or nothing, whole
pages up to one that fails.

## 2. Modules

| module | models | state and actions against the code |
|---|---|---|
| `Document` | builder and document | the fields of `DocumentBuilder`; `Push`, `PushFmt`, `Pad`, `PadTo`, `Newline`, `Finish` are its methods. `Cut` is the loop of `push` as a function, `LineTokens` is `line_tokens` |
| `Pagination` | page arithmetic | operators only; shared by `Render`, `Ffi` and `Cli` |
| `Render` | `render_page` | the document as widths of lines; `RenderPage` and `PageOutOfRange` are the two ways a call goes |
| `Canvas` | pixel buffer | pixels by coordinate; `Blend`, `RoundCorners`, `Encode` with the palette. `marks` is a history variable for the properties |
| `Picture` | what a renderer promises | abstract: a page is asked for and answered with the marks of its characters, or refused |
| `Drawing` | the loops of `render_page`, the glyph cache | `Measure` is `page_columns`, then one action per character, token and row; `FontPanics` is a panic that the C boundary catches. `DrawsThePicture` says it implements `Picture` |
| `ConstantPool` | `ConstantPool::parse` | one action per turn of the loop; bytes are chosen as they are read |
| `ClassFile` | `ClassFile::parse` | extends `ConstantPool`; one action per item of the file. `declared` is a history variable |
| `Instructions` | `emit_instructions`, `instruction_len` | `Walk` is one turn of the loop; operands are chosen as they are read |
| `Bytecode` | the opcode table, `emit_operands` | extends `Instructions` with the bytes: `ShapeOf` is the table, `EndOf` is `instruction_len`, `OperandsOf` is `emit_operands`, `Decode` one turn of the loop. `IsAWalk` says it is one of the walks of `Instructions` |
| `Assembly` | what an array of instructions means | abstract: programs, and the bytes of each instruction as the format of class files lays them out (`Fits`, `Encode`); `Written` is a set of assembled ones. `ListingIsTheProgram` says the listing is the program |
| `Reader` | the cursor | operators over a sequence of bytes |
| `StackMap` | `stackmap::parse` | real bytes; one action per frame, list, type |
| `CodeAttribute` | `Code::parse` and the tables printed of it | extends `StackMap`; real bytes; one action per read of a list item, and one per table that is printed. `FindFrames` hands the bytes of a table to `StackMap`, `PrintFrames` prints what that came to |
| `CompiledCode` | what a `Code` attribute means | abstract: methods, and where the format of class files puts each number of their exceptions, attributes, locals and frames (`SaysMethod`, `SaysMap`, `SaysFrame`), as far as the bytes go; `Compiled` is a set of compiled ones. `PrintedAsMeant` says the tables printed are the method's |
| `Flags` | `decode`, `declaration_keywords` | operators only: the tables and the tests |
| `EmitClass` | `emit_class`, `emit_method` | one action per function of a section; a line is its section and method |
| `ClassListing` | what the lines of a listing say of constants and flags | extends `EmitClass` and `Flags`: every action is one of `EmitClass` with the words it prints. `Get`, `Utf8`, `ClassName`, `NameAndType` are the methods of `ConstantPool`; `ListConstant` is a turn of `emit_constant_pool` |
| `PastedText` | `emit_text` | extends `Document`: `Lex` is one lexeme with its push, `SplitColon` the second push of a number with a colon; the builder changes by its own actions only |
| `Diagnostic` | `diagnostic::emit` | lines of lexemes; `Heading` and `Line` |
| `Cli` | the driver | one action per argument, read, input listed, page drawn and page written. `bytes` is what the reads left, in the places `Gathered` gives them, and `List` knows an input by its place there; `png` is the buffer all pages are drawn into, and `written` the files, of which `fs::write` can leave a part |
| `Totals` | sums of counts | operators only; for what `Cli` says of its totals and `ClassFile` of the bytes read |
| `Ffi` | the C ABI and its host | a pc by thread: `Enter`, `Check`, `Emit`, `Draw`, `Copy`, `Return` are the stages of `bk_render`. The host (`Ask`, `Retry`) is external |
| `RenderService` | what the header promises | abstract: a call is asked, counted, answered |
| `FfiService` | the refinement mapping | `ImplementsService` says `Ffi` implements `RenderService` |

**Compositions.** `MCDocument` lets one of two authors write into the same
builder: an emitter that calls its operations in any order, or the highlighter
of pasted text. `CodeAttribute` runs the parser of stack maps on the bytes its
own parser has found. `ClassListing` prints the constants and flags of a class
while `EmitClass` prints and counts its sections, `Bytecode` gives the walk of
`Instructions` its bytes, and `ClassFile` begins with `ConstantPool`.

`MC<Module>` gives a module its small instance, `<Module>Proofs` its proofs and
`ArithmeticLemmas` facts about products, quotients, sums and pieces of sequences,
and the induction the others need. `CodeProofs` is about what becomes of a `Code` attribute, in
`Instructions`, `Bytecode`, `Assembly`, `StackMap`, `CodeAttribute` and
`CompiledCode`; `RenderingProofs` about `Pagination`, `Render`, `Canvas` and `Drawing`; `FfiProofs` about
`FfiService` too, `DocumentProofs` about `PastedText`, `CliProofs` about
`Diagnostic`, and `ListingProofs` about `EmitClass` and `ClassListing`. Where two modules
stand beside each other in one of these, the initial states, steps and
specifications of one carry its name (`WalkInit`, `RenderNext`, `CanvasSpec`,
`DiagnosticInit`).
A definition above
the one it resembles, marked as a mutant, is a plausible bug in it: with the
one in place of the other TLC finds the property violated that `PROJECT.json`
pairs them with.

**Abstractions.** Texts are sequences of leading bytes, continuation bytes and
line breaks (`Document`), widths (`Render`), lexemes (`Diagnostic`,
`PastedText`), model values (`ClassListing`) or numbers of lines (`EmitClass`,
`Cli`). What bytes decode to is a choice made when they are read
(`ConstantPool`, `ClassFile`, `Instructions`), so that any input is covered, but
the properties cannot tell what it means; `StackMap`, `Bytecode` and
`CodeAttribute` read real bytes, since what is at stake there is to stay in step
with them. `ClassListing` starts from class files that were read, `Drawing` from
finished documents; it leaves the size of the image to `Render` and what pixels
a glyph covers to `Canvas`. Decoding, drawing and encoding are functions of the
request in `Ffi`. Integers
wrap at `U16` or `U32` where a release build, for which the profile in
`Cargo.toml` asks for no overflow checks, would wrap.

## 3. Runs

Every run finishes; the numbers are those of distinct states.

| run | states | bounds | shows |
|---|---|---|---|
| `Document` | 463126 | 8 bytes of text, tokens of at most 2, spaces of 2, two stops; eight lexemes of every treatment in up to 3 lines | tokens that cover the text and stay on their lines, lines that share them out; rows, offsets and mnemonics of pasted text. Three-byte texts are cut, one inside a character |
| `Render` | 92928 | up to 4 lines of three widths, page sizes from 1 to almost the end of a u32 of 64 values | every row once, nothing cut off, the ceiling |
| `Canvas` | 14053 | 9 by 8 pixels, 2 kinds, 3 levels, radii up to more than half a side | drawing order, colours, corners, alpha table. A state constraint lets one pixel take ink: pixels are blended independently |
| `Drawing` | 1209 | five documents, pages 0 to 3 of 1, 2 or 50 rows, one character the font cannot draw and one token that cannot be sliced | the columns, the picture, every call answered |
| `Ffi` | 63554 | two threads; a request for each way a call can end on one, a buffer that must grow on the other; a counter of two values, which wraps | message, buffer and counts; retries settle; refinement of `RenderService` |
| `ClassFile` | 102019 | a pool of up to 4 slots, lists of up to 2 items, nine sizes of input from 3 to 64 bytes, so that it ends in every section | slots, slices, all or nothing, termination |
| `Bytecode` | 8583 | programs of up to three instructions of 22 of every shape at every alignment, whole; cut at every byte; bytes that are no program | tiling, operands and branches as they were assembled, a walk of `Instructions` that ends |
| `CodeAttribute` | 33623 | up to two of twelve attributes, whole, cut within, named differently or by two indices with one text; methods cut at every byte; stack maps of up to three frames of every kind, wrapped or not, whole and cut | tables whole or cut between rows, the rows and frames meant, offsets that ascend |
| `ClassListing` | 257952 | up to two methods of seven under thirteen sets of flags, with METHODS and without; pools of two constants that refer to any of four slots, a compiler's pool as it is and with any one reference bent; every set of up to two access flags and all sixteen | totals, counting, the sections that flags add and those none of them takes away; every slot once, comments and names that agree; names and keywords that agree |
| `Cli` | 153114 | up to three inputs of four kinds, every command, up to four pages, each failure, a disk that is full when a page is begun | each input listed from its own bytes, all or nothing, whole pages before the culprit, blame |
| `Diagnostic` | 125786 | every line of up to five lexemes of seven, a generated family of lines shaped like a diagnostic, outputs of up to three lines | a fixed point of the layout, but for an `info:` renamed behind a path that says `note:`; other lines as they came; the heading |
| `FfiGeometry` | | as `Ffi` | a violation, see section 6 |

A property of a run may be the conjunction of two named parts, defined just
above it. Invariants that section 4 proves for every instance and that no run
needs beside the others are not checked again: the type invariants of
`Document`, `Instructions` and `StackMap`, `TokensOrdered`,
`CountIsWhatWasPrinted`, `NothingAfterARemark` and `OffsetsNeverWrap`.

**Why the bounds are enough.** Each is chosen so that both sides of every
condition of the code occur: texts shorter and longer than a token, pages that
divide the rows and that do not, a radius below and above half of a side, input
that ends before and behind each read, one or two and three inputs (the
threshold for the pool of threads is two), a font that is missing and one that
is no font. A third thread of `Ffi` or a third method of `EmitClass` meets no
condition the first two do not. The margins of `Render` are small, so the sum
that is held to the ceiling does not wrap: see section 6. The one thing
`PastedText` keeps from line to line is whether one was opened, so that three
lines are more than enough; no name and no keyword depends on more than one bit
of a set of flags; a lookup in a pool passes through two slots at most.

**Deadlock** is checked where the system never stops (`Render`, `Ffi` and
`Drawing`, in which a host may always call again). The other modules describe one document, parse
or run of the driver, which ends.

**Fairness.** `Ffi` assumes that a call that was entered goes on to its end,
which is what a thread that runs does: no stage of `bk_render` waits for
another thread. And it assumes that a host that was told the size calls again,
which is what `bytekodex.h` asks of it. `CallsSettle` and the liveness in
`RenderService` rest on these alone; hosts need not ever call, ask for a
message, or free a renderer. `ClassFile` and `Bytecode` assume
that a parser or a walk goes on while it can, and `Drawing` that a call does
(`Picture` that it is answered): these are loops on one thread, which wait for
nothing. `ParsingEnds`, `WalkEnds` and the liveness in `DrawsThePicture` rest on
that. Nobody need call.

## 4. Proofs

What TLC checks on one instance TLAPS proves for all, from the named
assumptions on the constants alone.

* **`DocumentProofs`**: for any texts, stops, longest token, padding and bound,
  `TypeOK`, `TokensOrdered`, `NoTokenStraddlesNewline`, `EveryByteInAToken` and
  `LineStartsFollowBreaks`. Their conjunction is inductive as it stands: the
  order of tokens needs that all of them end within the text, and the coverage
  of bytes needs it to be inductive too. `CutLemma` says what the loop of
  `push` makes, for any length: runs of at most the size that follow one
  another from the first byte to the last. It is stated with quotients, not by
  induction, since `Cut` computes each run from its number. And
  `LinesShareOutTokens`: the tokens before an offset are a first part of them
  (`FirstPart`), so that `partition_point` finds where it ends
  (`PartitionPoints`) and the slice of a line is the tokens that start in it; that
  only overlong runs are cut inside a character is inductive beside the
  invariant (`BreaksInductive`), as a boundary stays one while text grows.
* **`DocumentProofs`**, pasted text: for any lexemes and lines, all of the above
  of the document that `emit_text` writes through the builder (`PastedTokens`); and
  `RowsAreThePastedLines` and `MarksAreThoseOfTheText`. `TextInv` says of every row
  what it shows of its line,
  the open one too, where a colon may be yet to be pushed; of every lexeme, what
  the token that starts at its place says of it; and of the opcodes, that they
  are the mnemonics read and the tokens marked as one. Places of lexemes are told
  from those of later ones by lying within the text that is there. A push is
  used only through `Grows`, which says what becomes of texts and tokens. Of the
  lexemes it takes that those with a colon end with it, as their pattern says,
  and that no mnemonic is too long for one token.
* **`CodeProofs`**, the instructions: for arrays of any length and any operands,
  `InstructionsTile`, `CountIsWhatWasPrinted` and `NothingAfterARemark`. The
  strengthening is `NoRemarkYet`: while the walk goes on, no line is a remark.
  `EndsMoveOn` is the lemma the rest stands on: an instruction that is not
  truncated ends behind its opcode and within the array. And for arrays of any
  bytes, `RealBytesAreWalked`: each turn of `Decode`, with the whole opcode
  table, is one `Instructions` allows, so that the same holds of real bytes
  (`RealBytesTile`). The lemma it rests on is `EndIsAnEnd`, that `EndOf` is an
  end the shape may have; it takes the bounds and pair counts the walk chooses
  from to hold all that the array does, which `BytecodeAssumption` says and
  `LowsAndHighs` and `Pairs` collect.
* **`CodeProofs`**, what is listed: whatever program was assembled, the listing
  is that program, and of any bytes whatever the operands printed of an
  instruction are its own (`ProgramsListed`). `AnyReads` is the lemma about the
  opcode table: an instruction of any kind, with any numbers that fit it, laid
  out anywhere, has the length `EndOf` computes and the operands `OperandsOf`
  prints; it has one case for each way the bytes behind an opcode are laid out,
  down to numbers of two and four bytes (`Put2Read`, `Put4Read`). `OwnBytes` is
  the one about what stands behind an instruction: all that is read of it is
  before its end (`Covers`), so no byte further on matters. `ListingInv` says how
  far the walk is: the lines so far are the beginning of the program, and pc is
  where its next instruction was put. `AssemblyAssumption` says of a program
  that it fits and that its instructions lie one behind another, and nothing else.
* **`CodeProofs`**, what is printed of a method's tables: whatever method was
  compiled, it is refused if and only if its bytes are cut short, and otherwise
  its code, exceptions, locals and frames are printed as they were meant, or none
  of a table that is cut (`CompiledPrinted`). `ReadsMap` is the invariant of the
  parser of frames: the frames kept are the first of the map, and the cursor is
  where the next frame is, or within the one at hand at its next list and type
  (`WithinFrame`); so it stays in step behind wrappers, and refuses only what is
  cut or of no kind (`MapStaysRead`). `ParsedSoFar` and `ShownSoFar` say the same
  of `Code::parse` and of the lines, stage by stage. A row is compared number by
  number (`SaidRow`), and a table is whole exactly when it is as long as its rows
  take (`RowsMeant`). `CompiledAssumption` says of a compiled method that its
  numbers stand where the format puts them as far as its bytes go, and of a type
  or kind that means nothing that it may stand there too; it says nothing of what
  the program does with them.
* **`ClassFileProofs`**: for any file, `SlotsAreNumbered`, `SlicesAreDisjoint` and
  `OnlyWholeFilesAccepted`. The slots need that a hole is exactly behind each wide
  constant and that the last entry is never wide without its hole, while the
  pool is read (`PoolInv`); the slices, that the reader stays within the input
  and behind the last slice (`SliceInv`), which is why a new slice cannot meet
  an old one. That an accepted file is whole is said of every state behind the
  head (`WholeInv`): the items read and those still to come are together those
  declared, and the reader is as far behind the pool as the counts read, the
  items and the slices take.
* **`ListingProofs`**: for any class files, views and pools, of `EmitClass`
  `CountsAreThoseOfTheListing` and `ListingIsComplete`, and of `ClassListing`
  `CommentsSayWhereNumbersLead`, `SaidAsListed` and `DeclarationsSayTheirFlags`.
  `EmitInv` says at which stage of which method the listing is, that what is
  printed is that of the methods behind it with the sections of this one so far,
  and nothing of a later one, and that as much is counted; the counts are then
  sums over the methods listed (`CountJoined` adds up what is printed, `Totals`
  what is counted). `ListedInFull` is for every set of flags, and says of one
  without METHODS what it says of one with it: see section 6.
  `SectionInv` says that the section has one line, in order, for each slot behind
  the iterator that is no hole; so what a reader finds by following numbers
  through the lines is what the pool has there (`ReadersFindTheSame`), whatever
  those numbers refer to. A hole is what makes this more than the copy of a list:
  a lookup must skip it as the iterator does. What is said of flags rests on the
  tables, entry by entry: a name stands for one bit in all three (`Named`), so
  that a list of names can be read back; and the flag of a keyword is the name of
  the bit it is tested for, known only where it is tested (`KeywordsAreOfFlags`).
* **`CodeProofs`**, the stack map: for any attribute of any length, `TypeOK`,
  `OffsetsAscend` and `OffsetsNeverWrap`, with the bound 2^32 on every offset.
  The strengthening says that a frame is under construction only while one is
  still owed (else the bound on the number of frames would not hold), and that
  there is none before the count was read.
* **`CodeProofs`**, the tables: for any `Code` attribute, `TablesEndBetweenRows`
  and, of the stack map found in it, `OffsetsAscend`. What makes it inductive:
  a table is printed at one stage and nothing is under its heading before
  (`PrintedInTurn`); the bytes that `StackMap` parses are those of the table
  that was found (`FramesInTurn`); and the frames read and those still owed are
  together as many as the map declares (`CountIsKept`), which is why a map that
  was read is printed whole. The lemmas are about sequences: what is printed
  behind what was printed (`Joined`, `BlockPrinted`), and how many rows a number
  of bytes is enough for (`RowsPresent`).
* **`RenderingProofs`**, the pages: for any u32 and any page size, `NoWrap` and
  `PagesShareOutRows`, that every row is on exactly one page; and of
  `render_page`, for any font, margin and ceiling, `PaginationCoversEveryRowOnce`
  and `ImagesFit`. `RenderInv` says of an image what rows it shows and what it
  was made large enough for. Two assumptions are about sizes: u32 holds twice the
  rows of a document (`RowsAreU32`), so that the end of a last page does not
  wrap, and the extents of every page with their margins (`SizesAreU32`), so that
  their sum is held to the ceiling before it wraps. Both are real: more rows
  wrap in the run `Render`, and section 6 says what large margins do. And a page
  has at least one row, as everywhere in `Render`: section 6 says what
  `--rows 0` does.
* **`RenderingProofs`**, the canvas: for a canvas, a palette and a radius of any
  size, `EveryPixelIsItsInk` and `CornersAreRound`. The invariant says of a pixel
  that it has the highest index ever blended there (`Inked`) while glyphs are
  drawn, and that it is as before unless it lies in a corner from then on
  (`Cornered`). That the palette has the color of a kind and level at their index
  rests on `QuotientAndRest`: an index leads back to both.
* **`RenderingProofs`**, the loops: for any documents, fonts and page sizes,
  `InkWithinThePage`, and that `Drawing` implements `Picture`, in its initial
  states and steps (`DrawsAsIfFirst`). `DrawInv` relates the three nested loops to
  what is behind them: the column is that of the characters passed in the row,
  the canvas has a mark for each of them and for no other, and the cache has only
  what the font drew, so that a glyph taken from it is the one the font would
  draw. That nothing is drawn behind the measured columns is then a comparison of
  two sums over the same characters, one that `page_columns` makes and one that
  the loops do.
* **`CliProofs`**: for any command line, disk, number of inputs and order of
  reads, `TotalsInArgumentOrder`, `AllOrNothing`, `PagesAreAPrefix` and
  `BlameIsDeserved`. The strengthening says that the driver is past reading only
  when every input was read (`ReadFirst`), that a read came out as the disk has
  it (`ReadsAreTrue`), that inputs are listed one after another
  (`ListedInTurn`), and that nothing is written before (`WrittenLast`). And it
  says what listing by place rests on (`Collected`): while the pool reads, the
  bytes of an input are behind those of as many inputs as were read of those
  before it, so that each is in its own place when all are read; one read more
  moves those behind it by one, which is a lemma about counting (`ReadOfThem`).
* **`CliProofs`**, the layout of compilers' output: for any output,
  `ShownAsItIs`. `DiagnosticInv` says that what is printed is the heading and
  `EmitLine` of each line so far; the rest is about one line. What is printed of a
  line that splits is `path:position: word: message` (`TextIs`), and the proof
  follows the code over it: the word found there is the one printed, since a
  word that stands before it or is sought before it would have been found in the
  line as well, with as many colons before it; then the last field before it is
  the word, the one or two fields before that are the digits of the position, and
  the path ends in no further ones that were not taken in the line. That the
  colour of the heading is the worst is an induction over the lines (`WorstIs`).
* **`FfiProofs`**: for any number of threads, requests, fonts, buffers and
  lengths of messages, `LastErrorIsOwn`, `BufferHoldsOnlyWholeImages` and
  `CountsSurviveFailedRender`, and `ServiceIsKept`: the safety half of
  `ImplementsService`, that `Ffi` starts as `RenderService` does and that each of
  its steps is one of the service's or a stutter. The invariant is of one thread
  at a time (`ThreadInv`): what it has built up of its answer by the stage it is
  at, and what it was last told; `OthersAreUntouched` carries it over the steps
  of other threads. The refinement needs `Due` beside it: what each stage has
  already settled of the answer that the arguments determine.
  `FfiAssumption` asks that requests draw pages of some size and that every
  message has a length.

**Model-checked only.** Liveness under fairness (`CallsSettle`, `ParsingEnds`,
`WalkEnds`), and so the liveness part of `ImplementsService` and
`DrawsThePicture`, which the prover does not treat. Every safety property of
the passing runs is a theorem.

## 5. Not modelled

* The matching of patterns by the lexer of pasted text, which `logos` generates:
  `PastedText` takes any lexemes that the patterns can yield side by side.
* Rasterization, and whether a font is monospace, which only makes the driver
  print a warning. A renderer shared by two threads is undefined behaviour which
  the header tells the host to avoid; the models assume it does.
* The colours of `bk-theme`, and how much of one a level mixes in, which is
  floating point.
* The punctuation of a listing and the columns its parts are padded to, and what
  the driver writes to the terminal.
* `accepts` and `unit_name` of the frontend, which nothing calls.
* Memory behind raw pointers: that what a caller hands over is valid is the
  contract of each `unsafe` function.
* The build files, which have no behaviour of their own.

## 6. Where the code and its words disagree

Shown by a run:

* **`FfiGeometry`**. "Every other field of `response` is filled in either way"
  (`bk-ffi/lib.rs:209`), but the width and the height are not when the buffer
  is too small.

Met by TLC while a module was written, and excepted where said:

* A run longer than the longest token (65535 bytes) is cut at bytes, not at
  characters, and slicing such a token panics. "Real tokens never hit this"
  (`document.rs:118`), but a `Utf8` constant may have 65535 raw bytes, and
  `from_utf8_lossy` (`emit.rs:140`) makes three bytes of each that is not
  UTF-8. `BrokenOnlyWhereCut` says that no other token breaks.
* `bk render --rows 0` makes as many pages as there are rows, none of which has
  any (`bk-render/lib.rs:100` against `:77`). The sizes of `MCRender` are at
  least one.
* "`InnerClasses` entries, which use the class table minus `ACC_SUPER`"
  (`flags.rs:20`), but they share the whole table of classes (`flags.rs:28`).
  No listing prints inner classes yet.
* The flag for locals is said to include "`LocalVariableTable` and
  `LocalVariableTypeTable`" (`view.rs:55`); `emit_locals` looks for the first
  only (`emit.rs:605`), and so does `PrintLocals`.

* An "info:" is printed as "note:" (`diagnostic.rs:93`), and "note:" is looked for
  first (`diagnostic.rs:151`): a line whose path has the field "note", like
  `note:1: info: x`, is printed as one that would not be taken apart again.
  `ShownAsItIs` excepts it (`Renamed`); the proof needs no other exception.

Found while reading, and not the subject of a run:

* `bytekodex.h:92` says of `opcodes_total` that it is "filled in even when
  rendering failed". It is not when drawing panics (`bk-ffi/lib.rs:247`).
  `CountsSurviveFailedRender` excepts panics.
* A pool that declares 65535 slots and has a wide constant in the last makes
  the u16 that numbers slots wrap (`pool.rs:192`), and the loop goes on.
  `SlotsAreNumbered` excepts pools of that size.
* Width plus height is added in u32 before it is held to the ceiling
  (`bk-render/lib.rs:110`), so that margins near 2^31 would pass it.
* The keyword "abstract" is chosen without a look at the context
  (`flags.rs:134`), so that a field with that bit says it beside `ACC_UNKNOWN`;
  `DeclarationsSayTheirFlags` excepts it.
* The count of mnemonics in pasted text is called "an estimate, since a mnemonic
  can also appear inside a comment or an identifier" (`text.rs:160-162`). It
  appears in neither: a comment is one lexeme and a word is looked up whole.
* "A lighter pixel never overwrites a darker one" (`canvas.rs:77`) is true of
  one kind of token; between kinds the higher palette index wins.
  `PixelIsHighestMark` states what does hold.
* `main.rs:126-130` says that parsing runs in parallel; only reading does.
* `ViewFlags::METHODS` is said to select "class declaration, fields, method
  signatures and their code" (`view.rs:52`), and `BK_VIEW_METHODS` of
  `bytekodex.h:59` is that flag; but `emit.rs` never consults it. A view without
  it, as the C ABI lets a host ask for, lists all of these as well. `Expected` and
  `ListingIsComplete` say what the code does, and the run `ClassListing` has views
  without METHODS.
* `ViewFlags::ATTRIBUTES` ("everything else", `view.rs:59`) is never consulted
  either.
* A table of line numbers that ends early is cut without a remark
  (`emit.rs:660`), and the end of the range of a local wraps at u16
  (`emit.rs:639`).
* `find_severity` looks for "error:" in the whole line before it looks for
  "warning:" (`diagnostic.rs:151`), so that a warning whose message has the
  word "error:" is not taken for one: `A.java:1: warning: x:1: error: y` is taken
  apart at "error:". `ShownAsItIs` does not see that, since what was printed is
  taken apart at the same word; it says only that the layout is stable.
* A page that cannot be written may leave a part of its file behind, since
  `fs::write` (`main.rs:197`) creates the file first, and nothing removes it.
  `PagesAreAPrefix` allows for it.

## 7. Plan

Done: every component of section 1, as far as section 5 does not except it.
What is left, in this order:

1. Compositions: `EmitClass` over `Bytecode`, so that the counts of a class rest
   on the walk over its bytes; `Document` under `Drawing`, so that what is drawn
   are the lines of a document that was built.
2. An abstract specification of a parse as "read whole or refused", implemented
   by `ClassFile`, `CodeAttribute` and `StackMap`.
