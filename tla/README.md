# A TLA+ model of lex.cpp

lex.cpp reads a `.l` file and writes a scanner in C. There are so two programs
to verify: the *generator* (a pipeline of pure passes: parse, NFA, byte
classes, DFA, comb compression, output) and the *generated scanner* (a small
machine with a buffer, a stack of buffers, a loop and user actions that call
back into it). The hard behaviour is in the second: user code may call
`unput`, `yyless`, `yymore`, `REJECT`, `input`, `yyrestart`, `yy_push_state`
and the buffer functions in any order, each moves pointers that the others
rely on, and the text is terminated *in place*, by overwriting a byte of the
unread input.

Paths below are those of the repository; `runtime.c.in` is `runtime/runtime.c.in`.

## 1. Inventory

| Component | State | Operations | Interacts with |
|---|---|---|---|
| Text layer of a generated scanner (`runtime.c.in`, loop emitted by `codegen.cpp`) | `yyb_data/end/pos/at_bol`, `yytext`, `yyleng`, `yy_text_save/active`, `yy_more_flag/offset`, `yylineno` | one round of the loop, end of input and its restart, default rule, jam; `input`, `unput`, `yyless`, `yymore`, `REJECT`, `yyrestart` | actions call it between two rounds of the loop |
| Choice of the rule (`codegen.cpp`, two bodies) | last accepting positions with and without `$`, boundaries, or one length per rule | walk, choose, cut trailing context, reject and choose again | reads the tables; hands a length to the text layer |
| Buffer stack and start-condition stack (`runtime.c.in`) | heap of buffers, `yy_buffer_stack`, its size and top, `yyin`, `yy_state_stack` | create, delete, switch, push, pop, scan bytes, restart, init, destroy, push and pop a condition | shares `yyin`, `yytext` and the seal with the text layer |
| `.l` parser (`source.cpp`) | text, position, line, stack of scope blocks, the `LexFile` so far | one round of the loop of each section: a definition, declaration, option, comment, code, block, rule | patterns and scopes for the driver |
| Regex parser and trailing context (`regex.cpp`) | position, macros being expanded | `parse_pattern`, `find_top_level_slash`, the recursive descent, `fixed_length` | trees for the NFA |
| NFA construction (`nfa.cpp`) | the NFA so far | `init_nfa`, `add_rule_to_nfa`, `add_eof_rule`, `compile` | numbers of states identify boundaries |
| Byte classes (`eclass.cpp`) | class of each byte, number of classes | `refine` by each edge | columns of the DFA |
| Subset construction (`dfa.cpp`) | states, map of sets, queue; stack of `eps_closure`; meta classes | seed, close a set, one class of a row, one meta class | rows for the comb |
| Comb compression (`dfa.cpp`, `YY_TRANSITION` of `codegen.cpp`) | base, next/check pool | find an offset, place a row, pad | read without a bounds check by the scanner |
| Tables file (`tables.cpp`, `yytables_fload` of `codegen.cpp`) | bytes of the file; the scanner's live arrays | serialise, write, load | crosses from one run of lex to another program |
| Switches (`codegen.cpp`) | none | numbers of conditions and rules, `\|`, `<<EOF>>` | must number the rules as the driver does |
| Driver (`main.cpp`), platform layer | exit code, files on the disk | join and normalise the input, compile rule by rule, refuse; three writes in a row, each may fail | calls all passes |

What makes each correct:

* text layer: the scanner consumes exactly the input, byte for byte, whatever
  actions call; a text is what the rule matched, with `yymore`'s prefix; `^`
  and `yylineno` follow the input; scanning comes to the end;
* choice: longest match, first rule on ties, `$` only at a line end, trailing
  context cut where the head ends, REJECT in order (not every length: finding 3);
* buffers: nothing freed twice, used after it was freed or leaked, no buffer
  damaged by another's seal, each read on from its own file;
* parsers: what is handed on is what the file says: which rules, in which order,
  in which conditions, with which pattern and action; what is wrong is refused,
  and every file is read to its end although the parser rewinds;
* tables: the automaton that the scanner runs accepts exactly what the patterns
  mean, through NFA, classes, DFA, comb and file.

Nothing runs concurrently and there are no messages or timeouts. What is hard
here is *sequence*: long sequences of legal calls, state left over from an
earlier call (a seal, an offset, a flag, an address that is handed out again),
writes that fail between two others, and numbers at their limits; and for the
parsers the number of ways in which the lines of a file can follow each other. The hazards,
each at its line, are in `PROJECT.json`.

## 2. Modules

| Module | Models | Proofs |
|---|---|---|
| `InputStream` | abstract: what a scanner promises about its input | — |
| `ScanText` | the text layer, with the buffer as an array and the seal in it | `ScanTextProofs`, `ScanStreamProofs` |
| `ScanMatch` | both bodies of `yylex` from walk to action | `ScanMatchProofs` |
| `BufferStack` | buffers, stacks, life and death of the scanner | `BufferStackProofs` |
| `Characters` | text as the parsers see it | — (recursive) |
| `LexFile` | `source.cpp` | — (recursive) |
| `RegexParser` | `regex.cpp`: from the text of a pattern to its tree | — (recursive) |
| `Patterns`, `RuleTables` | trees, NFA and DFA | — (recursive) |
| `WrittenFile`, `Languages` | reference: what a `.l` file says, what a pattern matches | — (recursive) |
| `Generator` | `core_main`, and the switches of the scanner: composes the five above | — |
| `ByteClasses` | `eclass.cpp` | `ByteClassesProofs` |
| `NfaRun` | abstract: walks of an NFA by sets of states, which a table promises to follow | — |
| `SubsetConstruction` | `build_dfa`, `eps_closure`, `compute_meta_classes`, and the walk over the table | `SubsetConstructionProofs` |
| `CombTables` | `compress_dfa` and the lookup | `CombTablesProofs` |
| `TablesFile` | driver's writes, serialiser, loader | `TablesFileProofs` |
| `MC…` | inputs and bounds of the runs | — |

The modules cut the system at narrow interfaces, and each takes what its
neighbour provides as an arbitrary input of the shape the neighbour guarantees:
`ScanText` lets a match take any number of bytes (`ScanMatch` says which);
`ScanMatch` takes any consistent walk over a DFA (`RuleTables` shows that the
DFA's accepting lists and boundaries are right, `Generator` from the text of the
file on); `RuleTables` computes class
representatives in its own way (the order of classes only renumbers states);
`SubsetConstruction` takes any NFA with any class table that leaves no class
empty and tells apart what an edge tells apart, which is what `ByteClasses` shows
(`EveryClassUsed`, `ClassesSeparate`); `CombTables`
takes any transition table; `TablesFile` any table contents that are well-formed
(`WellFormed`: entries name states, rules and classes that exist, a comb has room
for a row at every offset, which is `PackedWellFormed` of `CombTablesProofs`).

Within a module, one action is one handler or one step of a loop, with every
call it makes; the definitions keep the source's names where possible.
Definitions placed in front of another with a longer name (`ShiftedUpShort`
before `ShiftedUp`) are deliberately wrong variants, used to show that the
property named with them in `PROJECT.json` notices that mistake.

### ScanText

`data` is `yyb_data` with its two sentinels, `yytext` an offset, and a seal
really writes `NUL` over the byte behind the text, kept in `save`. `pc` says
whether `yylex` is outside, at the top of its loop, in an action, in an
`<<EOF>>` action or has given up. Actions may call whatever the constant
`Calls` lists, in any order and number, with flex's own rule that after
`input` or `unput` the text is gone. `Init` is a buffer read to the end of its
input: `yy_slurp` reads everything at once, so `yy_refill` adds nothing.

`InputStream` is the abstract specification: a sequence `rest`, a `token`, the
text `yymore` keeps. `ImplementsStream` is the refinement: `rest` is the unread
part of the array with the sealed byte put back, `token` the window.

### ScanMatch

The ordinary body keeps the last accepting position of either kind, the REJECT
body one length for each rule, its longest match, which `LensWithout` clears; both cut trailing context, fixed or at a
recorded boundary. `main.cpp:324` refuses REJECT with variable trailing context,
so `Init` does too.

### BufferStack

Buffers have addresses, and a freed address can be handed out again, which is
where several hazards are. `mark` says whether a buffer's bytes are clean,
sealed, ended, or wrong (a byte was restored into it that is not its own). The
program may do anything flex documents (`MayEnter`, `MayDelete`, `Settled`).
With `Careful` it also keeps five restrictions that this runtime needs and no
document states; they are listed in the module. Whether the scanner is
reentrant is chosen in `Init`, and so is whether the program is `tidy`: an untidy one
may free the buffer that `yytext` lies in, as flex's idiom does that calls
`yypop_buffer_state` in an `<<EOF>>` action. `Unsealed` then writes the saved byte into memory
that is free (`mark` is `"stray"`). A tidy program first ends the validity of the text with
`input` or `yyrestart`, or pops in a later action (`MayGiveUp`).

### Generator and its parts

`Generator` is `core_main` from the input files to the DFA. Its state is that of
`LexFile` (the parser of `.l` files), of `RuleTables` (NFA and DFA), and the
index of the rule being compiled.

*Text.* A text is a sequence of symbols: an ASCII character, or a whole word
where the code compares whole words (`EOF`, `option`, the name of an option, of a
POSIX class, of a condition). `Code` gives a character its byte, so that `a`,
`\x61` and `\141` are the same byte by computation.

*LexFile* has one action for each branch of the loops `parse_section1`, `2` and
`3`. Where the code looks ahead and rewinds, the guard says what it looks for:
`EndSection1`/`NotDivider`, `TopBlock`, `OpenBlock`/`RuleLine`,
`CloseBlock`/`RuleLine`, `IndentedRule`/`IndentedCode` and so on. `GoTo` counts
lines as `get` does; the one rewind that does not restore the line,
`NotDivider`, does what the code does.

*RegexParser* has one operator for each method of the parser, from a text and a
position to a tree, a position and whether it went without an error. A null
pointer is `NoTree`.

*Patterns* builds the tree of `^r/s$` as `parse_pattern` does from its parts and
compiles it to an NFA, node by node. *RuleTables* adds rules one at a time, seeds
and runs the subset construction with its queue.

*References.* `WrittenFile` takes a file as lines of which each carries its text
and what it says (a rule with this scope, pattern tree and action; opens a
block; is wrong), and says what the whole means without parsing: scopes by
counting blocks, numbers by counting lines. `Languages` defines which words a
tree matches, by the equations for regular expressions. `MCGenerator` writes
files with both sides: a regex, for instance, is built together with its text.
So `ReadAsWritten` is not the parser compared with itself.

### ByteClasses, CombTables

The loops of `refine` and `compress_dfa`, one action per iteration, and the
lookup macro.

### SubsetConstruction

`RuleTables` computes a row of the DFA at once, so that `Generator` can compose it with
the rules of a file. Here the same code is taken one step of its loops at a time,
for arbitrary NFAs: `Close` is one iteration of `eps_closure`, `Seed`/`SeedState` what comes
before and after it for a start state, `Step`/`NoTarget`/`Target` for one class of a row.
`sets` is `id_to_set` and also `index`, which has the same sets: `Known` is the lookup
and `Id` the number. `get_state` is called in two places that queue differently:
`SeedState` always queues, so a start state can be queued twice and its row computed
twice; `Target` queues what is new (`Queued`). `MetaKnown` and `MetaNew` are the
iterations of `compute_meta_classes`, whose number is cut to a byte (`% N`).
`Begin` and `Read` are the scanner's walk over the rows. The dead state 0 has no set and
an empty row; it is the `0` that `cur` has while start states are seeded.

`NfaRun` is the abstract specification: a walk is in a set of NFA states, each byte
leads to the closure of all the states it reaches. Its `Closure` is the least
closed set, defined without an algorithm. `FollowsNfa` is the refinement:
`reached` is the set with the number of the state that the scanner is in. The start taken
and the byte read (`last`) are visible in both: otherwise a wrong row would pass as the
right one of another byte.

### TablesFile

A byte has `Radix` values and a word four bytes, so conversion, byte order and
sign are there; the code's radix is 256. The driver's three writes can each
fail to open, write less and notice, or lose the end of the file in `fclose`
without noticing (`platform_posix.cpp:37` ignores its result). Programs
compiled from whatever scanner is on the disk load whatever tables file is
there, section by section, over their arrays, and go on after a failure. A load
is not interleaved with a run of lex; everything else is.

A generated scanner has more arrays than its tables file. `FileArrays` are those of the
automaton, which the file holds and a load replaces. `OwnArrays` are only compiled in: the
lines of the rules, with REJECT the `$` flags and accept lists (`yy_rule_eol`,
`yy_accept_off`, `yy_accept_pool`), with variable trailing context the boundaries
(`yy_boundary_off`, `yy_boundary_pool`). `LoadedWhole` says of each array whose it is after a
load that succeeds: the file's scanner's, or the program's own.

## 3. Runs

| Run | Instance | Distinct states | Shows |
|---|---|---|---|
| `text_stream` | inputs up to 3 of {a, newline}, 2 inputs, capacity 4, all calls but `yymore`, up to 8 lines counted | 228,250 | refinement of the stream, placement of the text, no NUL left behind, `yylineno` follows the cursor |
| `text_more` | memory buffer, inputs up to 5, `yymore` and `yyless`, fairness | 11,395 | `yymore` prepends exactly the previous text, `^` follows it, scanning comes to an end |
| `text_more_return` | `yymore` and `return` | violation | finding 1 |
| `buffer_stack` | 3 addresses (symmetric), 2 files, 2 conditions over a first size of 1, tidy and untidy programs (only untidy ones push conditions), `Careful` | 2,024,080 | the memory properties |
| `buffer_destroy` | the same without `Careful` | violation | finding 2 |
| `generator` | about 10,500 `.l` files in four families, bytes {newline, a}; words up to 3 | 212,491 | files are read as written, wrong ones refused, the DFA accepts what the patterns mean, each rule runs its action, lex ends |
| `scan_match` | 3 rules, all walks of 2 bytes | 48,352 | longest match, order of REJECT, trailing context |
| `scan_reject` | the same | violation | finding 3 |
| `byte_classes` | 4 bytes, all lists of up to 3 edges | 61,848 | classes separate exactly what edges do |
| `subset_construction` | 5,292 NFAs with up to 6 states, 3 bytes, the coarsest and the identity class table | 299,130 | closures, numbers and rows are exact, the walk follows the NFA, `build_dfa` returns |
| `comb_tables` | all tables of 4 states (one dead) and 3 classes with no, the dead or one live target per entry | 269,201 | comb = table, lookups inside the pool |
| `tables_file` | 8 scanners, 2 runs of lex, 2 loads, files cut at 12 lengths | 1,064,487 | format agreed, no cut-off file accepted, mixtures harmless |

`TypeOK` of most modules and `StatesReached`, `MetaExact`, `NumbersStay` and `SearchSucceeds` are
proved for all sizes (section 4) and in no run.

Why the bounds are enough. *Text*: two bytes distinguish newline from the rest;
capacity one above the longest input lets `unput` at the start of a full buffer
both move everything up and hit the limit; two inputs give a restart with state
left over; `MaxLine` stops `yylineno` where newlines are given back and read again
without end, after more of them than the inputs have. *Buffers*: three addresses allow one buffer to be freed and its
address reused while two others are on the stack; two slots are passed
when the stack doubles. A first size of 1 makes the condition stack grow at
once; `MaxDepth` is 0 for tidy programs, since that stack and the text share nothing. *Generator*, four families (`AllJobs`): two rules in two conditions, the first
with one of 130 heads, 6 contexts and both anchors (words of three bytes reach
every iteration of the small repeats, and two rules suffice for priorities and
for boundaries of one rule leaking into another); one rule with every kind of
operand alone, with each operator and next to another, with case ignored or not;
up to three lines of section 2 in any order, in blocks nested up to three deep,
or two lines one of which may be wrong or a comment, code, blank (the same
again as two DOS files); up to two lines of section 1. What no file of the run
has is listed under "Not modelled". *Match*: two bytes with three rules give a shorter and a longer
match, a tie, a `$` at either, and a boundary before, at and after each.
*Classes*: three edges over four bytes reach the limit of one class per byte.
*NFAs*: the entries of one condition (with `^` apart) and up to three edges of any kind behind
them, or of two conditions and two edges: loops, circles of epsilon edges, start states with the same
closure, rows that lead back, and sets of bytes that overlap; three bytes give a class of two.
*Tables*: the scanners differ from each other in exactly one of contents, pool,
mode, conditions, states and rules; the cuts fall into every section and inside
words. The prover covers the safety properties of every module but `Generator` and
its parts for all sizes, so the bounds of the others only matter for `ReachesEnd` and `Returns`;
their runs also keep the assumptions of the theorems honest, since TLC evaluates
them on scanners, inputs and tables that exist.

Deadlock is checked for `subset_construction`, `text_stream`, `buffer_stack` and
`generator`, where only a lex that has exited stays as it is (`Exited`). Elsewhere
the system may stop: a jam ends the program (`text_more`), a pass has ended, or
the runs of lex are used up.

**Fairness.** Two runs have it. In `text_more` `FairSpec` is `Spec` with weak fairness of
`Step`, what `yylex` does next by itself together with the caller calling it
again. The loop is sequential code, so an enabled step is taken; nothing is
assumed of user calls or of new input arriving. `ReachesEnd` is that the end of the input or a jam is
reached again and again, unless the actions give back bytes for ever, which `yyless` can.
It needs that no rule has an empty text (`EmptyHead` FALSE): a rule `r/s` with an empty `r`
leaves the cursor where it is and the loop does not end.

In `subset_construction` `FairSpec` is weak fairness of `Build`, the steps of
`build_dfa`, which runs alone; nothing is assumed of the walk behind it. `Returns` is
then that its loops end: every closure, the queue, and the meta classes.

That lex itself ends is the action property `AlwaysFurther`: every step moves on
in a bounded measure (section, position in the text, rule, rows of the DFA), and
no state before the exit is without a step. That needs no fairness.

## 4. Proofs

All theorems hold for every value of the constants under the named assumptions.

**ScanTextProofs** (902 obligations). Assumes `TextAssumption` and `SafeYymore`
(`yymore` only with memory buffers and without `unput` and `return`). `TypeOK`,
`TextEndsAtCursor` and `NoStrayNul` depend on each other: the byte put back by
unsealing is right only if the seal is at the end of the text, which is only at
the cursor if `yymore`'s offset is inside the buffer. The inductive invariant is
their conjunction with `MoreOffsetInBuffer`. Results: `TypeCorrect`,
`TextPlacement`, `SealsUndone`. Three more:

* `LineStarts` (`BolMatchesText`) under `PlainUse`: no `input`, `unput` or `REJECT`; `yyless`,
  `yymore` and empty texts may come in any order. Then the flag is exact at *every* step
  (`BolExact`), not only where it is read: clear behind an empty text, else set at the start of
  a line. `input` and `REJECT` do not set the flag, and `unput` sets it from a byte that is
  not the one before the cursor.
* `MorePrepends` (`MorePrependsPrevious`) under `PlainMore`: with `yymore`, the buffer
  is in memory and actions do not return, reject or put back. `MoreExact`
  says that at the top of the loop the offset is the length of the text to be
  kept, or nothing is left to match: at the end of a memory buffer it may be stale.
* `LinesCounted` (`LinenoTracksInput`) for every set of calls, if lines are counted: a step
  adds the newlines between the old cursor and the new one, in the input with the sealed
  byte put back, and a step backwards takes none off. The property makes no claim about a
  match that `yymore` prepends a text to, as that text is counted again.

**ScanStreamProofs** (850). `StreamImplemented`: every step of `ScanText` is, under
the refinement mapping, a step of `InputStream` or none. It rests on the invariant
above and on lemmas about windows of an array read as sequences (`Seg`): what
taking, dropping and concatenating do to them, and that moves in the buffer and
seals behind the cursor do not change the unread one. `StreamUse` only
restricts scanners that use `yymore`: their buffer is in memory, there is
no default rule (which does not forget what `yymore` kept), and actions do not return,
read or put back input. Without `yymore` every call may come in any order.

**ScanMatchProofs** (992). Assumes `WalkAssumption`. The invariant says what
each body's registers hold of the walk so far: the last position with an
accepting rule of a kind, the last boundary, the longest match of every rule not
yet rejected, and that every rule tried beats what is left. Results:
`TypeCorrect`, `BestRunsFirst`, `RejectionOrder`, `TextEnds`. `RejectionOrder`
(`RejectsInOrder`) is about what is tried, and that no rule is forgotten; that every
*length* of a rule is tried is what the documents say and false (finding 3).

**BufferStackProofs** (1375). Assumes `StackAssumption` and `Careful`. The
invariant is a predicate `Good` of slots, size, top and heap, so that each
action is one fact about how it changes them: slots up to the top are
live and different, only the top may be empty, and no buffer was freed twice.
Results: `TypeCorrect`, `NoDoubleFree`, `StackSound`, `NoGaps`, `NothingLeaked`.
`Full` adds five parts: a live buffer is sealed or ended exactly if the
text's window is in it, and never wrong (`SealsPlaced`); in a tidy program that window
is in a live buffer, and no freed one was written to (`TidyKept`); the file of the current
buffer is `yyin` at *every* step (`FollowsFile`), and there is a current buffer while
the loop runs (`LoopHasBuffer`); the condition stack's depth is within its room
(`StatesFit`). Results: `NoByteLost` (`BuffersIntact`), `OwnFileRead`
(`RestartReadsOwnFile`), `StatesInside` (`StatesAllocated`).

**ByteClassesProofs** (499). The invariant relates the table while an edge is
half applied to the one before it: classes are populated (`TablePopulated`), the
new numbers cut exactly the classes that the edge divides (`RemapExact`), and
the table separates what the edges so far separate (`SeparatesSoFar`). Results:
`TypeCorrect`, `Separation`, `Fitting`, `NoEmptyClass`. That there are never
more classes than bytes rests on a counting argument: every class has a byte.

**SubsetConstructionProofs** (1494). Assumes `NfaAssumption`, which is about the input: edges
between states of the NFA, a class table that leaves no class empty and tells apart
the bytes that an edge tells apart. These two are theorems of `ByteClassesProofs`
(`NoEmptyClass`, `Separation`), and hold for the identity table. The invariant has five parts:

* `Shape`: types, and where in its loops `build_dfa` is (`Control`);
* `Closing`: the set of `eps_closure` lies between what it was entered with and the
  closure, and the states taken from the stack have added their targets. With an empty
  stack the set is therefore closed: `ClosureComputed`, without counting iterations;
* `TableInv`: no set twice and none empty, each start has the number of its closure,
  each entry that is set leads to the right set, each state has a way from a start;
* `RowsComplete`: an entry that is still none, in a row that is neither queued nor being worked
  on, is right to be none. A state queued twice is harmless because what is set already is
  right, and the second round sets the same;
* `MetaExact` itself.

Results: `TypeCorrect`, `ClosureComputed`, `NumberedOnce`, `AllReached`, `RowsAreExact`
(from the representative of a class to each of its bytes by `RepInClass` and
`TargetsOfClass`), `MetaClassesExact`, the action property `NumbersDoStay`, and the
refinement `TableFollowsNfa`: each step of `build_dfa` stutters, each `Begin` and `Read`
is one of `NfaRun`.

**CombTablesProofs** (470). The invariant: every entry of the pool belongs to one
state and is one of its exceptions (`EntriesOwned`), every placed state has all
of its own (`RowsPlaced`), and rows are placed in order (`OrderKept`). Results:
`TypeCorrect`, `NoReadOutside`, `OffsetFound`, `CompressionFaithful`. `PackedWellFormed` links
this module with the next: the offsets and the pool that `compress_dfa` returns, as sequences,
have the ranges and lengths that `WellFormed` of `TablesFile` asks for.

**TablesFileProofs** (2956). Assumes `TablesAssumption` and `ScannersAssumption`:
every scanner is `WellFormed`, that is what the front end makes (all numbers fit
an `int`; the class table has the same length, 256, in all). In four layers:

1. *Words.* `ReadBack`: what `put_i32` writes `yy_read_be32` reads, for every radix and
   every number of an `int`, by the uniqueness of quotient and remainder.
2. *Layout.* `Layout` and `Offsets`: where each section of a file for a scanner starts,
   that the sections follow each other without a gap up to the end of the file, and
   that a file cut off anywhere holds what was written there, as far as it goes.
3. *Steps of the loader.* The invariant's heart is `Loading`: in a file of the program's
   kind the loader stands where the writer put the section that it is about to read,
   the lengths that were compared agree, and the arrays read so far are the ones of
   the file's scanner, while those that no file holds stay the program's. `InRange` says that every entry of every array is in
   range whatever was loaded over it, `NotRefused` that the program's own file is
   never refused, and `DiskOK` which outputs the current run of lex has written.
4. *Theorems.* `AllWritten` (`SuccessInStep`), `WriterAndLoaderAgree` (`OwnFileLoads`),
   `NoCutAccepted` (`LoadedWhole`: after a success, whose each array is), `LookupsInside` (`LookupsStayInside`: the ranges, the
   room at the end of a comb, and for a full table the product of states and
   classes).

The cuts are any set of lengths and the numbers of runs and loads are any numbers
there, so nothing depends on the bounds of the run.

**Only model-checked.** The liveness properties `ReachesEnd` and `Returns`, and all of `Generator`
(`AlwaysFurther` and its six invariants): its operators recurse over texts and trees.
Liveness, induction over data and recursive operators are out of the prover's reach.

## 5. Findings

Checked by runs that end in a violation:

1. **`yymore` in an action that returns** (`codegen.cpp:683`). The offset is
   updated behind the switch of actions, which a `return` skips: `yymore` is
   forgotten, or an old offset prepends old bytes to every later match.
   `README.md:117`: "`yymore()`: prepends the previous match onto the next."
2. **`yylex_destroy` of a non-reentrant scanner** (`runtime.c.in:668`) frees the
   condition stack and the buffers and leaves their size, depth and the validity
   of `yytext`; the next `yy_push_state` writes through a null pointer and the next
   `yylex` into freed memory. `runtime.c.in:658`: "tears down the buffer stack and
   resets the static guts".
3. **REJECT forgets shorter matches** (`codegen.cpp:441`). There is one length for each
   rule, and REJECT clears it: with the rule `a+` and the input `aaa`, `aa` and `a` are not
   tried, and the default rule takes a byte. `README.md:116`: "`REJECT`: full priority-list
   fallback (rule-id ASC, length DESC)"; `docs/lex-howto.md:297`: "either a different rule
   matching the same length or any rule matching a shorter prefix".

Met while modelling, without a run of their own. The models exclude them by
a named condition, and a generated scanner shows them unless noted:

* `yyrestart` after a switch of buffers while `yytext` is valid leaves the
  terminator in the buffer that was left (restriction 2 of `Careful`); a new
  buffer made while `yytext` lies in a freed one gets a byte written into it
  (restriction 1); `yy_delete_buffer` of the current buffer and a new one at the
  same address leaves `yyin` on the old file (restriction 3). `yypop_buffer_state` in an
  `<<EOF>>` action, and then another `yylex`, writes the saved byte into the buffer that
  was freed (`runtime.c.in:439`); `BuffersIntact` has this for programs that are not tidy
  (from the model).
* `yyless` and `yymore` make `yylineno` count a newline twice; `input` consumes a
  newline without `^` noticing, and `unput` sets the flag for `^` from the byte put back,
  which is the *next* one: behind `unput('\n')` a rule with `^` may match the newline.
* `a(\nb)?$` does not match `a` in `a`, newline, `bx`: the ordinary body keeps only
  the last `$` candidate (`DollarOverrun`); the REJECT body finds it.
* With dangerous trailing context (head and context both vary; lex warns) the
  last boundary of the whole walk counts, so the text can be too long.
* An empty character class compiles to an epsilon edge (`nfa.hpp:13`).
* The tables file of a scanner without rules is refused by that scanner: one
  trail length is read (`codegen.cpp:992`), none was written. The loader compares
  neither mode nor number of rules, so a file left by a run in another mode can
  be accepted; a load that fails half-way leaves old and new tables mixed
  (from the model; `LookupsStayInside` shows that this is harmless for `YY_TRANSITION`).
  A load that succeeds leaves the program's own `yy_accept_off` and `yy_accept_pool`,
  `yy_rule_eol`, `yy_boundary_off` and `yy_boundary_pool` and `yy_rule_line`
  (`codegen.cpp:859-903`), which no file holds: a scanner with REJECT or variable trailing
  context that loads the file of another scanner walks the one automaton with the lists of
  the other (from the model).
* `yywrap` is declared and never called.
* A line of section 1 that begins with `%%` and goes on sets the line number to 1
  (`source.cpp:101`); later messages and `#line` directives are off.
* A `]` that comes first in a class is a member for the parser of patterns
  (`regex.cpp:249`), but closes the class for `read_pattern` and
  `find_top_level_slash`: `[] ]` and `[]/]` are refused.
* One operator per operand: in `a**` the second star is a literal, `a{2}{3}` looks
  for a macro `3`. `a{2,1}` is `a{2}`. `a/^b$` loses its `$`. What a definition
  has behind an unbalanced `)` is dropped.
* Behind the brace of an action the line goes on: in `a { x(); };` the `;` is a new
  rule.
* `|` in front of an `<<EOF>>` rule falls through to the next ordinary rule
  (`codegen.cpp:212`: the result of `resolve_pipe_targets` is not used), `<<EOF>> |`
  prints a `|` as code, and `|` on the last rule does nothing.
* The refusal of REJECT with variable trailing context names the rule by its
  number without `<<EOF>>` rules, so it can point at another line
  (`main.cpp:333`).

## 6. Not modelled

* Of the parsers: columns and warnings; the values of the options `prefix` and
  `extra-type`; NUL bytes in a `.l` file; names of conditions of more than one
  symbol; repetition counts beyond 2^31. `parse_args`, input files that cannot be
  opened, skeletons.
* No file of `generator` has an empty character class, a block left open inside
  an action, text behind the brace of an action, a `]` that comes first with a
  blank or slash behind it, two operators in a row, or `|` in front of an
  `<<EOF>>` rule where `ActionsAsWritten` would have to say what it means: no
  document says so. The models of the parsers do what the code does with them.
* `yy_def`: all zeros, never read by the scanner.
* `%array`, `yy_set_bol`, `yy_flush_buffer` alone, user assignments to `yyin`,
  failing allocation.
* In `TablesFile`, lex without `--tables-file` or `--header-file`, output to the
  standard output, and a load while lex writes.
* Formatting of the generated C, `#line` directives, diagnostics, the platform
  layer beyond failing writes, `lib/`, `fuzz/`, tests and build files.

## 7. Plan

Done, in this order: `ScanText` with `InputStream`; `ByteClasses`; `CombTables`;
`BufferStack`; the rule pipeline; `ScanMatch`; `TablesFile`; the two parsers, the
driver and their composition in `Generator`; `SubsetConstruction` with `NfaRun`; proofs of
every safety property outside `Generator` that a passing run checks, of both refinements, and
that the comb fits the tables file.

A next step would be a module that composes `ScanMatch` and `ScanText`, so that REJECT's
remaining lengths and the cursor are in one state; it can take over `text_stream`.
