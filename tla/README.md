# LowFlow: a verification development

LowFlow is a small functional language whose compiler and runtime are written
in C. This directory holds TLA+ modules that model its core: the arena and the
containers, slices and strings on it, the lexer, the pipeline of planning passes
with the logger they write to, and the evaluator. TLC checks the models on small
instances; TLAPS proves for every instance what the arena, the stack, the list,
the conversion between them, the slices, the lexer, the scheduling pass, the
evaluator, the pipeline and the logger promise.

The program is sequential: one thread, no persistence, no messages. What is
hard about it is memory. Every container is a doubly linked list of blocks with
two offsets each, three pointers into the list (head, tail, cursor) and an
element count kept beside it all. Every operation touches some of these, and a
mistake shows only many calls later, at a block boundary, in another component.

## The system

| part | source | state | operations |
|---|---|---|---|
| arena | `core/memory/arena.c` | block list (`prev`, `next`, `left_offset`, `right_offset`, `size`), head, tail, cursor, `block_count`, `size` | init, new block at head or tail, allocate at head or tail, give the head or tail block back, reset, dealloc, search by content |
| stack | `core/memory/stack.c` | an arena starting RIGHT, `elem_count` | allocate at the head, pop, reset, is-empty, search |
| list | `core/memory/list.c` | an arena starting MIDDLE, `elem_count` | allocate several at the tail, first, last, next, previous, reset |
| stack to list | `core/memory/adapters.c:3-82` | none of its own | copies a stack's blocks onto a list's, adding the missing ones |
| arena slices | `core/memory/adapters.c:84-202` | a range of an arena: two blocks, two offsets, a size | init, allocate at either end while the slice owns it, grow over used bytes |
| strings | `core/memory/string.c` | an arena of its own or a slice of one | init, allocate, reset, iterate, compare |
| values | `core/types.h`, `main.c` | the value graph: types, function calls and their arguments | built by hand in `main.c` and the tests |
| val_schedule pass | `planning/passes/val_schedule.c` | worklist stack, schedule stack | walks the graph from the entrypoint |
| flow_partition pass, flows | `planning/passes/flow_partition.c`, `core/flow.c` | a flow: schedule list, frame stack, result stack | makes one flow and converts the schedule into its list |
| evaluator | `runtime/flow.c` | the flow's frame and results | runs the schedule |
| pass pipeline | `core/passes.c` | list of passes, logger | init, push a pass, run them in order |
| lexer | `frontend/lexical_analysis.c` | lists of tokens, lexemes and slices; current lexeme, in-string flag | one scan over the source |
| parser | `frontend/syntax_analysis.c` | list of values | a string token to a value; the rest is commented out |
| logger | `core/logger.c` | settings, one string as its line buffer | format a line and print it |

Everything interacts by direct calls on shared structs: the stack, the list and
the string call the arena; slices share an arena with whoever else allocates in
it; the lexer iterates over a string and grows slices of it; the pipeline walks a
list of passes that passes may push onto; the scheduling pass pushes and pops two
stacks; the partition pass hands the schedule stack to the adapter; the evaluator
walks the list the adapter filled and pushes to a stack that native functions
pop; everything logs.

What makes each part correct:

- arena: the list is one chain through exactly the live blocks, memory handed
  out never overlaps, nothing leaks;
- stack: last in, first out across blocks, and a pop never invents an element;
- list: next, previous, first, last and search agree with the order of
  allocation wherever the cursor is;
- stack to list: the list reads from the top of the stack to its bottom, both
  ways, and ends;
- slices: a slice's range is what it was made of and has been given, nobody
  else's, and it allocates only at an end of the arena that is still its own;
- strings and lexer: the tokens are those of the source's text, whatever blocks it
  lies in, and stay what they are;
- pipeline: passes run in the order they were pushed, each once, and the flow's
  schedule is the one built so far;
- logger: every line is whole, with nothing of the line before it;
- val_schedule: the schedule read from the top is a postorder of the graph;
- evaluator: what is left on the frame is the value of the entrypoint.

`PROJECT.json` lists the hazards at their lines with the properties that watch
each of them, and the lines every definition models. A hazard without a property has a
note that says which condition of the models keeps it out, or that the code has no
other reaction.

## The modules

```
ArenaOps ----- Arena                       the allocator and its clients
   |---------- StackOps --- Stack -(implements)-> Lifo
   |---------- ListOps ---- List
   |---------- SliceOps --- ArenaSlices
   \---------- MemOps
                 |--- + StackOps + ListOps = AdapterOps --- Adapters
                 \--- + SliceOps            = StringOps ---- Lexer
                                                \---------- LoggerOps
Programs ----- ValSchedule
   |---------- + StackOps = Eval
   \---------- + AdapterOps + LoggerOps = Pipeline

ArenaOps ----- ArenaOpsProofs              numbers, sequences, FlattenSeq, arenas
                 |---- + Arena       = ArenaProofs
                 |---- + Stack       = StackProofs
                 |---- + List        = ListProofs
                 |---- + Adapters    = AdaptersProofs
                 |---- + ArenaSlices + Lexer = SliceProofs
                 |---- + Eval        = EvalProofs
                 \---- + Pipeline    = PipelineProofs
```

AdaptersProofs and EvalProofs instantiate StackProofs for the stack and the frame in
them; PipelineProofs instantiates ListProofs for the list of passes and
AdaptersProofs for the schedule and the flow made of it. EvalProofs is also about
ValSchedule, whose schedule the evaluator runs, and is instantiated by
PipelineProofs for what the postorder of a program is.

**ArenaOps** has one operator per function of `arena.c` on a record with the
fields of `LF_Arena`; its `block` field maps addresses to `LF_MemBlock`s and
`live` says which are malloc'ed. A call that may allocate gives the *set* of
arenas it may leave, one per address malloc may return; freed addresses are
handed out again. A pointer is a block and an offset. Loops over the list are
written as the set or sequence of blocks they visit (`Walked`, `Chain`,
`GetElemByContent`). `size_t` wraps at `SizeMod` where the code lets it:
`arena->size` loses a whole block's size at deallocation (`SizeLess`).

**Arena** puts an arbitrary client in front of it, one action per function, and
remembers in `regions` what the client holds. **StackOps** and **ListOps** do
for `stack.c` and `list.c` what ArenaOps does for `arena.c`. **Stack** adds the
contents of memory (`mem`) and what the client last read (`out`), so that the
abstract **Lifo** can be compared with it. **List** keeps the pointers handed
out (`elems`); lookups are actions because they move the cursor.

**MemOps** has what the blocks of an arena hold, for the modules that follow
contents: `Read`, `Write`, and `Junk` where nobody wrote.

**AdapterOps** has `lf_stack_to_list` as operators on a stack and a list, and the
contents that move with it. **Adapters** fills a stack by pushes and pops, grows a
list by whole blocks as `test_adapters.c` does, converts and walks. The blocks the conversion adds come
from a `malloc` that is never cleared: the last block's `next` is any block or
null (`Wilds`), the size of each is `UninitSize`. A list with more blocks than
the stack makes `missing_block_qtt` wrap; the `malloc` of that size fails and
the assert stops the program (`ConvertTooLong`).

**SliceOps** has the functions on `LF_ArenaSlice`: what each does to the slice
and to the arena under it, and the two checks whether a slice still owns an end.
**ArenaSlices** lets several slices and direct clients take turns on one arena
that also moves to new blocks and is reset. Its auxiliary variable `own` remembers
which bytes each slice was made of and given since.

**StringOps** is `string.c`: characters in an arena or in a slice of one. Reading
beyond a block, or memory nobody wrote, gives `Junk`; a comparison that reads
offsets nobody set may give either answer. **Lexer** is `lf_lex`, one action per
branch of the scanning loop, and `lf_parse_expr` after it. What the lexer has to
answer is defined on the text alone (`TokensOf`), without iterator, slices or
blocks.

**LoggerOps** is the logger's initialisation and `lf_log`, with the characters in
the buffer and the line that is printed from it.

**Pipeline** composes: a list of passes from ListOps, a schedule stack from
StackOps, the conversion from AdapterOps and the logger. A client pushes passes
in any order and runs them. Each of the two passes of the repository is one
action, as nothing can come between its steps; a client's own pass logs a message
at some level or pushes another pass onto the list that is being walked. The
debug messages of `val_schedule.c` and `flow_partition.c` go through the logger.
Two initialisations look at a string's arena pointer that nobody set
(`passes.c:38`, `logger.c:36`): what follows is the assert or the normal course,
and the model takes both.

**Programs** declares the program and its schedule, which the passes and the
evaluator share, and enumerates value graphs: arguments point to smaller node numbers,
nodes can be shared, and a node is a value, a definition, a call, or a call of a
function without implementation. `PostorderOf` is the reference order.
**ValSchedule** is `val_schedule.c`, one action per turn of the loop; its stacks
are sequences, which `Stack` is checked to implement. **Eval** is
`lf_eval_flow`, one action per case of the switch, on a real frame from
StackOps. The values are terms, so a lost, swapped or stale operand is seen.
A native function pops its arguments last first, as `plus_fn_native_impl` of
`main.c` does; popping and the reset that follows are one action with the call.
The schedule is the sequence that the converted list walks in order (`Adapters`). How
that walk ends depends on the conversion (`AfterLast`): a schedule that `FitsBlock`
became a list without new blocks, and NULL follows its last value; a longer one ends in a
block whose `next` was never set, and there the walk finds NULL or goes `astray`.
An evaluation that is astray is over for the model: the program may do anything.

Three simplifications hold everywhere. An allocation that fails stops the
program at an assert and is no step. Pointers into different blocks never
compare as neighbours. The element's bytes are one value at its first byte. In
the modules that follow contents through the arena (Lexer, Pipeline) the address
a `malloc` returns is picked once, by CHOOSE: that any address will do is what the
arena, stack, list and slice runs explore.

## The runs

| run | instance | question | result |
|---|---|---|---|
| `arena` | 3 blocks of 4 bytes, requests of 2 and 3, `size_t` mod 8 | does any mix of calls keep chain, bounds, disjointness, accounting and reachability? | holds |
| `stack` | 3 blocks of 2 elements of 2 bytes, 2 values | is it a LIFO over block boundaries, does the count agree with the offsets? | holds when only drained stacks are reset |
| `stack_reset` | the same, resets anywhere | does a pop after a reset answer only pushed data? | violated |
| `list` | 4 blocks of 4 elements, batches of 1 and 2 | do first, last, next, previous and search agree with allocation order? | holds |
| `adapters` | up to 3 blocks of 2 on both sides | is the list the stack, top first, both ways, and does it end? | holds |
| `val_schedule` | every graph of 4 nodes, arity up to 2 | is the schedule a postorder, and does the pass end? | holds |
| `eval` | every such program whose calls are first arguments, schedules of one block and of two | is the result the entrypoint's value, does evaluation end, and in its schedule when that is one block? | holds |
| `eval_any_shape` | calls anywhere | is the result the entrypoint's value? | violated |
| `slices` | two slices, 3 blocks of 2 bytes filled from the middle, requests of 1 and 2 | is a slice's range its own, its size right, its end lost and regained only as it should be? | holds |
| `lexer` | every text of up to 5 of 6 characters, in blocks of 2, 3 and 5 | are the tokens those of the text, do they stay, does the scan end? | holds |
| `lexer_one_letter` | the same | is every word a token with its text? | violated |
| `pipeline` | every order of up to 3 passes, graphs of 3 nodes, 4 logger settings | are passes run in order, is each flow the schedule built so far, is every line whole? | holds |

The bounds. Code on block lists distinguishes the head block, the tail block, a
block in between and the case of one block only; three blocks give all of them,
and a request can fit, fit exactly or miss by one byte at either end with blocks
of four bytes and requests of two and three. The list has a fourth block so that
one exists that is neither an end nor next to one. Block addresses are
interchangeable, hence the symmetry sets; no run with a liveness property uses
symmetry. `SizeMod` is small so that `arena->size` really wraps in the runs.
Four nodes with two arguments give nested calls, shared nodes, calls without
arguments and calls whose arguments are calls on either side. The frame of
`eval` has blocks of one value, so every call pops across a block boundary; its
schedules have up to seven values in blocks of five, so some are longer than a block
and some fill it exactly.

Slices interact with their arena at its two ends and at block boundaries; blocks
of two bytes filled from the middle have room for one byte either way, so a
request of two moves the end to another block and leaves a gap, and one of one
fits exactly. Two slices are enough for one to lose an end to the other. A text of
five characters lies over up to three blocks of two, and words, strings and
boundaries start, end and cross blocks in every position. `"ab"` and `"aba"` stand
for the three keywords, so that one begins another; `=` and `(` stand for the
boundary characters of either sort, `a` and `b` for the rest. The logger's block of
20 characters takes a message of 11 behind the shorter prefix exactly and one of 12
not any more: were it let through, its NUL would lie behind the block, and the printed
line would run on (`Printed`); no time and a time that asks for more than a block are the other two settings. Lists
of passes have blocks of two, filled from the middle: the second pass is across a
boundary, also when it is pushed while the first one runs, and the third follows
it in its block.

Deadlock is checked for the arena, stack, list and slices, which can always go
on. The other models stop where the program stops: after a conversion, at the end
of a pass, an evaluation or a source text, at an assert. Their configurations
switch the deadlock check off.

`RefinesLifo` is the refinement of the abstract `Lifo` by `Stack`: `items` is
the sequence of the elements in the blocks, head to tail, low to high offset.
`ScheduleSoFar` is the loop invariant of the scheduling pass: the postorders of
what is still on the worklist, bottom first, followed by the schedule, always
make up the postorder of the whole program.

`TokensOfSource` is the same idea for the lexer, and its preconditions are part
of what it says: `WellQuoted` and `WellWorded` name the sources the code does not
lex as their text reads (see below). `TokensStay` and `Terminates` hold of those
sources too. `EndsChangeHands` says by which steps a slice may lose an end of the
arena and get it back; `RangeIsOwn` alone would also hold of a slice that refuses
whatever it is asked.

**Fairness.** Only `ValSchedule`, `Eval` and `Lexer` have liveness properties.
Each is one loop of one thread that nothing can suspend, so weak fairness of the
loop's steps is what the C semantics gives: if the loop can go on, it does. In
`Lexer` that is `Lex`; the parser, which a client calls token by token, has none.
The stack, list, arena, slices and pipeline wait for their clients and have no
fairness.

## What the runs found

- **A reset stack still counts its elements** (`stack_reset`).
  `lf_reset_stack` resets the arena and not `elem_count` (`stack.c:29-33`). A pop
  after it moves beyond the block and returns a pointer past its data, although
  the comment in the pop says phantom data is prevented (`stack.c:49-51`).
- **The evaluator drops operands** (`eval_any_shape`). `lf_eval_flow` resets the
  frame after every call (`flow.c:51`). A call that is a second or later
  argument thereby loses the arguments evaluated before it; because of the
  stale count the enclosing call is not even refused (`flow.c:36`). Programs
  that nest only in the first argument, as `main.c`'s, evaluate correctly: that
  is the `eval` run, and `ResetsDrainedFrame` says why.
- **A word of one letter loses its text** (`lexer_one_letter`).
  `_lf_flush_lexeme` takes every lexeme of one character for a boundary
  (`lexical_analysis.c:93`). The parameter `p` of `docs/walkthrough.lf:7` becomes
  a token of type UNKNOWN without a lexeme.

More facts, which the models state or leave out by a named condition:

- Lists. The element before the first one is not null (`PrevInvertsNext` starts at
  the second element). The first block of a list starts in its middle. When the
  first allocation does not fit that half, the elements go to a block of their own,
  the head block stays empty, and `lf_get_first_list_elem` (`list.c:130-139`) answers
  a place in it where no element is. Batches of three in blocks of four do this,
  and so does a list of one element per block, as `flow_partition.c:20` asks for
  against the rule in `arena.h:28-29`. The run's batches fit, and
  `ListFirstIsFirst` has that as its hypothesis `BatchesFitHalf`; every other
  property of lists holds, and is proved, without it.
- Conversion. After one that added blocks, the walk past the last element is
  undefined (`WalkEnds` speaks of the others), and so is the evaluation of a schedule
  of more than 256 values behind its last one (`flow.c:64-66`, the status `astray` of
  `Eval`). A list with more blocks than the
  stack cannot be converted. A stack whose head block has just been popped empty
  would be copied with it, and the list's first element would lie beyond that
  block (`adapters.c:39`); `Adapters` converts stacks in any other state, and the
  passes only ones that were never popped.
- Slices. One kept over a reset of its arena compares its old offsets with offsets
  that went back and passes the check; `ArenaSlices` drops its slices at a reset. A
  slice made over several blocks counts the gaps at its ends (`adapters.c:92-93`),
  which is why `SizeCounts` gives bounds.
- Strings. Iteration holds every block against the last one's right end
  (`string.c:83`): of a source whose last block is not full, characters of the
  blocks before are skipped. `Lexer` pads its sources with spaces. Comparing a slice
  over two blocks uses offsets nobody set (`string.c:117`), so a keyword over two
  blocks may come out as an identifier.
- Lexer. A word right before an opening quote is lost (`lexical_analysis.c:136`). The
  first character after a quote belongs to the string whatever it is: the closing
  quote of an empty string too. An opening quote at the end of a block makes a
  lexeme that starts beyond it.
- Logger and passes. A prefix longer than a block loses the level;
  `PrefixAssumption` is the condition under which it does not. A schedule that is
  built twice is appended to (`FlowIsSchedule` counts the times), and the pipeline's
  own list of flows is used by nothing.

## What is proved

TLAPS checks the theorems below for any set of block addresses, any block,
element, batch and request size the named assumptions allow, any width of
`size_t`, programs of any size and arity, any number of passes, any logger
settings and messages, and source texts of any length in blocks of any size. Where a
property holds of some of these only, the property or the theorem's hypothesis says of
which: the conversions are those of a stack whose head block was not popped empty, and
an evaluation is described up to the last value of its schedule, where it ends when the
schedule is one block.

| module | theorem | states | under |
|---|---|---|---|
| `ArenaProofs` | `ArenaTypeOK`, `ArenaChainOK`, `ArenaRegionsSound`, `ArenaNoLeak`, `ArenaTiled` | every invariant of the run `arena` | |
| `StackProofs` | `StackTypeCorrect`, `StackKeepsShape`, `StackPopsNoPhantom` | every invariant of the run `stack` | `~ResetsAnywhere` |
| | `StackImplementsLifo` | `Spec => RefinesLifo`: the stack implements `Lifo` | `~ResetsAnywhere` |
| `ListProofs` | `ListTypeCorrect`, `ListKeepsOrder`, `ListNextFollows`, `ListPrevInvertsNext`, `ListSearchComplete` | the invariants of the run `list` | |
| | `ListFirstIsFirst` | its `FirstIsFirst` | `BatchesFitHalf` |
| `SliceProofs` | `SliceTypeCorrect`, `SliceRangeIsOwn` | two invariants of the run `slices` | |
| | `SliceSizeCounts` | its third one, `SizeCounts` | `MemoryFits` |
| | `SliceEndsChangeHands` | its action property | |
| | `LexerTypeCorrect`, `LexerTokensOfSource` | both invariants of the run `lexer` | |
| | `LexerTokensStay` | its action property | |
| `AdaptersProofs` | `AdaptersTypeCorrect`, `AdaptersTopIsFirst`, `AdaptersBottomIsLast`, `AdaptersWalkTopToBottom`, `AdaptersWalkEnds` | every invariant of the run `adapters` | |
| `EvalProofs` | `ScheduleTypeCorrect`, `ScheduleIsPostorder` | both invariants of the run `val_schedule` | |
| | `EvalTypeCorrect`, `EvalIsBottomUp`, `EvalNeverShort` | every invariant of the run `eval` | `~AnyShape` |
| | `EvalResetsDrainedFrame` | its action property | `~AnyShape` |
| `PipelineProofs` | `PipelineTypeCorrect`, `PipelinePassesInOrder`, `PipelineFlowIsSchedule`, `PipelineLinesWhole` | every invariant of the run `pipeline` | |

**What is assumed.** The modules' named assumptions: null is no block and no pointer
(`BlocksAssumption`, `NullAssumption`), `SizeMod` is positive, blocks are not empty,
requests lie between one byte and a block, as the asserts of the allocation functions
have it; an element's alignment divides its size, as it does for every `sizeof` and
`alignof`; what stands for junk or for no element is no value; a slice's block size,
being a `size_t`, is below `SizeMod`. Of the pipeline: blocks of the list of passes
hold an even number of at least two, those of the schedule at least two
(`QttAssumption`; the code has 4 and 256), the prefix of a line fits the logger's
block (`PrefixAssumption`, the TODO of `logger.c:84`), and texts of C hold no NUL
(`TextAssumption`). Of the lexer: there is memory for every source, and no more than
`size_t` can count (`BoundsAssumption`); a keyword is longer than one character and
makes one of the three keyword tokens (`KeywordsAssumption`); `Junk` is no character
and `Null` no lexeme (`LettersAssumption`, `LexemeAssumption`). The two hypotheses
`~ResetsAnywhere` and `~AnyShape` choose the way the code is used that the passing
runs have; `stack_reset` and `eval_any_shape` show that the properties fail without
them. `BatchesFitHalf` is the condition found by the proof (above, under lists).
`MemoryFits` says that there are finitely many blocks and that all of them together
have fewer bytes than a `size_t` counts: with `SizeMod` equal to the bytes of all
blocks, TLC finds a slice of every byte whose `size` is 0. Where a proof module
instantiates another one, a lemma (`FrameAssumptions`, `StkAssumptions`,
`PassAssumptions`, `ScheduleAssumptions`) proves that one's assumptions for the
instance, and lemmas `Same...` that the two modules' operators agree.

**Recursion.** The models' recursive functions (`Chain`, `GetElemByContent`,
`GrowSliceTail`, `FlattenSeq`, `PostorderOf`, `Popped`, `Term`, `Filled`) are CHOOSEs, and
the library's induction theorems cannot be applied to them here. The proofs state
induction about sets of numbers instead (`IntervalInduction`, `LeastNumber` of
`ArenaOpsProofs`): the set of the `n` up to which such a function exists, or up to
which it has a property, holds the first number and the successor of each of its
members. From existence comes the defining equation (`ProgramsExist`,
`AfterExists` and the like), and from that what each function returns.

### The arena

`ArenaOK(a)` says that `a` has its type, is `Chained` and is `InBounds`. A chain
is a witness: a sequence `s` of the live blocks, each once, from head to tail,
that agrees with `prev` and `next`. Every operation comes with the new witness:
`InitArena` a sequence of one; a new head block puts it in front, a new tail
block behind; giving a block back drops the first or last; allocation and reset
touch no link (`SameLinksChained`). A lemma per operation (`AllocAtHeadOK`,
`DeallocTailBlockOK`, `ResetArenaOK` and so on) also says which offsets it moves,
for the layers above. `WalkedIsLive` shows that a loop along `next` meets exactly
the live blocks. `ArenaOpsProofs` goes on with the elements: what `ElemsInOrder`
reads off the blocks, from head to tail, becomes at an allocation or a pop.

`IInv` adds to the types the regions: each in the used bytes of a live block, no
two overlapping; and that a deallocated arena has no block. The chain alone is not
inductive, because deallocation needs the bounds and the regions need the blocks
that survive. `Tiled` is inductive relative to `IInv`: each operation moves
an offset over just the bytes it hands out or takes back. It is stated as coverage
(each used byte of a live block lies in some region); with `RegionsSound`, that is
the accounting of every byte.

### The stack

`StackShape` is not inductive: a pop may free the block a cursor in `live`
designates, and a reset or a push needs to know where the arena's blocks start
and how long an element is. `Shape` says that the cursor is the tail, which a pop
never frees, fixes those parameters, and adds `ArenaOK`. `HeadFree` restates the
count: the head block has room for a whole number `k` of elements, so that
whenever an element does not fit there is no room at all, and no gap is left below
a new block. A drained stack has one block (`EmptyHasOneBlock`), which is why its
reset cannot leave room in a block behind the head.

`ItemsIInv` adds that every used cell holds a pushed value (`Filled`). With it a
push puts one element in front of `ElemsInOrder` (`PushElems`), a pop drops the
first (`PopElems`), a search finds one of them or none; that is a step
of `Lifo` each time, and what is read is never `Junk`.

### The list

`ListIInv` has what the shape of a list is (`ListShape`: whole elements in every
block, the head block from its middle, no empty block behind it) and the
elements a client was given as `elems`: they are what the blocks hold, in that
order, and each `Follows` the one before, in its block or as the first of the next.
`PhysicalOrder` alone would not be inductive: a lookup compares a pointer with a
block's last offset, and that needs whole elements and blocks that are not
empty. The lookups move the cursor only, to a live block. `SearchComplete` rests
on `FirstHit`: the search goes from the cursor to the tail and then from the
head past the cursor, and between them these two walks visit all blocks.

### The conversion

`AdaptersIInv` says what the stack is (`StackShape`, the stack's `Shape`), that the
cell of its `i`-th element from the top holds the depth of that element
(`DepthsHeld`), and, once it is converted, that the list is `ListOfTheStack`: some
sequence of blocks, one for each block of the stack, carries the list's links and
holds in its used bytes what the stack's block holds (`CarriedOver`). None of the
three invariants of the run is inductive alone: where the conversion puts an element
depends on which blocks the list had, which ones it adds and what the memory of
those held, and only a chain of blocks says all of it. That the head block of the
stack is not one that was popped empty (`HeadUsed`) is part of it: without it the
list's first element would lie beyond its block. An element's place in the stack
follows from its number, as all blocks but the head are full, and the same
arithmetic gives its place in the list; the lookups then are those of `ListProofs`
over a chain. `WalkEnds` uses that a conversion which added no block left the
tail's `next` null.

### The slices

`SliceIInv` is a sound arena and, for every slice, `Owns`: its two end blocks are
blocks `i <= j` of the chain, its offsets lie in their used bytes, and the bytes
from one to the other are exactly `own`. For each operation there is one lemma for
the slice that allocates or grows and one for all the others (`OthersKept`):
an allocation by somebody else moves an end of the arena away from what a
slice owns or adds a block beyond the chain's end, and leaves the bytes between
the slice's ends as they were. `EndsChangeHands` follows step by step from the
same invariant.

`SizeCounts` needs `CountIInv` beside it: the bytes of `own` are finitely many, no more
than `size`, and `size` is no more than what the range spans between its places in the
chain. Its two bounds go together: only because the span is less than `SizeMod`
(`SpanFits`) does no addition to `size` wrap, and only then does the lower bound survive
the next one. An allocation in a new block adds the gap it leaves to the span and
not to `size`. For a slice that is made over several blocks, `InnerCounts` follows the loop of
`_lf_get_arena_slice_size` backwards from the tail block.

### The lexer

The proof is about a source that is `Laid`: a chain of full blocks, with the `i`-th
character of the text at `Place(i)`, the block `(i - 1) \div q + 1` of the chain and the
offset `(i - 1) % q` in it. `Filled` lays every source so, and the
iterator visits the places one after the other (`NextPlace`). Two invariants follow
the scan.

`LexTypeIInv` holds of every source, however broken: the scan stands at some place
`i`, the lexeme in progress ends at or before it, a lexeme that is being read as
a string exists, and no token with a text has the lexeme in progress. The last is
why `TokensStay`: a slice that a token designates never moves again. An opening
quote at the end of a block makes a lexeme beyond it and still ends before the scan.

`ScanIInv` speaks of the sources that are `WellQuoted` and `WellWorded` and have no word
of one letter, the hypotheses of `TokensOfSource`. Before place `i` the scan is `Idle`,
`InWord` from `p` or `InQuotes` from `p`; the current lexeme `Holds` just the
characters from its first one to `i - 1`, across blocks; and the tokens, together with the
one the lexeme in progress will become, are `TokensBefore(text, i)`, what the text
alone has up to there. `TokensOfSource` is not inductive, as it says nothing until the
scan has ended. Each branch of the loop is one case: which of the three states
follows, what `TokensBefore` gains at that character (`TokensBeforeNext`), and that the flushed
lexeme makes just the token of its text (`PendingSays`). That reads the slice back
(`CoveredText`: over any number of blocks its text is a stretch of the source) and
counts it (the size is the number of characters, so the fast way for words of one
character is taken for soft boundaries only, and a keyword is compared within one block).
`is_reading_str` is the parity of the quotes before `i`.

### Schedule and evaluation

In `EvalProofs`, `ScheduleIInv` is `ScheduleTypeOK /\ ScheduleSoFar`: the loop
invariant of the pass is inductive as it stands, once `PostorderOf` is shown to satisfy its equation for
programs whose arguments point down (`PostorderIs`).

`EvalIInv` says where a running evaluation stands: at a node `n` of the spine of
first arguments with the first `k` of its arguments evaluated. Then the place in
the schedule is fixed by `n` and `k` (`Before`), and the frame holds just the `k`
terms of those arguments, the last on top (`Holds`). The schedule of a program
nested in first arguments runs up the spine (`CallPostorder`), so the next node is
the argument `k + 1`, a value, or `n` itself (`NextInSchedule`). A value is pushed
and `k` grows by one; a call pops `k` terms (`PoppedIs`, over the loop of
`plus_fn_native_impl`), finds the frame empty, and pushes its own term, which is
the first argument of the next node of the spine. The frame is the proved stack:
pushes and pops on it are `PushElems` and `PopElems` of an instance of
`StackProofs`. `ResetsDrainedFrame`, `NeverShort` and `EvaluatesBottomUp` follow
from that place. Behind the last value the frame holds the entrypoint's term; that the
walk then ends is part of the invariant for schedules of one block only (`OneBlock`,
`GoesOn`): `TypeOK` says that only a longer one is ever left `astray`, and `EvaluatesBottomUp`
speaks of the frame both when the walk ends and before it goes astray. TLC checked
this invariant, and each of the others, before it was proved.

### The pipeline and the logger

Three invariants of one specification, each over its own part of the state.

`PassesIInv` is about the walk of the list of passes while it grows: the list holds
what was pushed, the passes applied are a beginning of it, and the pass being
applied is the one at the next place. `PassesInOrder` alone says nothing of
`cur_pass`. A pass that pushes another one adds an element behind all others; the
lookup of the next pass, in the list the pass left, is `NextFollows` of `ListProofs`.

`ScheduleIInv` of `PipelineProofs` is about what the passes build: the stack holds, top first, the
postorder of the program once for every time the schedule was built, and the flow
holds what the stack held at the last partition, in an order its lookups follow.
The walk that pushes (`Pushes`) gives the reversed postorder (`PushesAre`, from
`EvalProofs`, whose `PushOrderIs` builds the walk up over what is still to visit);
pushing it puts the postorder in front; the conversion carries the elements over. That the number
of builds before the last partition is what counts needs the history of applied
passes, in which `BeforeFlow` picks the last partition.

`LoggerIInv` says that the buffer is one block for ever and the last line is whole,
and says what it was told. A buffer of one block is inductive since a line's pieces
are allocated in a block that was reset, in the room the assumption and the fatal
check leave; then each piece is in its place, one behind the other, and printing
stops at the NUL behind the last, whatever an earlier and longer line left beyond it.

### Only model-checked

`ScheduleEnds` of the scheduling pass and `Terminates` of the evaluator and the lexer:
liveness under fairness, which is outside the prover's reach. Every invariant and every
action property of the passing runs, and the refinement of `Lifo`, is stated by a theorem;
the properties of the three other runs are false of the code, as TLC's traces show.

## What is not modelled

Printing (`lf_debug_*`, `types.c`), names, argument types and payloads are left
out: no control depends on them. Of the parser only what is compiled is modelled;
the rest of `syntax_analysis.c` is commented out. The logger is modelled with
prefixes that fit its block, and the time's format as a text of some length.
`lf_compare_string` is modelled as its only callers use it, a slice with a text;
slices grow by one byte, the only size a caller asks for. `SYMBOL`, `LIST`,
`SEQ` and `DICT` values are left out of `Programs`: the passes would read their
union as a call's. Alignment padding is in the models (`PaddedSize`), but an
element size that is no multiple of its alignment is not, because every caller
passes `sizeof` and `alignof` of one type.

## Plan

1. Done: arena, stack, list, conversion, scheduling, evaluation; slices, strings,
   lexer, logger, pipeline.
2. Done: the proofs of the arena, the stack and its refinement of `Lifo`, the list,
   the slices, the lexer, the conversion, the scheduling pass, the evaluator, the
   pipeline and the logger.
3. A pipeline with prefixes beyond a block.
