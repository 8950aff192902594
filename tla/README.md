# jsonv in TLA+

jsonv is a C library: a chained arena allocator, a non-recursive JSON parser, an event
parser, a YAML parser, a tree of values with shared shapes, and a JSON Schema compiler whose
bytecode a small machine runs. The modules in this directory model its components, TLC checks
them on small instances, and TLAPS proves the main results for every value of the constants.
Paths are relative to the repository; in this text `src/src/` is left out before the C files.

## 1. Inventory

| Component | Source | State it keeps | Operations | Correct when | Module |
|---|---|---|---|---|---|
| Arena | `comm/struct/arena.c` | chain of blocks, `current`, used bytes, `total_reserved`, the error of each thread | new, alloc (null or raise), reset, reset_to, destroy | regions handed out are disjoint, backed, aligned, accounted for, under the limit | `Arena` |
| Exceptions | `comm/utils/except.[ch]` | `Except_stack`, one for the process | TRY, RAISE, RETURN, END_TRY | a raise reaches the innermost TRY still running | `Context` |
| Context, public API | `ctx/ctx.c` | the context inside its own arena, AST, key tree, last error | compile, new, parse, validate, get_value, reset | the context survives; a parsed document is usable until the reset; false means an error is reported | `Context` |
| Shape tree | `shape/shape.c` | tree of key lists for the whole process, under `shape_mutex` | root, transition_add, lookup, clear | one transition for a key; slots dense and stable | `ShapeTree` |
| Objects | `shape/obj.c` | shape, slots | new, set, get, key of a slot | behaves as a map | `ShapeTree`, `Values` |
| Arrays, values, paths | `shape/arr.c`, `value.c`, `path.c` | items, reference counts | get, set, retain, release, path lookup | arrays are lists; counts are right | `Values` |
| Serializer | `shape/serialize.c` | output buffer | serialize | the text denotes the value; it fits the buffer | `Values`, `JsonLexer` |
| Lexer, prescan, unescaping | `parser/lexer.c`, `prescan.c`, `unescape.c` | position; counters | next token; estimate | tokens as in RFC 8259; the estimate is enough | `JsonLexer` |
| JSON parser | `parser/parser.c` | control, scope and node stacks, AST | parse, find, paths, conversion | accepts JSON, builds its tree, every reader sees the same | `JsonParser`, `Ast` |
| Key tree, key set, stack | `parser/keytree.c`, `comm/struct/set.c`, `stack.c` | search tree; hash table; growing array | insert, ordered walk; push, pop | keys once and in order; never over capacity | `Ast`, `KeySet` |
| SAX parser | `parser/sax.c` | recursion | parse with callbacks | same language as the parser, events tell the value | `Sax` |
| YAML lexer, parser | `parser/yaml_lexer.c`, `yaml_parser.c` | indentation stack, owed tokens; recursion | next token; parse | the tree of the value the layout stands for | `YamlLexer`, `YamlParser` |
| Schema compiler | `validation/schema.c` | bytecode with offsets | size pass, emit pass | both passes agree on every offset | `Schema` |
| Validator | `validation/validate*.c` | program counter, error | run | the verdict JSON Schema says, an error that is true | `Validator` |
| Memory, atoms, tables | `comm/utils/mem.c`, `comm/struct/atom.c`, `table.c` | internal arena, atoms, keyword and type tables | compile the first schema, intern, free_all | nothing dangles; keywords are known after a new start | `KeywordTables` |
| Command line, fuzzer, tests | `src/main.c`, `src/fuzz`, `src/tests` | | | | not modelled |

Interaction. What a context builds lies in one arena, the context itself first. Each public call is a
sequence of allocations any of which may return NULL or raise; a raise jumps to the frame on
`Except_stack`. The shape tree is the one structure all threads share; objects in arenas point into it,
and it points at keys in arenas. Both text parsers build the same AST, key tree and key set; the
converter, `find_property` and the paths of errors read it, and the schema compiler and the validator walk it.
The keyword tables are built by the first schema that is compiled and end with `jsonv_free_all`.

What is hard here: size arithmetic at its limits; sequences of growth, trim and reset; a failure
between two steps of a call; frames left by a `return`; memory taken back while a pointer to it stays; two
threads at the mutex; a raise inside the critical section; two walks that have to count alike; two parsers that have to
read alike; indentation that nobody closes. `PROJECT.json` lists the hazards with their lines.

## 2. Modules

| Component | Promise | Model | Instance for TLC | Proofs |
|---|---|---|---|---|
| Arena | `RegionAllocator` | `Arena` | `MCArena` | `ContextProofs` |
| Context | | `Context` on `Arena` | `MCContext` | `ContextProofs` |
| Shapes, objects | `ObjectMaps` | `ShapeTree` on `Cells` | `MCShapes` | `ShapeProofs`, `RecursionLemmas` |
| Values | `Containers`, `JsonGrammar` | `Values` on `Cells` | `MCValues` | `ValuesProofs`, `RecursionLemmas` |
| JSON lexer | `JsonText` | `JsonLexer` | `MCJsonLexer` | `JsonLexerProofs`, `RecursionLemmas` |
| JSON readers | `JsonGrammar` | `JsonParser` on `Ast`, `KeySet`; `Sax`; both in `JsonReaders` | `MCJsonReaders` | `ParserProofs`, `GrammarProofs`, `RecursionLemmas` |
| YAML | `YamlLayout` | `YamlParser` on `YamlLexer`, `Ast`; `YamlReading` | `MCYaml` | |
| Schemas | `JsonSchema` | `Validator` on `Schema` | `MCValidator` | |
| Keyword tables | | `KeywordTables` | `MCKeywordTables` | `KeywordTablesProofs` |

### Arena
`RegionAllocator` is the promise: a set of disjoint live regions that an allocation extends and a reset
cuts down to a prefix. In `Arena`, `chain`, `cap`, `used`, `cur`, `reserved`, `cfg`
are the fields of `Jsonv_Arena` and its blocks, `lastError` the error of the thread, `ret` what the
call returned, and `live` (not in the code) the regions clients hold. Every call is one action,
since an arena belongs to one thread; each early return of `jsonv_arena_alloc` is an action of its own
(`AllocNoArena`, `AllocOverflow`, `AllocLimit`, `AllocCurrent`, `AllocRecycle`, `AllocRaises`, `AllocCreates`), and
`raising` tells `arena_alloc` from `jsonv_arena_alloc`. Arithmetic is modulo `Word`, the range of `size_t`.

### Context
`Context` EXTENDS `Arena` and adds `ctx.c` and the frames of `except.h`. A parse is a sequence of
steps, one for each allocation of `parse_to_ast`; documents are records (length, values, what prescan
and parser raise, whether they conform). `data` says how much of which document the AST holds, `frames` is
`Except_stack` with `"host"` and `"dead"` frames, `status` how the process ended, and `parsed` (not in the code)
which document the last successful parse left. A step through a dead frame or a stale pointer
ends the process with a status of its own.

### ShapeTree
`ShapeTree` is `shape.c` and `obj.c` with a step wherever another thread can run: waiting for `shape_mutex`, the
critical section, the reading of `root` after it, and what follows. `content` is what the memory of keys holds,
`used` how far each arena is used; shapes hold cells, not names, as the code holds pointers. An allocation
inside the lock may return NULL (the lock is released) or raise (the mutex is `Lost`). `ObjectMaps` promises
each thread a map of its own. `KeyAt` is `shape_get_key_at`, the way back from a slot to its key, which the serializer goes. `ShapeSpec` leaves the resets of arenas out, `ResetSpec` has them.

### Values
`Cells` is how the slots of objects and the items of arrays grow, by `Doubling`, which also gives the powers of two that tables of keys have. `Values` has many containers that one host fills: `SetItem`
and `SetProperty` are `arr_set` and `obj_set` with what they do to reference counts, `WritePast` the write behind an
array that could not grow, `Written` and `Buffer` the serializer, `GetPath` the path
lookup. Leaves are four classes: a string (which stands for all values that behave alike), null, a number without a text, and undefined.
`jsonv_val_obj(NULL)` counts as null. `Containers` is the promise: an object maps names to values, an array is a list. What
the text should be is `JsonGrammar`, the definition the parsers are held against.

### JsonLexer
`JsonText` puts the words of JSON together from their parts: characters with the bytes of RFC 3629, escapes,
numbers. `JsonLexer` is `lexer.c` byte by byte, one action for each token; a scanner is an operator from a place to the
place behind what it scanned, or 0. `WriteBack` is the serializer's `write_escaped_str` on the one string that was
read, up to its first NUL as `val_str_len` counts, and the text is then read again. `Unescaped` is `unescape.c`, and `Prescan` is `prescan.c` on the same bytes. The configuration's
own limits, which the prescan compares with its counts, are in `Context`.

### JsonParser, Sax, JsonReaders
`JsonGrammar` says what JSON is without a parser: the set of texts of up to some number of tokens, each with
the value it stands for, made by one operator for each production (`ArrayOf`, `MoreMembers`, ...) from texts a token shorter, as a recursive
function of the size. `JsonTokens` is what both readers are given. `Ast` is what the two text
parsers build: `nodes` the AST, `keys` the set of scoped keys, `keyTree` the pool of `keytree.c`, `scopes` the open containers (the three
integers of a scope are one record); and `FindProperty`, `PathOf`, `ToValue`, the three ways the library reads it. `KeySet`
is `set.c`: a table that never grows, probed from the hash of a key, the hash a constant operator. `JsonParser` is
`parse_ast`: one action is one turn of the loop, `Match` for a terminal and one `Expand...` for each rule, and `capacity` the size the
prescan's counts give. `Sax` is `sax.c` with its recursion as frames and a host that may stop it at any event. `JsonReaders` runs
one and then the other on one text. Names are numbers in alphabetical order, numbers and literals one
token `Scalar`. The lengths of names are given as sets: a name in `LongName` is one the set refuses (64 bytes with the scope's number), one in `HugeName`
is over the 65535 bytes from which `link_node_to_scope` puts a key nowhere (`parser.c:162`). `MAX_OBJ_KEYS` is the size of the array in which `ast_to_value` orders
the keys of an object without counting them (`parser.c:681`): with more, `ToValue` is `Anything`. The host gives every callback.

### YAML
`YamlLayout` writes values down as blocks and flow style, with no parser in mind. `YamlLexer` is the lexer on lines of items (words,
quoted strings, marks), with the indentation stack, owed `DEDENT`s, flow depth, comments, tabs and block scalars.
`YamlParser` is the recursive descent with one token of lookahead as a stack of frames; an action is what happens between two calls,
two turns of a loop or two tokens, and the AST is that of `Ast`, built by `LinkNode` with YAML's own rule: a long key goes into no table
(`yaml_parser.c:74`). `YamlReading` compares the value read with the layout's without those keys (`Shortened`). `YamlLayout` lays out the constructs of
`docs/yaml_parsing_spec.md`, except that `~` and `yes`, `no`, `on`, `off` are words like any other, as the lexer reads them (section 5). Abstracted: a colon is followed by a blank; each line ends with
a newline; a word of several parts is one name; block scalar text is kept as it stands; the
AST has room for the document; limits of the prescan are not judged; the name of the key a literal would be is the empty name.

### Schema and Validator
`JsonSchema` says what the keywords mean, by quantifiers over the parts of a value. In `Schema`, `OwnSize` and
`Offset` are the first walk (`calculate_schema_size`), `Emitted` and `Serialized` the second (`serialize_schema_direct`), both in
the order of `visit_subschemas` (`Walk`). A keyword may occur twice in a schema: the parser marks its nodes, and what each walk still
makes of a marked node differs by keyword (`Skipped`, `Read`). `Validator` is the machine of `validate.c` with the handlers of
`validate_opcodes.c`: `code` maps addresses to instructions, a frame of `frames` is one call of `validate_bytecode`, `Calls` the calls a
compound instruction makes, one `Call` each, until `IsSettled`; `Conclude` is its end. `Compile` and `Validate` are
the calls of the host; one schema validates any number of documents. A program counter that is at no instruction ends in
the verdict `"wild"`, which stands for any: the bytes there decide. The compiler writes `bytes` for an instruction, its handler reads `Consumed`; only their
agreement keeps the program counter on the code. `ToInt32` is the cast of the limits of lengths, items and properties, undefined for what no `int32_t` holds: the
model takes both what x86-64 and what AArch64 make of it. A document holds names as they are spelled, and `Means` what they mean: `required`, `properties` and patterns
unescape them, while `uniqueItems` compares, `minLength` and `maxLength` count and formats read the bytes as written (`Equal`, `Size`, `Conforming`), and `propertyNames` reports
them so. `VerdictRight` and `ErrorTrue` therefore speak of documents without escaped names or of schemas without these keywords (`ReadsMeaning`), and of limits that fit (`IsLimit`).
`Cut` is what the 64 bytes of `item_path` leave of a path. Abstracted: numbers count halves; patterns and formats are given relations, the length of a
spelling is given; a path is cut at a whole step, `ItemPath` steps standing for the 63 bytes; strings stay with their instruction, not in the constant pool; objects
have distinct names, since `JsonParser` shows that readers skip the others.

### KeywordTables
The internal arena of `mem.c` with its two flags, `atom_new`, the tables of `schema.c` and `jsonv_free_all`. `memory` says for each
address whether the arena or the heap has it, `atoms` which strings have an atom, `ownAtoms` the static
arrays of atoms. Building the tables is one step for each atom and each binding, and each may raise and leave what
was built. A bucket is found by full comparison, so a table is a set; the order in which names are taken is left open.

## 3. Runs

| Run | Result | What it shows |
|---|---|---|
| `arena` | pass | regions disjoint, backed, aligned, accounted for; implements `RegionAllocator` |
| `context` | pass | context kept, document usable, AST with its own tree, failures reported, a parse lets no exception out |
| `shapes` | pass | one transition for a name, dense slots with a key that leads back to each, implements `ObjectMaps`, the lock is let go |
| `shapes_leak` | violation `NoLeak` | the keys of a reset arena change under the objects of other threads |
| `json_readers` | pass | the parser accepts exactly JSON and builds its tree, keys, values and paths; so does the event parser with its events; where the two differ; both end |
| `json_lexer` | pass | what is a token and what is malformed, the characters a string stands for, that a written string reads as the same string, and that the prescan counts enough |
| `yaml` | pass | regular layouts are read as what they lay out; who opened an indentation closes it; the AST answers all readers alike; each parse ends |
| `yaml_sequence` | violation `NestingRead` | a block behind a bullet takes the keys and items of the blocks around it |
| `values` | pass | implements `Containers`, reference counts are right, a text denotes its value or fails for a cycle or a number without a text |
| `validator` | pass | the machine's verdict is the keywords' meaning, its error a true fault, and it ends |
| `schema_offsets` | violation `StaysOnCode` | `required: []` or a repeated keyword puts all later offsets off the code |
| `keyword_tables` | pass | no table or atom is reached in memory that was taken back; keywords are known again after a new start |

### Bounds
`arena`: a word of 1024, three block names and a heap so small that malloc fails; sizes
include 0, one unit, a block of its own, more than the ceiling, and sizes at which `align_up` and the block size wrap, so every overflow
test has both outcomes. Three blocks are the least for an insertion in the middle of a chain and a trim of more than one.

`context`: documents for each way a parse can end; arenas that hold all, some or none of a parse, and one whose blocks are smaller than a context.

`shapes`: two threads, two names, three keys, and slots that start at one, so that objects grow and both threads reach the same
shape. `values`: two containers, which may hold each other and themselves, up to three items or two properties, growth from one to
two to four; indices that leave a gap and a negative one; buffers of every size from one byte.

`json_readers`: four names, one long and one too long for the tree, so that the set's and the tree's limit both have keys at either side; every text of up to nine tokens; objects of three members with plain
values and of two with values that have parts, which are the least in which a key tree branches both ways, a
duplicate comes third, and a skipped value has parts of its own; the nesting limit is two, so that texts at the
limit and above occur; objects of four members, where the conversion has room for three keys; all texts of up to six tokens with one token dropped, replaced, put in or unreadable. The hash puts several keys in one bucket.

`json_lexer`: one or two string pieces at every boundary of UTF-8 and of the surrogates, escaped or not; strings of up to four bytes
around the boundaries of continuation bytes; each string alone is written and read again, the control characters with
and without a short escape and the NUL among them; every run of up to five of the characters `+ - . 0 1 e`; up to three words with and without
blanks between and a byte order mark before.

`yaml`: all layouts of up to four keys and bullets around a word, of up to two around every kind of scalar and block scalar text, flow style;
comments, blank lines and tabs between; small layouts with one item changed. A nesting limit of four, so that layouts at it occur, and blocks of five levels, so that the lexer refuses a
fifth indentation. Blocks of up to three keys of which two are one long key, a long key in flow style, and mappings of four keys where the conversion has room for two.

`validator`: every keyword with values that some document fails and some meets, all pairs of a simple and
any other keyword (so that instructions of every length precede others), every combination of property, pattern and additional rule, compound
keywords inside compound ones (offsets across three levels, items across four), and schemas no standard allows: limits one past `MaxInt32`, negative and not whole among them; documents of every type, arrays of
up to three items and objects of up to two members, some nested or equal up to the order of members, names with an escape, and parts three and four steps deep where paths of items have two.

`keyword_tables`: two keywords, one type name, one other name, five addresses: one more than there are names,
so that what the heap keeps for ever leaves room for a part of the next start.

Deadlock is checked where the cfg does not say otherwise. It is not where a finished parse stops (`json_readers`, `json_lexer`, `yaml`), where
the model ends the process (`context`, `values`), and in `shapes`, where hosts stop once their arenas have no room for another
key and a lost mutex blocks those who wait for it.

### Fairness
`ReadersSpec`, `YamlSpec` and `ValidatorSpec` have weak fairness of a reader's or the machine's steps: one thread runs them and
nothing blocks it; no host is made to call. In `ShapeSpec` a thread inside a library call goes on running
(`WF(Step(t))`), which the scheduler of the operating system gives. Nothing is assumed for those who wait for the mutex, as POSIX
promises nothing; so `CallsFinish` is about the thread that has it. The other specifications are about safety and have no fairness.

## 4. Proofs

`ContextProofs`, its first part, about the arena. `IInv` adds to the properties that block names on the chain are distinct and blocks
off it empty, that used bytes stay below capacity and keep the alignment, that regions of one block
do not overlap and are aligned, and that the head is the block the arena was made with. Each call has a
lemma (`NewCreatesStep`, `AllocCurrentStep`, ...), `NextIInv` joins them, and the
theorems follow: `LivePlaced` in its parts and as a whole (`PlacedRegions`), and the ceiling (`CeilingUnlessOversized`).
`ArenaRefinesRegions` maps each call to a step of `RegionAllocator`. `ReservedIsExact` is about a sum over the chain, a recursive function
of its length: what an insertion in the middle and a trim do to it is proved by a least counterexample (`RecursionLemmas`), and the
counter never wraps because malloc can not give out more than there are addresses. Assumed of the constants: a word larger than
a header and an alignment, sizes and configurations within it (the ASSUMEs of `Arena`).

`ContextProofs`, its second part. `CtxInv` adds to the arena's invariant where the context is (`CtxPlace`: the first region of the head once
something was allocated), what the frames can be, what a call in progress knows of its context, and how far a parse
is (`ParseProgress`). Since each action of `Context` is on the arena's variables a step of `Arena`
(`ContextUsesArena`), the arena's lemmas carry over. `ParseNeverEscapes` needs that no request comes
within a header of `SIZE_MAX`, since `ARENA_OVERFLOW` is not among the exceptions a parse handles.

`ShapeProofs`, for any number of threads, names, keys and first capacity. What a lookup returns is a recursive function of the tree, along
parent links. That such a function exists, with values where they should be, is `RecursionExists` (`RecursionLemmas`); what holds of it is proved by a least
counterexample, which a set of natural numbers has (`LeastNat`): `SlotsUnfold`, `SlotsBound`, `SlotsDistinct`, `SlotsAgree`.
The same way `DoubledEnough` (also in `RecursionLemmas`) shows that doubling ends with enough room, and `KeysLeadBack` that
the key of a slot is looked up in that slot. `ShapeInv` says of the tree that links lead towards a root with one slot more at each, that
keys are written before they are linked, that transitions and parents match and that no shape has two transitions for one name; and
of each thread that its object has room for its shape's slots and that its call in progress knows a key, a shape and an old shape
that fit. It is stated over rigid trees, so that lemmas speak of the tree before and after a step alike; that a tree only grows (`TreeGrows`) is why
one thread's step keeps what the others know (`ThreadKept`). From it follow `TreeStaysWellFormed`, and `ShapesImplementMaps`: each step is a step of `ObjectMaps`
or a stutter for the objects read through `Get`. Assumed: NULL is no key, object or map, and a name has finitely many cells (the ASSUMEs of `ShapeTree`).
Resets of arenas are not in `ShapeSpec`; with them the result is false (`shapes_leak`).

`KeywordTablesProofs`, for any names, addresses and pattern of failures. `TablesInv` adds to the properties that what tables and atoms lie in is
kept, that no two atoms have one name or address, that static atoms are atoms of their names, and what each stage of a build has done so far (`StageOK`,
`TablesComplete`). `KeywordsAreKnown` has the exception of a table that a raise left half built (`interrupted`).

`ValuesProofs`, for any containers, names, indices and leaves. `ValuesInv` says that each container has room for what it holds, nothing behind it
and only containers that were made (`HeapOK`), and that its count is the number of cells that refer to it (`CountsOK`). Its
lemmas are about a heap before and one after a call, not about the state: the references to a value are a finite set, writing one cell
takes at most one member out and puts one in (`RefsWritten`), and retaining the new value and releasing the old one is just that (`PutCell`), also where both are the same or
are the container itself. `ValuesImplementContainers` then has one lemma for each call: an array padded over a gap is the list set
there, an object whose shape got a key is the map with the name (`ItemSet`, `PropertySet`). Assumed: containers are not leaves, and NULL is no container or value
(the ASSUMEs of `Values`).

`ParserProofs`, for any texts of tokens and errors, names, hashes and limit of nesting. `ParserInv` says that right below each closing bracket
on the stack of symbols lies the mark that ends its scope, so that there are as many marks as scopes (`StackOK`); that parents are earlier containers and each scope counts
its children, linked in order (`TreeOK`, `Nested`); and that the tokens read so far are the nodes built, except a bracket
still expected, with the parser's depth the number of scopes (`Balanced`). `EstimateIsExact` then compares two recursive functions, the prescan's count along
the text and the nesting of a node along its parents, both by a least counterexample. The table of keys needs `DoubledEnough`
again. Assumed: a text is a sequence of tokens and errors, and the limit a natural number. `NestingJudged` is a part of `Verdict`.

`KeysStayOrdered` is proved there too, from `ParseInv`, which adds two parts to `ParserInv`. `StackInv` says what the parser's table of symbols
keeps and its tree does not show: each end mark and closing bracket on the stack belongs to the open object or array at its place, and an object has an even
number of children just where no value is due (`Owned`, `Paired`), so that a string is linked as a key just where it is one. `KeysInv` is about the key structures: siblings are a
chain behind the first child (`KidsOK`), the links of the tree pool go onward (`PoolOK`), the set holds exactly the keys short enough for it
(`SetOK`), and each object's tree holds, in order, its keys but those it had before and those too long for it (`ObjectOK`, `EntersTree`). It rests on three sets of lemmas: linear probing finds the key or a
free place as long as the table has one, which the estimate of the prescan grants and `DoubledEnough` keeps (the table never grows); a walk
along chains that only go onward ends and is not changed by what is appended behind it (`RecursionExists`, `OnwardExists`; the walks themselves, over rigid pools, are in `RecursionLemmas` too); and what the descent of
`key_tree_put` links in is one key more in the order of the tree, also where the name is there already. Assumed in addition: a hash is a natural number.

`GrammarProofs`, under the same assumptions: the two readers accept the grammar and nothing else. `JsonGrammar` enumerates texts by size, so the first part
frees them from it: the recursion has a unique solution (`UptoUnfold`, by a least counterexample), a text of n tokens is there from size n on and stays (`Sized`, `UptoStays`), and
so `ValueTexts`, `ItemsTexts`, `MembersTexts` and `PairTexts`, the texts of any size, obey the productions in both directions (`...Cases`, `...Made`). Every symbol
the parser's stack can hold then stands for a language (`Lang`), and a stack for the concatenation of its symbols' (`Stacked`). The invariant, `Reading(doc, pos, controls)`, says that
the text is what was read and a rest such that every word of the stack's language completes what was read to a value, and that the rest is in that language
if the text is a value. It needs both directions: the first makes acceptance sound, the second makes a refusal right, and each row of the table keeps
both only because one token of lookahead, or two at a bracket, leaves one production (`Replaces`: what a rule is replaced by is part of its
language, and all of it that begins with the tokens ahead). That rule needs to know what lies below: what may
follow the elements of an array is told from its `]` (`Placed`, `StackedClose`). `ParserReadsTheGrammar` and `SaxReadsTheGrammar` follow, for texts of any size.

The event parser has no such stack, but its frames and stage stand for one (`Frames`, `SaxReads`): `loop` with `first` set stands for "elements or none", a symbol that the
parser's table does not have (`ANY_ELEMENTS`). `SaxDepths` counts brackets along the text: as many frames are open as the text up to here
opened and did not close, and every token before was at most `MaxSaxDepth` deep, except a key whose value is still to be refused.

What the readers make of a text is gathered from it a token at a time (`Gather`, a recursive function, since tlapm knows nothing of `SelectSeq`), so that a step
that passes a token adds its event or node and nothing else (`GatherGrows`). `ToldInv` says that the events heard are those of the tokens passed: that a string is
told as a key just where a colon follows needs `SaxReads`, because the stage knows what the string is before the colon is seen. `NodesInv` says the same of the nodes of
the AST, where an opening bracket has its node before it is passed. `EventsComeInOrder` follows from the first. `BothReadersAgree` compares the two
gatherings (`HeardIsMade`) and the two ways to measure depth: the prescan's maximum over the whole text, the event parser's frames, and the brackets
open at each token (`CountedDepth`, `DeepIsCounted`, `ShallowIsCounted`), where a text that is accepted never closes what it did not open (`PassedInv`). It assumes
`MaxDepth = MaxSaxDepth`, as in the code: `parser.c:18` and `sax.c:6` define both as 64.

`Verdict`, `SaxVerdict` and `EventsTold`, which the runs check, speak of `Texts`, the meanings a configuration is given. `VerdictIsRight`, `SaxVerdictIsRight` and `EventsComeInOrder` therefore assume
`MeaningsComplete`: the larger meanings given in addition (`Wider`) are values of the grammar, and no document that is one is missing. That is so in `MCJsonReaders`, whose documents
are texts, and neighbours of texts, of at most `MaxSize` tokens, and those of `Wider`.

`ValuesFollowTheGrammar` is about what `ast_to_value` makes of an accepted text. It needs to know which tokens a node was made of, which the AST
does not keep. `SpanInv` says that there are spans, a first and a last token for each node: a leaf's is its token, a container's goes from its opening bracket to
its closing one, and its children's lie between, in order, with just a comma or colon between two (`Spans`); of the containers still open it says where their
next child begins (`Awaited`). These two rows are not state but witnesses of an existential, extended at each step that links a node and fixed when a scope
ends (`ParserProofs`). Once the text is accepted, a span is a text of the grammar (`Stands`): the nodes are taken from the last to the first, each after its children, and an array's
items or an object's members are put together from the right, as the productions do (`ItemsRead`, `MembersRead`). For an object, `ast_to_value` sets the pairs in the order of the key tree and the grammar in the order
of the text: both are the map of each name to the value in its first pair (`MapsAgree`), because the tree holds all keys but those whose name the object had before, which are
skipped (`ObjectOK`). That is false of a name too long for the key set when it comes twice, of a key too long for the tree, and of an object with more keys than the array of
the conversion holds, whence `Convertible`, which both theorems about values assume of the document. Of a skipped node only the tokens have to be those of a value, since none is made of it (`Lost`).
`ValueIsRead` is the property the run checks. It assumes `MeaningsKnown`, that all the grammar can make of a document is in `Meanings`; so it is in `MCJsonReaders`:
a value of at most `MaxSize` tokens is there by definition, and the larger documents are those of `Wider`, which come with their values.

`JsonLexerProofs`, for any documents, of any bytes: `PrescanCoversTheText` and `UnescapedStringsFit`. The prescan and the lexer read the same bytes by different rules. The first
knows quotes and backslashes; the second escapes, surrogates, the widths of characters, numbers and words. `LexerInv` says that they keep in step (`ReadUpTo`): up to the byte before the
lexer's, the prescan is outside every string and its counts cover the tokens read, exactly for braces and brackets and at least for values. A lemma for each scan shows
that it is kept: through a string the prescan stays inside and meets the closing quote where the lexer does (`\u` is for it an escape and ordinary bytes, a character's later bytes are none it knows), and a number,
whose `-` and digits it each counts, or a word only adds values. The scans are recursive functions, which have their values by `AscentExists` (`RecursionLemmas`: a function each of whose
links leads onward) and are reasoned about by a least counterexample. After `WriteBack` the prescan begins again, and the text written begins with a quote and so with no byte order
mark. `UnescapedStringsFit` needs none of that: `UnescapingFits` says of every sequence of bytes that each piece `unescape.c` writes is no longer than what it read, the four bytes of a pair
of surrogates against twelve. Assumed: a document is a sequence of bytes (`DocumentAssumption`). `UnescapedStringsFit` is one conjunct of `TokensRead`; the others compare
the tokens with those a document comes with, which only the texts of `MCJsonLexer` give.

Only model-checked: liveness, which this prover does not reach; the violation runs; that a text reads back (`TextReadsBack`); of the
JSON parser that the ways to look into a value agree (`ViewsAgree`); that the lexer reads the tokens a text was made of (`TokensRead`); and the properties of YAML and the validator.
What most of these are compared with is defined by RECURSIVE operators or enumerations (`JsonText`, `YamlLayout`, `JsonSchema`), as are the walks they compare
(`Schema`, `Validator`, `YamlReading`), and a proof would need an induction over texts or values.
That a path leads back to its value, the second part of `ViewsAgree`, is such an induction, over depth. `YamlTypeOK` is within reach: it
needs the lemmas of `ParserProofs` about nodes and scopes for the YAML parser's variables.

## 5. Where code and text disagree

The findings of `PROJECT.json`, each with its run: the keys that shapes keep pointing at after a reset (`shapes_leak`), the offsets
behind an empty or repeated keyword (`schema_offsets`), and the blocks behind a YAML bullet (`yaml_sequence`).

Noted without a run, each in the models as the code does it unless it says otherwise:

- `arena.c:192`: `max_limit - block_struct_size` wraps for a block larger than the limit, so that the ceiling can be passed
  (`CeilingUnlessOversized` is what holds); and the limit is judged for a new block before a reserved one is considered, so that
  a request may be refused that needs no memory (`AllocLimit`).
- `ctx.c:497`: the reset keeps the first `sizeof(Jsonv_Context)` bytes of the head block, but a context larger than the first block is not there and is taken back
  (`ContextOutlivesResets` has the assumption); after a reset `ctx->data` still points at the old AST.
- `ctx.c:111`: a `return` inside TRY leaves its frame on `Except_stack`; the next raise jumps into a function that has returned.
- `keytree.c:94`: the set refuses keys of more than 64 bytes, so that a repeated long key is in the key tree twice; `parser.c:162`: a key over 65535 bytes is in
  neither, so that `find_property` finds it and the value has no such property; `yaml_parser.c:74`: in YAML that is so for every long key (`LookupsAgree` says of which keys the views may differ).
- `parser.c:681`: the ordered keys of an object go into an array of 256 on the stack, and nothing counts them: an object of more keys is written past it (`KeysFit` is the condition of what is claimed).
- `yaml_lexer.c:105`: `~`, `yes`, `no`, `on` and `off` are read as strings, though `docs/yaml_parsing_spec.md:48` lists them among the Booleans and nulls.
- `schema.c:742`: limits are cast to `int32_t`; one that does not fit becomes another, so that `maxItems: 3000000000` refuses every array as built for x86-64. `validate_helpers.c:210`:
  `uniqueItems` compares strings as they are spelled, and lengths count the bytes of the spelling. `validate_opcodes.c:189`: the path of an item is cut to 63 bytes.
- `sax.c:43`: the event parser accepts 65 nested brackets, the parser 64 (`ReadersAgree` says exactly where they differ).
- `serialize.c:34`: with a buffer of no bytes `buf_sz - 1` wraps (the model has buffers of one byte or more); a number too large for a double, such as `1e400`, is
  read as infinite and can not be written.
- `shape.internal.h:51`: a string's length is its `strlen`, so one with an escaped NUL is cut there when it is written (`UntilNul`); reference counts are kept, but nothing is freed at zero.
- `mem.c:26-44`: when the first creation of the internal arena fails, `initializing_arena` stays set: later atoms go to the heap, and
  `jsonv_free_all` neither frees them nor resets the flag, though `src/tests/validation.test.c:773` says
  "Internal arena should reinitialize"; `schema.c:283`: a raise while the tables are built leaves a half-built table that later compilations use.
- A schema with `multipleOf` 0, or other keyword values that the standard forbids, is not refused (not modelled).

## 6. Not modelled

- `arena.c:106-122, 151-163, 257-262, 274-281, 316-322`, the custom allocator: each branch hands the call to the host's function
  and returns what it returns, without a test, so that a model would only restate the host.
- FINALLY, which no code uses, and RERAISE, which is used only by END_TRY, where it is the same as a raise in the frame below. Threads that raise
  at the same time: `Except_stack` is one variable, and the interface promises nothing about contexts used by several threads.
- `print.c`, number formatting in the serializer, the constructors and getters of single leaves, conversion of number texts, `is_compiled_schema_match`: pure functions
  of data the models abstract.
- The constant pool, which only shares equal strings; growth of `stack_t`, whose failure is in `PROJECT.json` as
  a hazard with its reason.
- `atom_int`, `atom_length`, `list.c`, and the operations of `table.c` that nothing calls.
- Regular expressions and formats, given as relations; the command line and the fuzzer, which are I/O around the public API.
