# Verification of ncdl-gen

TLA+ models of ncdl-gen, the configurations that check them with TLC, and proofs that
TLAPS checks. ncdl-gen reads a CDL file (the text form of a netCDF file), generates C++
structs for its groups together with functions that write them to a pipe and read them
from one, and brings two pipes: one to netCDF files and one over ZeroMQ.

    tlc -workers 2 -config SenderReceiverKills.cfg MCSenderReceiver
    tlapm SenderReceiverProofs.tla      # likewise DeliveryOrderProofs, NetCDFPipeProofs,
                                        # ArrayTransferProofs, TokeniserProofs, ParserProofs,
                                        # GeneratorProofs, UtilitiesProofs

`PROJECT.json` lists the runs, the source lines behind every definition, the seeded fault
that each checked property must catch, the hazards and the theorems.

## The system

| Part | State it keeps | Operations | What makes it correct |
|---|---|---|---|
| ZeroMQ pipe (`src/pipes/zeromq_pipe.*`) | a bound PUSH and a connecting PULL socket; in libzmq: peers, queues, half of a message | constructor, `write` (two sends), `read` (two receives, then checks), destructor | a field is read as what it was written, at most once; nobody waits for ever without need |
| Example programs (`examples/`) | the sender: the fields written; the receiver: the struct being read, `count`, files | write once and return; loop over read and store | a stored struct is one that was written, structs keep their order |
| netCDF pipe (`src/pipes/netcdf_pipe.*`) | `path`, `root_id`; in the library: the table of open files | constructor, `open`, `close`, `read`, `write`, (default) destructor | a pipe works on its own file and only while it is open |
| Vector interface (`src/interfaces/`) | none | sizes, flatten, resize, assign | an array comes back as it was, or the call throws |
| Code generator (`src/generator/`) | the text written so far | commands for a header and a source file, five walks over the groups | the source includes the header and compiles with it; read asks for the fields in the order of write, with elements that fit |
| Tokeniser (`src/tokeniser.*`) | cursor, start of the word, line, column, tokens | the loops for code, comments and strings | the tokens and lines are those of the text; it ends |
| CDL parser (`src/parser.*`, `src/types.*`) | cursor, `group_stack`, the declaration under way | one parse function per kind of declaration | the tree is what the text declares; errors do no damage elsewhere; it ends |
| Element types (`src/syntax.*`) | none | tables from the words of CDL to conversions and C++ types | every table means the same type |
| Equality of types (`src/equality.*`) | none | `operator==` | types are equal when they were declared alike |
| Description (`src/types.cpp`, `src/logging.h`) | none | `description`, `as_string`, `print_tree` | what is printed tells the trees apart |
| Utilities (`src/utils.*`) | none | `read_file`, `split_string`, `split_string_at` | no word of a file, no piece of a text is lost |
| Command lines (`src/main.cpp`, `src/generator/main.cpp`) | none | parse and print a file; generate a header or a source file | commands used as in the `CMakeLists.txt` files give what was asked for |
| Wrapper, tests, build | none | | not modelled, see below |

The parts meet in three places. The tokeniser feeds the parser, and the parser's tree the
generator. The generated functions call a pipe once per field, in the order of the schema.
Two processes meet only in the ZeroMQ queues: a message carries the path of a field and its
bytes, and says neither which write it belongs to nor what its element type is, so that it
is *only the order of delivery* that keeps a struct together. That makes the exchange of
structs the heart of this project.

What is hard about the system: messages of several executions and processes in one queue;
processes killed between the two parts of a message, in the middle of a struct or of a
file; sends that block; reads that fail after the message has been taken; numbers of files
that are used again; a recursive parser that consumes tokens also when it fails; sizes at
zero, at a limit, or inconsistent. The list `hazards` in `PROJECT.json` names each at its
line with the properties that watch it.

Some of the models are pure algorithms: the program computes a result from a text, an array
or a tree, and the property compares it with a definition made in another way.

## The modules

### ZeroMQPipe, SenderReceiver: the exchange

`ZeroMQPipe` has the state of all pipes and one operator per call; `SenderReceiver` makes
the calls. `up[p]` is the life of a pipe object: `off`, `open`, or `linger` while the
destructor waits for the context. `outq[p]` and `inq[p]` are the two queues between a PUSH
socket and the PULL socket of `p`; `partial[p]` is the peer that took the id part of a
message whose data part has not been sent (`SendId`, `SendData`: the two `send` calls of
`write`). A read is one step, because both parts of a message arrive together and nobody
else reads from the socket; it takes the message off the queue first and compares name and
size then (`Take`, `Accepts`). `Vanish` is a process that ends without a destructor:
killed, or by an exception that nobody catches.

A message has what the code compares: the path, how many sizes the id part lists and their
product, and the number of bytes (`MessageFor`). `Accepts` checks the name, the bytes
(`SizeMatches`) and the dimensions of a vector (`RankMatches`). So a float passes for an int
and a value for a vector of one element, as they do in the code. When a vector has been
accepted, `data_from_message` copies one element for each byte (`ReadsBeyond`): the receiver
may crash then (`ReceiverFails`), unless the copy stays within `InPlace`, the bytes that a
message object has room for itself, 33 in the libzmq 4.3 that cppzmq/4.10.0 of `conanfile.py`
brings. For the vectors of one float that `examples/` sends it needs 16 of them.

libzmq is external. The model relies on what the class relies on: a PUSH socket gives each
message to some connected peer with room, a multipart message arrives whole or not at all,
messages to one peer keep their order, closing waits for what is queued (the default
linger), connecting goes on in the background for ever, one socket binds an address.

`SenderReceiver` has one action per statement of `examples/sender.cpp` and
`examples/receiver.cpp` that matters: start, the two parts of each write, return, exit;
read, failing read, `copy_file`, store a field, close the file and count. A value is
represented by the number of the execution that wrote it, and a file by the values stored
in it. The fields that the generated `write` and `read` visit are constants, per receiver,
so that sender and receivers may be built from different schemas. `Kill` may hit any
process at any step; every process may be started again.

`StructTransfer` is what the exchange promises its user: whole structs, each at most once,
in the order of the executions, possibly with some missing. `SenderReceiver` implements it
in the set-up of the examples.

`DeliveryOrder` states that set-up (`ExampleSetup`), the inductive invariant behind the
promise (`InOrder`) and the refinement (`ImplementsTransfer`, with `runs` for `begun`).
`WriteOnce` has the inductive invariant behind `AtMostOnce` (`Accounted`), for programs of
any number and sockets of any addresses. `AtMostOnce` looks at every *place* that a field
may be in: a position in a queue, in the struct a receiver is reading, in a stored struct.
The field written once by an execution is in one place at most.

### NetCDFPipe and FileAccess

Several `NetCDFPipe` objects of one program, called one after the other. `table` is the
library's table of open files; `nc_open` gives the lowest number that is free, and that
number is all a pipe remembers (`root_id`). Every function of the library may fail, so every
call but the constructor may throw: `open` and `close` leave the members and the table as
they were, and an `nc_put_var` that fails may have stored the value all the same. A number
whose `nc_close` has failed is taken to stay in use, so a pipe that ignored the error would
be closed for its program and its file not on disk. The destructor is the default one, so a pipe destroyed by an unwinding exception leaves its
file open (`leaked`). `Abort` ends the process, and what was not written back may be lost.
`Client` says how the program uses pipes: `"sessions"` as the generated code and the
examples do, `"any"` in any order the class allows.

`FileAccess` is the promise without numbers: a pipe works on the file it was built for,
between open and close; a call that fails leaves the pipe as open as it was and changes at
most the variable it was to write; when `close` returns, the file is on disk.

### ArrayTransfer

What both pipes do with one array of any rank: the sizes, flattening, the message of sizes
and bytes, the size check, the copy, resizing and assigning; for netCDF the address that is
passed and the sizes that the file has. Memory is a sequence of units of which an element
takes as many as its type is wide. `data_from_message` ends the range that it copies at
`sizeof(ElementType)` times the size of the message (`CopyEnd`), which is behind it for
every element wider than a byte. That is undefined, and the build can do two things: the
range is readable, and what lies beyond the message is `Garbage`, or the program ends
`crashed`. Only within `InPlace`, in the message object itself, is it always readable. A
transfer that reads from or writes to netCDF beyond its container ends `undefined`.

The recursion over nested vectors is followed one dimension at a time: `FirstVectors` are the
vectors that the sizes are taken from, `Rows` all that each dimension holds in one sequence,
and `Nested` cuts a flat vector into rows from the innermost dimension outwards. Garbage at
the end of a vector that was filled beyond its size is cut off, as `finalise` does.

The first part of a message (`ZeroMQVariableInfo`) is path and sizes, written into one text
(`InfoText`, to_string), which `FromStringView` splits again at `;` and `,`. The sizes are
written in decimals and come back through `stoi`, which throws beyond `MaxInt`. `write` and
`read` reject a path with a `;` (`ValidName`).

### ElementTypes and Generator

`ElementTypes` has the elementary types and what three places of the program know of them:
the conversion that `parse_number` calls, the type it marks the number with, and the C++
type of the generated code.

`Generator` follows a build from its commands to the run of the generated program. A command
has the flags, pipes, namespace and name of the header that `generator/main.cpp` is called with; it is refused,
generates nothing, or generates a header (a walk for the structs and one for each kind of
function) or a source file (its `#include`, two walks that define the functions). A walk is a list of groups
still to visit. `Compile` is the C++ compiler's look for what the files name: the header, functions that
are called or defined, the members that fields are read into, types that a pipe takes. A
running program is a stack of calls: the write of some group and the read back through any
pipe. `ElementsFit` compares the types of the containers with those in the file (`InFile`,
`InMemory`), which come from CDL and C++ and not from the program; it holds of the types
in `Fitting`, for which the two agree.

### Tokeniser and Utilities

One action per turn of the loops of `tokenise`, `pick_comment` and `pick_string`, over a text
as it is given (the tests do that) or as `read_file` returns it. `Words`, `Marks` and
`Strings` define the tokens of a text without walking over it, from the context (code,
string, comment) of each character. `Utilities` has the functions of `utils.cpp` over texts;
`Splits` says what they must return without following them: a list of as many texts as there
are pieces, with each piece at the place that the number of pieces up to it says. `Scanned` is the invariant of
the walk: which loop is under way is the context of the cursor, what lies between the start
of the word and the cursor is the beginning of one token or of none, and the tokens made
are those of the text that end before it.

### Parser and MCParser

The parse functions call each other recursively; what they remember between two
declarations is the group stack, the section of each group, and the type of the variable
before. One action parses one declaration where it stands, with all its exits: the error
paths pop the tokens that the code pops. A failed declaration ends its section; a group
goes on with what is left. The ends of the parser are `parsed`, `failed` (no tree),
`aborted` (an exception that nobody catches: `stoi`, a format string, `peek` at the end)
and `undefined` (an empty optional is used). The tree has the values of the attributes, each
number with the type it is marked with; the values in `data:` are parsed and dropped, as the
code does. The nested calls for the data of a compound (`ComplexData`) are followed with the
stack of the fields that each call has still to read.

`MCParser` has the schemas, writes them out as tokens, and says what tree a schema declares
(`Tree`) with its own way of looking up names and of reading values (`Means`).

### Equality and Description

`Equality` is `operator==` of each kind of type, over the types of the parser's trees.
`Description` is what `print_tree` prints of a tree: lines, each with its indentation and its
words. The name of a user defined type is a view of a string that no longer exists, so it
may be anything, and the text goes through `fmt::print` as a format string (`Prints`).
`MCParser` uses both on the trees of its texts.

### The MC modules

`MC*.tla` only give values to constants. Operators of the modules whose comment says
*seeded fault* are used nowhere but in the `mutants` of `PROJECT.json`: each is a plausible
bug of the definition that follows it, and every property that a passing run checks is
violated under one of them.

## The runs

All of them take about a minute at most. `CHECK_DEADLOCK FALSE` stands where the system may
stop: programs end, and nobody must start them again.

| Run | Shows | States |
|---|---|---|
| `exchange_kills` | two senders and one receiver set up as in `examples/`, two kills: types and bookkeeping; `InOrder`; `StructIntegrity`; `AtMostOnce`; the refinement of `StructTransfer`; and, if nothing is killed, `EventuallyStored` | 115 992 |
| `exchange_receivers` | two receivers, one built from another schema, high-water mark 1, one kill: `Accounted` (with `AtMostOnce`), `ConnectionsConsistent`, and no sender waits for ever (`SendersFinish`) although reads fail, over-reads may crash and receivers die | 169 280 |
| `netcdf_sessions` | two pipes, two files, failures of every call and unwinding: `OwnFile`, `NumbersAccounted`, the refinement of `FileAccess` | 236 057 |
| `generator_flat` | every schema with groups below the root, each of the nine number types that fit their container, the builds of the two `CMakeLists.txt` and builds with a slip; every group passed, every pair of pipes: `ReadsInWriteOrder`, `WholeGroup`, `ElementsFit`, and what was built as there compiles and ends (`Usable`) | 63 484 |
| `arrays_round_trip` | every array up to three dimensions under every path, every variable in the file, every way to read it: `RoundTrip`, `ElementsKept`, `PathKept`, `FileRoundTrip` | 581 694 |
| `tokeniser_texts` | every text of up to six characters, as it is and as it is read from a file: `Scanned`, `TokensOfText`, `LinesOfText`, `FileWordsKept`, `Splits`, `Terminates` | 847 270 |
| `parser_texts` | 2174 schemas (`RoundTrip`, `EqualIffSame`; 425 of them without user defined types in use, `PrintShowsTree`) and 3249 texts with a mistake: `Scoped`, `DeclarationsKept`, `Terminates` | 161 350 |

Five runs expect a violation. Each shows the code doing something else than the repository
says; the sources are quoted under `findings`.

| Run | The code |
|---|---|
| `exchange_hangs` | a sender ends when its messages have left, not when they are received (`sender.cpp:28` says "Hangs until data is received") |
| `netcdf_two` | `close` leaves `root_id` set, so a closed pipe passes `assert_open` and reads and writes the file that another pipe has opened since |
| `generator_deep` | for groups nested two deep the generated code calls a function that was not declared |
| `arrays_ragged` | the check of the siblings compares the first one with itself, so ragged arrays are sent |
| `parser_scalars` | in `int a, b ;` the rest of the line is dropped |

### Further divergences

Seen while modelling, each with a configuration that shows it. These are not regular runs;
in each, TLC finds the property violated.

| Configuration | Property | The code |
|---|---|---|
| `SenderReceiverMixes` | `StructIntegrity` | with two receivers a struct is made of fields of two executions: the "unique id for each field" (`zeromq_pipe.h:105`) does not structure the data |
| `SenderReceiverNewFile` | `NewFileEachTime` | a restarted receiver counts from 1 and overwrites complete files (`receiver.cpp:14`, "a new example_N.nc file") |
| `SenderReceiverDefault` | `EventuallyStored` | the two default addresses are the same: a pipe without a configuration reads its own messages, and a second process cannot bind (`README.md:33-38`, "other process, node etc.") |
| `ArraysAmount` | `CorrectAmount` | `data_from_message` counts bytes as elements when it fills the flat vector (`vector_interface.h:153`, "correct amount of elements") |
| `ArraysFileND` | `FileSupportsND` | `NetCDFPipe::write` passes the address of a vector of vectors (`vector_interface.h:241`, "ND stl vector are supported") |
| `TokeniserColumns` | `ColumnAtEnd` | punctuation has the column where it starts (`test_tokeniser.cpp:280`, "at the end of the token") |
| `ParserSemicolons` | `RoundTrip` | after the name of a vlen type one token is dropped, whatever it is (`grammar.bnf:25` makes the semicolon optional) |
| `ParserGlobals` | `RoundTrip` | a global attribute between `dimensions:` and `variables:` is taken for a dimension (`README.md:388`, "global attributes outside of variables: section") |
| `ParserOwnPath` | `RoundTrip` | `/g/t` is not found within `g` itself (`parser.cpp:186`, "absolute paths") |
| `ParserWide` | `RoundTrip` | a number of type int64 or uint64 is marked as float (`parser.cpp:309`) |
| `ParserDoubles` | `RoundTrip` | a double is read with `stof`, which throws for what only a double holds (`parser.cpp:323`) |
| `ParserEntries` | `RoundTrip` | an attribute with several values keeps the first, and the rest of its section is lost (`types.cpp:662`) |
| `ParserVLens` | `RoundTrip` | data of a vlen variable with several entries leaves a `}` that closes its group (`parser.cpp:498`) |
| `ParserPrint` | `PrintsTree` | a brace in a text makes `print_tree` throw (`types.cpp:241`), though the file was parsed |
| `GeneratorTypes` | `ElementsFit` | the containers of uint, long and real have another width or sign than the file (`syntax.cpp:139`) |
| `GeneratorNames` | `Compiles` | a group with the name of the one around it gives a struct within a struct of the same name |
| `GeneratorNamespaces` | `Compiles` | with a namespace `a::b` the functions are defined in `a` |
| `GeneratorReadme` | `Compiles` | the build of `README.md:190-191` gives no `--interface_class_name`, and its source file includes `".h"` (`generator.cpp:168`) |

For `ParserWide` to `GeneratorNamespaces` the measure is CDL and the meaning of its types
rather than a sentence of the repository. The models have more behaviour of this kind: a second `dimensions:`
replaces the first; data with several texts ends its section; a declaration with an error
is dropped while the parse as a whole succeeds; `;;` at the end of a data section uses an
empty optional; a file that cannot be parsed ends the generator with exit code 0 and empty source file compiles; a pipe named twice gives every function twice.

### Bounds, and why they are enough

- Exchange: two senders are enough for one to follow, overlap in lingering with, or be
  refused because of another; three executions for one struct to follow a lost one and to be
  followed; two fields for a struct to have a middle; a high-water mark of 2 holds one whole
  struct, of 1 makes senders block within one; two kills hit a sender and a receiver, or the
  same one twice. Vectors of none or one element tell the empty message, the one that fits
  the message object and the one whose copy leaves it (a double) apart. The proofs have none of these bounds.
- netCDF: two pipes and two files for a number to be used again for the file of another
  pipe, with one variable that only one of the files has; with two numbers, the table is
  full once one of them leaks.
- Arrays: up to two entries per dimension and three at the bottom; all values at ranks 0 to
  2, at rank 3 each arrangement of rows of every length; vectors of twelve and thirteen
  entries, for sizes of two digits and for one more than the largest int of the model (12);
  element types of the same and of different widths; two paths and one with a `;` in it.
  The proofs have none of these bounds.
- Generator: groups up to two, each without, with one or with two variables; names that
  appear in both; each elementary type in the root and in a group with up to two dimensions;
  two commands, for both pipes, one or none, and each slip of the hand once.
- Tokeniser: every function looks at most one character ahead, and six characters hold a
  comment or string with a token before and after it.
- Parser: one schema for each combination of types, dimensions, attributes, data and groups
  that interact; groups nested two deep, since a path goes through complete groups and
  names are hidden by the group between. Each elementary type with pairs of the numbers it
  holds, one of each class that the conversions tell apart (small, negative, a fraction,
  beyond int, beyond float).

### Fairness

`Progress` says that a running program takes its next step, and the library carries
messages and connects: threads that are not blocked run. No fairness is assumed of starting
a sender or killing anything. `Supervised` adds that someone starts a receiver again when
it is down; nothing in the repository does, so it is an assumption on the operator, and
`EventuallyStored` and `SendersFinish` are stated under it: without a receiver a sender
waits for ever, as its comment says. Weak fairness is enough: a step of a program stays
enabled until it is taken or its process ends. Generator, tokeniser and parser are
sequential programs and have weak fairness of their next step.

## Proofs

Eight modules hold the proofs, for all values of the constants: any number of processes,
fields, executions and kills, any queue bound; any pipes, files, variables and any number
of files the library opens at one time; arrays of any dimension and any sizes, ragged ones
too; texts of any length, with groups and types nested to any depth; any schemas and builds.

| Theorem | Says |
|---|---|
| **`SenderReceiverProofs`** | |
| `TypeCorrect`, `BookkeepingHolds` | `TypeOK` and `Bookkeeping`: each variable has its type, and the counters of both programs agree with the messages under way |
| `ConnectionsStayConsistent` | `ConnectionsConsistent`: queues and half messages belong to connections, connections to pipes that exist (`QueuesOfPeers`), and no two open pipes have bound one address (`OneBinder`); for any addresses, even those of a pipe connected to itself |
| `FieldsAreAccounted`, `NothingIsDuplicated` | `Accounted`, and `AtMostOnce` with it, under `SameNames`: the schemas name the same fields, each once |
| **`DeliveryOrderProofs`** | under `ExampleSetup(r)`: one receiver, senders that bind the address it connects to and connect to no sender, one schema that names a field once |
| `DeliveryStaysInOrder` | `InOrder` |
| `StructsStayWhole` | `StructIntegrity` |
| `ExchangeKeepsItsPromise` | `ImplementsTransfer`: the exchange implements `StructTransfer` |
| **`NetCDFPipeProofs`** | |
| `PipeTypeCorrect` | `TypeOK`, whatever the program calls when |
| `SessionsOwnTheirFiles`, `EveryNumberAccounted` | `OwnFile` and `NumbersAccounted`, for a program that uses its pipes in sessions |
| `SessionsKeepThePromise` | `ImplementsFileAccess`: in sessions, `NetCDFPipe` implements `FileAccess`, whichever functions of the library fail |
| **`ArrayTransferProofs`** | |
| `ArraysTypeCorrect` | `TypeOK` |
| `ArraysArriveAsSent` | `RoundTrip`: a rectangular array that is read as what it is arrives as it was and nothing throws, unless the copy leaves the message object and crashes |
| `ElementsAreKept` | `ElementsKept`: what a read returns, in whatever dimension, has the elements that were sent, in order |
| `PathsAreKept` | `PathKept`: for arrays of any shape and paths of any characters |
| `FilesGiveBack` | `FileRoundTrip` |
| **`TokeniserProofs`** | |
| `TokeniserTypeCorrect`, `TextIsScanned` | `TypeOK`; the invariant `Scanned` |
| `TokensAreThoseOfTheText`, `LinesAreThoseOfTheText` | `TokensOfText`: tokenise makes the words, marks and strings of the text, each once and in order; `LinesOfText` |
| `WordsOfFilesAreKept` | `FileWordsKept` |
| `SplitsAreRight` | `Splits`: `split_string` gives the pieces of a text, each once and in order; `split_string_at` what is before and behind a character |
| **`ParserProofs`** | |
| `ParserTypeCorrect` | `TypeOK` |
| `TypesAreInScope` | `Scoped`: whatever the text and its errors, a variable has a type that its group may use |
| `DeclarationsAreKept` | `DeclarationsKept`: what an open group has declared is not lost or changed |
| **`GeneratorProofs`** | under `PlainSpaces(Builds)`: no namespace in a namespace |
| `GeneratorTypeCorrect` | `TypeOK` |
| `FieldsAreReadInOrder` | `ReadsInWriteOrder` |
| `GroupIsReadAndWritten` | `WholeGroup` |
| `ElementsAlwaysFit` | `ElementsFit`, under `FittingTypes(Schemas)` too |
| `NestedGroupsNeverRun` | no program runs for a schema with a group within a group within the root |

They use the named assumptions of the modules and, where the table says so, a hypothesis.
TLC evaluates each of these on the instances it checks: `ExampleSetup` holds in
`exchange_kills` and `SameNames` in both exchange runs (`NamesAreSame`), `PlainSpaces` and
`FittingTypes` of the builds and schemas of `MCGenerator` (`BuildsArePlain`, `TypesFit`).
Without `ExampleSetup` and `FittingTypes` the code breaks the properties
(`SenderReceiverMixes`, `GeneratorTypes`); what a build with a namespace in a namespace
generates does not compile (`GeneratorNamespaces`). `SchemaAssumption` says what the parser's
tree of groups is: every group is a subgroup of the one around it, and has its names once.

### The exchange

`TypeCorrect` is inductive together with `Bookkeeping`: that the message under way belongs
to a field still to be written needs `pos`, `partial` and `up` to agree.

`ConnectionsConsistent` has two parts that are kept separately: each queue and half message
has its connection (`QueuesStep`), and each address one binder (`BinderStep`), because
`Construct` fails while another open pipe has bound it. The steps of the programs are steps
of the pipes (`StepsAreOfPipes`), which is all that either needs to know of them.

`StructIntegrity` is not inductive: it says nothing of the queues, and a queue might hold
the second field of another execution. `InOrder` says what they hold. The *stream* of the
receiver is what reached it followed by what is queued for it. Each message of the stream
*succeeds* the one before it, as the next field of the same execution or as the first of a
later one; the first message succeeds the last field read; and the sender that is connected
is *caught up*: the field it writes next succeeds the end of the stream. A sender that is
not connected has had no part in the stream (`Ahead`). This is kept by each step:

- writing appends what succeeds the end (`OrderPut`);
- reading takes the head, and as a mismatch ends the receiver, what was taken continues the
  struct (`OrderTake`), or starts one;
- a sender that dies in the middle of a struct takes its queue with it (`OrderCut`): what is
  left is a prefix, which is still in order. The receiver is left with a part of a struct
  and the next sender writes a first field; that mismatches, the receiver fails, and it
  starts again with nothing;
- a new receiver, or a new connection, starts from an empty stream (`OrderFresh`,
  `OrderStart`), and a sender in the middle of its struct then makes it fail.

`Context` adds the types and that only one sender at a time holds the address
(`OnlyReceiver`), which makes the stream that of a single writer. The lemmas about streams
(`StreamPut`, `StreamTake`, `StreamMove`, `StreamCut`) are about sequences only.

That a stored struct is whole follows from that; that it is stored once, and after the
earlier ones, needs the history too. `StoredInOrder` adds: what has been stored are whole
structs; the one sender at work is the latest execution; and what the receiver has read or
has under way is newer than all that is stored, and only what its sender has written. A
struct is complete when its last field has been read, and that was written, so the execution
it belongs to has not been stored before. Every step is then a step of `StructTransfer` or
changes nothing there (`PromiseStep`).

`AtMostOnce` needs no order and no set-up. It is not inductive for three reasons, the other
parts of `Accounted`: an execution that starts must have a number of its own (`RunsApart`);
a field that is written must not be anywhere yet (`OnlyWhatIsWritten`); and the file that a
receiver is writing repeats what the receiver has read (`FileSoFar`), so that
storing the struct moves each field and doubles none. The places of a message after a step
are then counted step by step: what is appended, moved or dropped. The receivers must read
the same names in the same order, as a stored struct no longer says which receiver read it.

### The netCDF pipe

`Stored` (types; a session has a number and a built pipe) is inductive for any client.
`OwnFile` and `NumbersAccounted` need each other: a number that `nc_open` hands out is free, so it is no
session's (`OwnFile`), and closing a session's number leaves no other session or leak
without its file. Both need the sessions: a second `open`, or a `close` of a pipe that is
already closed, breaks them, for the reason that `netcdf_two` shows. Under `Numbered`, their
conjunction with `Stored`, a number inside a session leads to the pipe's own file, which makes
every action the one of `FileAccess` with the same name (`PromiseStep`; `Construct` is
`Build`), whether the library's functions fail or not; a `close` that fails keeps number and
session (`CloseInSession`). That the library finds a lowest free number rests on the well-foundedness of
`<` on the naturals, from the library of theorems.

### Arrays

The transfer has a handful of steps; what needs proof is what the functions compute, for
nested vectors of any depth and numbers of any size. The recursive definitions of the model
are functions over the dimensions, the positions of a text or the numbers up to one. Each
such function exists and has the value its definition says by an induction over `0 .. n`,
done as a search for the least number that fails (`UpTo`, on `LeastNumber`, both in
`UtilitiesProofs`); from then on only its step is used.

- Flattening: sequences of one length become one sequence, in which the k-th entry of the
  i-th is at the place `(i - 1) * length + k` (`FlattenEven`). So when an array is
  rectangular, the rows of each dimension are as many as the product of the sizes down to
  it (`RectangularRows`), the flat vector has exactly the room that is computed for it
  (`RectangularFlat`), and cutting what was flattened gives the rows back (`CutFlatten`),
  from the innermost dimension to the whole array (`NestedElements`).
- Bytes: the units of n values are n times the width, and the value at each place is the one
  written there (`BytesFacts`, `ValuesOfBytes`). What is read beyond a value is `Garbage`;
  it is at the end of the buffer, and `Nested` uses the beginning.
- Text: pieces that are not empty and do not have the character in them come back from a
  text joined by it (`JoinSplit`); `DecimalFacts` is that digits are neither `;` nor `,` and
  that reading a numeral gives the number. Together (`InfoFacts`), the path and the sizes are read as they
  were written, for every path without a `;`. It needs the path not to be empty, as
  `split_string` drops empty pieces; `PathAssumption` says that a full path begins with a
  slash.

`Inv` says what a transfer has at each stage (`Stages`) in terms of what was sent, so that
the five properties need no more history: a message is the text and the bytes of the array until
it is read, the buffer begins with the elements, and a transfer that has thrown is
none that `RoundTrip` speaks of (`NothingThrown`: path, dimension, type and sizes pass every
check). One that has crashed had a copy that leaves the message object (`ReadsBeyond`); the
theorems hold for every `InPlace`, 0 included, at which every such copy may crash.

### The tokeniser

`Context` gives each character the context code, string or comment by a recursive function.
That such a function exists for a text of any length is an induction; it is done as a
search for the least length without one (`ContextExists`, on `LeastNumber`). From then on a
proof needs only what `Context` is at the cursor and how it goes on (`Following`).

`Walked` is `Scanned` with the types: each turn of a loop moves the cursor by one, and either
prolongs the pending word, string or comment or ends it. When it ends, exactly one token
of the text ends there (`TokensIn` of one position more), the one that the turn makes. The
lines count with the cursor, as the loops count a newline in every context. At the end of
the text nothing is pending but a word that has no character behind it: that is why
`FileWordsKept` is about what `read_file` returns.

`Splits` is about functions, and `UtilitiesProofs` proves it from the end of the text towards its
beginning (`ListsPieces`): what `split_string` gives from a place behind the character on
lists the pieces that begin there or later. The next occurrence either is at that place, and
no piece begins there, or ends the one piece that does (`FromFacts`); a piece in front
moves the place of every other by one (`ListsMore`). Of the tokeniser it needs only that `given` is a text.

### The parser

A parse error is handled by giving up the section and going on with any token, so the proof
makes no use of what the text means: it takes every action at every token. What every action
does to the innermost group is one lemma for each, with the same conclusion (`Goes`): each list
of the group is as it was or has one item more, and a new variable has a type in scope. From
that the invariant (`ReplaceArrives`) and the step of `DeclarationsKept` follow once for all.
Only `Start`, `OpenGroup`, `CloseGroup` and `TextEnds` change the groups that are open.

`Scoped` alone is not inductive. A declaration behind a comma takes the type of the one before
(`previous_type`), so that type is part of the invariant, and leaving a section forgets it.
A compound collects types of fields before it is itself a type, and data of that type is
parsed by reading the fields of fields: the invariant `Parsing` has a set of types
that contains the types of the fields of each type, and a set of groups that contains the
groups in each group; there always are such sets (`ParsingInv`). A type found by a path is in
a group that the path led to, as deep as the path has parts (`GroupAtBelow`), and closing a
group only adds to what is below the root (`MoreBelow`).

That the cursor stays in the text (`TypeOK`) needs that the functions for one item leave off
at one of its tokens or just behind the last: the loops over commas (`NumbersIs`, `VariableIs`), and the
nested calls of `parse_complex_type_data`, which the model has as the stack of fields still
to read (`ReadOnIs`, `ComplexIs`).

### The generator

Two invariants, one for the generator and one for the program that it makes.

`Generated`: every definition in the source file is that of some group (`FilesTyped`), and
when one function has been defined for a pipe and an operation, those of all groups have,
unless the walk that defines them is under way (`Complete`); during such a walk every group
has been visited or is under one of the groups still to be visited (`WalkCovers`). So a
walk is never left in the middle, whatever the build. Because the names of a struct
determine its group (`PathGroup`, `PathTail`), a function has one body (`BodyOfGroup`).

When such files compile, every call names a function that is declared. A call in the function
of the group `g` qualifies the function with the struct around `g`; functions are declared
in the plain namespace. So only the root's function makes calls (`OnlyFlat`), from which
`NestedGroupsNeverRun` follows, and a running program is a stack of at most two functions.

`Running` says where such a program is. The fields of the group form block 0, those of its
k-th subgroup block k; block k begins at the same position `at[k]` of what is written and
of what is read. After j fields of the block k, the stack is one of five shapes (`At`) and
what has been passed to the pipe is the first blocks and j fields of the block k (`Laid`).
Each step goes from j to j + 1, from a block to the next, or changes the shape only
(`ExecuteStep`, `ReturnStep`). While reading, the positions are those of the write, so that
what has been read is a prefix of what was written (`LaidSame`). A finished program has
laid out all blocks (`Whole`); the paths of the fields in the blocks are those of the groups
below (`GroupsBelow`), no two of them alike (`BlockPathInjective`).

### Only model-checked

- Liveness and everything that needs fairness (`EventuallyStored`, `SendersFinish`,
  `Usable`, `Terminates`), which TLAPS cannot prove.
- What the recursive operators compute: `MCParser` (the tree that a text should give, so
  `RoundTrip` of the parser), `Equality` (`EqualIffSame`), `Description` (`PrintShowsTree`).
  Their recursion is over trees. TLAPS has no backend for modules that declare them.

## Not modelled

- Fields of string, enum or compound type in generated code: no pipe has an interface for
  them, and the generated code does not compile.
- The layout of the generated text; of the includes only which pipes a header is for and which
  header a source file names; `--use_library_include`.
- Log messages; `as_string` of arrays and of their dimensions, which nothing calls.
- CLI11, fmt, libzmq and the netCDF library: external, modelled as the code uses them.
- `foo_wrapper`: an example of what the generator writes, three calls of `NetCDFPipe` in a row.
- Tests, read for what they claim; build files, packaging, editor support.

## State

There are models of every part that has logic of its own, both abstract specifications with
their refinements, and proofs of every safety property that the runs check but the
three named under "Only model-checked". What is left is to state what parse functions,
`operator==` and `print_tree` compute with recursive functions over trees in place of the
recursive operators, in which form they could be proved about.
