# A verification project for kcmsg

kcmsg is a small C++ messaging library: a `Message` that collects typed values in one
64K buffer, and a `Connection` that moves bytes and messages over a socket, with two
helpers, `Configuration` and `NetworkInterface`, beside them. It has no tests and no
documents but the comments in its headers, so the code is the reference, and these
modules are what says what the code does.

Everything here is TLA+ checked with TLC, and proofs checked with TLAPS. Paths are those
of the repository (`src/src/Message.cpp` is written `Message.cpp`).

## 1. The system

### The parts

| Part | State it keeps | Operations | What is hard about it | Modules |
|---|---|---|---|---|
| Message data items | `data`, `data_length`, `offset`, and the copy of the length in bytes 24-25 of the buffer | 14 `put*`, 14 `get*`, `readMessageLength`, `updateDataLength`, `debugMessagePrint` | long sequences of legal calls; sizes at every limit; two copies of the length; a reader that trusts the bytes it finds | `Message`, `MessageQueue`, `TypedQueue`, `Message_proofs`, `MessageReader_proofs` |
| Message header | `hdr` | setters and getters, `readHeader`, `writeHeader` | fields and flags side by side in few bytes; `writeHeader` is called by nothing | `MessageHeader`, `MessageHeader_proofs` |
| Connection, bytes | the two cursors of a running loop | `Readn`, `Writen` | partial transfers, interruption, failure in the middle, a peer that closes; two processes | `SocketStream`, `BytePipe`, `SocketStream_proofs` |
| Connection, messages | the cursors, `nleft` as a `size_t`, `msgsize` | `ReadMessage`, `WriteMessage` | unsigned arithmetic, message boundaries, the object used as the buffer | `MessageTransfer`, `MessageTransfer_proofs` |
| Connection, descriptors | `conn.fd`, `clients`, and the process's descriptor table | constructor, destructor, `getDescriptor`, `Bind`, `Listen`, `Accept`, `Connect`, `Shutdown`, `Close` | several objects over one table whose numbers are reused; a step that fails | `Descriptors`, `Descriptors_proofs` |
| Connection, addresses | `conn.addr`, `listen_max` | `resolveHost`, stubs | one resolver call | none |
| Configuration | map of properties | `readConfigurationFile`, three lookups | a recursion over vectors and a map that are all passed by value | `Configuration`, `Configuration_proofs`, `ConfigurationWalk_proofs` |
| Property | a tagged pointer | setters, getters, destructor | who owns the pointer after a copy | `Configuration` |
| NetworkInterface | what the kernel says of an interface | constructor, getters | it opens a socket and forgets it | `Descriptors` (its sockets) |
| kcmsg.h | none | none | includes the others | none |

### How they interact

An application puts values into a `Message`, which writes them behind each other and
keeps the length field at offset 24 up to date. `Connection::WriteMessage` asks the
message for its length and writes that many bytes; `Connection::ReadMessage` reads into
another `Message` and calls its `readMessageLength`. `Readn` and `Writen` move plain
buffers over the same descriptor. `Configuration` holds `Property` objects by value.
`NetworkInterface` opens sockets in the descriptor table the `Connection` objects use.
Nothing starts a thread, takes a lock or registers a callback. The concurrency is that of
two processes at the two ends of a socket, and of the kernel between them; the rest of
the difficulty is in sequences of calls, in sizes at their limits, and in several
`Connection` objects that share one descriptor table.

Two facts stand between the parts as they are. `WriteMessage` and `ReadMessage` work
on the memory of the `Message` object, not on its data, so that a message put together by
`Message` does not travel. And `Connect` replaces the descriptor it connected by 0, so
that `Readn` and `Writen` have a connected socket to work on only where descriptor 0 is
that socket, as in a process that closed its standard input before it made its first
`Connection`, or one started by inetd. The modules model each part by itself as the code
has it, and say where a part depends on this.

### What makes each part correct

* Message: no put writes over another item, the header, or the end of the buffer; the length
  is where the last item ends; what is put comes back, in order, by the getter of its type;
  only a caller who asks for the wrong thing ends the process; a put refuses only what does
  not fit; printing shows everything and ends.
* Bytes: what is delivered is what was handed over, in order, without gaps unless a call
  reported an error; a short count means the end; calls that can finish do.
* Messages: a read stays in its buffer, and ends.
* Descriptors: an object refers to its own socket; what is opened is closed by somebody; an
  accepted client can be reached; a connected object is connected.
* Header: what was set is what a receiver reads; no setter disturbs another field; writing the
  header leaves the length and the items alone.
* Configuration: each property of a file is found once, in order, under its key; the walk
  stays inside its vectors and ends; each value is deleted once; what was read can be looked
  up.

## 2. The modules

### Message

`Message.tla` models one `Message` object and its callers in one process. The variables
`data_length`, `offset` and `length_field` (the two bytes at `MESSAGE_LENGTH_OFFSET`) hold
exactly the numbers the program has. `data`, the buffer, is the sequence of items with
the offset each was written at, and `ByteAt(o, heap)` derives from it the byte the program
would find at offset `o`, the tag, the length prefix, the value, or zero where nothing was
written (`memset` in the constructor). A getter is thereby given whatever bytes lie at
its cursor, also when it stands in the middle of an item. Beyond the allocation `heap` is
free (constant `HeapBytes`).

There is one action for each put and each get, and each is the whole method. `Store` is the
common course of the puts (write the item, `updateDataLength`), `Refuse` the `throw`,
`PutFixed` and `GetFixed` the methods of fixed-width types, which differ only in widths
(`PutWidth`, `GetWidth`) and tags (`DATA_TYPE`). `putWString` counts a long string again
(`CountedAgain`, line 731). `Abort` is a failed assertion or a fault: the process ends.
`debugMessagePrint` starts the loop, and `PrintItem` is one turn of it. `reads`, `refused` and
`aborted` are history: the values returned, the value just refused, and the getter that ended
the process.

Values are abstract where the properties allow it. A fixed-width value is the tuple of its
little-endian bytes; a string is its length and the index of its first NUL character, for
that decides what a C string keeps. Array puts have empty bodies and are left out.

`TypedQueue.tla` is the abstract specification of a message: a bounded first-in first-out
queue of typed values, which refuses what does not fit and kills the process of a caller
who takes the wrong type. `MessageQueue.tla` instantiates it with a refinement mapping
(the queue is the items not yet read, `used` is the length without the header) and
states `ImplementsQueue`. The mapping holds for the values the format carries faithfully,
which `FaithfulAssumption` says of the constants (and that every time has a date, as printing
needs); the violation runs below say why it
cannot hold for the others. One thing the abstract queue must allow is `Overrun`: a
message filled to its last byte has no end mark, and a read past its end is outside the
buffer.

### MessageHeader

`MessageHeader.tla` has no variables. `readHeader` and `writeHeader` are operators on a header
(nine fields, each the tuple of its bytes) and a buffer (a function from offsets to bytes);
`set`, `get`, `setFlag` and `isFlag` stand for the eight pairs of methods and the three pairs
of flag methods, which differ in the field or the bit only (`FieldOf`, `FlagBit`). A byte is
the set of its bits, so that the masks of the flags are union and difference. Nothing in the
library calls `readHeader` or `writeHeader`, so there is no state machine to give them; their
laws are proved.

### SocketStream

`SocketStream.tla` models `Writen` and `Readn` in two processes with the kernel's buffer
(`wire`, at most `Capacity` bytes) between them. Each `write()` and `read()` is a step
that moves any number of bytes the kernel may move; `writer` and `reader` are the local
variables of the two loops (`msg`, `ptr`, `nbytes`, `nleft`). `Interrupted` is EINTR:
nothing was moved and the loop goes round. `WriteFails` and `ReadFails` are the other
errors, `ReadEnd` the end of the stream, `WriteKilled` SIGPIPE. A byte is the number of
its place among all bytes handed to `Writen`, so that loss, repetition and reordering
show. One direction is modelled; the other is the same with the ends exchanged.

`BytePipe.tla` is the abstract specification: a first-in first-out pipe of bytes without
system calls, cursors or buffers of callers. A receiver gets all it asks for at once, or the
rest when the sender has closed, and only a failure that its caller is told of, or the
sender's death, loses bytes. `SocketStream` instantiates it (`Pipe`, `ImplementsPipe`).

### MessageTransfer

`MessageTransfer.tla` models `WriteMessage` and `ReadMessage`. As both work on the memory
of the object, the bytes carry no content here; the module keeps how many there are and
the arithmetic of `nleft`, `nbytes` and `msgsize`, modulo `SIZE_MAX + 1` (`Minus`).
`ReadSome` is one turn of the loop, with the look for the length at its end: `msgsize` is
never assigned, and `readMessageLength` follows a pointer the stream has overwritten, so
the process may end there (`killed`) or go on. A `read()` with a count above half of
`SIZE_MAX` is refused by the kernel (`ReadRefused`), as on Linux, the only system
`NetworkInterface.cpp` compiles on.

### Descriptors

`Descriptors.tla` models the `Connection` objects of a process against its descriptor table.
`socket()` and `accept()` give the lowest free number; every call may fail. `Construct`,
`Destroy`, `Bind`, `Listen`, `Accept`, `Connect`, `ConnectFails` and `getDescriptor` are the
methods; `CallFails` is a `Bind`, `Listen` or `Accept` that fails and so changes nothing.
`Close` and `Shutdown` take a number from the application, which has the numbers
`getDescriptor` gave it (`held`). The table has descriptor 0, open on something else or free
at the start, and the numbers above it, less 1 and 2. Sockets are stream sockets.
`NetworkInterface` is the constructor of that class, which leaves a datagram socket open that
no object refers to; a `Connection` whose number was closed may come to refer to it.
`connected`, `usurped` (the number was closed while the object held it), `accepts`,
`interfaces`, `made` and `released` are history.

### Configuration

`Configuration.tla` models `readConfigurationFile` and the recursion of `mapProperties` below
it. `mapProperties` calls itself for each child of a node, and its map and its three vectors
are parameters passed by value: `stack` holds one frame for each activation, each with its own
`kp` (names of the path), `vp` (values of an array so far), `num` (children still to come of
each section) and `props`. One action is one branch of the loop's body (`VisitSection`,
`VisitProperty`, `VisitElement`, `VisitLastElement`), one turn of the loop that leaves
finished sections (`Unwind`), the recursive call (`Descend`) and its return (`Return`). What a
caller gets back when a callee's map goes out of scope is `Returned`, and `Destroy` counts
each destructor of a `Property` in `deleted`, as copies share their value. The tree
`read_json` makes is external: a node has a key, at most one value and its children.

Two things in the walk are undefined in C++. `num.end()[-2]` where `num` has one element
writes before the vector's storage: `wild` records it, the value found there is a free choice,
and the process may crash at once (`Crash`), later, or not at all. It is followed only to the
end of the call in which it happened (`MayCall`), since the heap has no further description.
Popping from an empty `kp` ends the process. The lookups find what the member `properties`
holds. `getProperty` and `getPropertyVector` return a value or nothing, `propertyExists` a
bool (`Answer`). `inserted` is history: what `insertProperty` made a `Property` for.

`Flatten` is what a file says, written as a recursive function of the tree. Three kinds of
files, each part of the one before, say what the walk makes of them. `IsPlain`: no property at
the top, and no object or array in an array; the walk stays inside its vectors. `IsRegular`:
furthermore not just a value, and no object with an empty name among others; every value is
found. `IsOrderly`: furthermore no section in a section but the last of its children; every
value is found under its key. `Nodes` are the nodes of a tree, of which these definitions
speak, and `Height` is a constant that says no more than that trees are finite.

## 3. The runs

| Run | Shows | Result |
|---|---|---|
| `message` | layout, order, aborts, refusals, printing | pass, 39 thousand states |
| `message_queue` | a message implements `TypedQueue` | pass, 513 thousand states |
| `socket_stream` | order, gaps, short counts, termination of `Readn`/`Writen`; the two ends implement `BytePipe` | pass, 56 thousand states |
| `message_transfer` | what `ReadMessage` may return, and that it ends | pass, 74 thousand states |
| `descriptors` | who holds and who releases a socket | pass, 1.8 million states up to symmetry |
| `configuration` | what the walk makes of a file, memory, termination | pass, 78 thousand states |
| `long_out_of_step` | after `getLong` the next get ends the process | violation |
| `string_of_128` | a string of 128 characters ends its reader | violation |
| `read_message_left` | `nleft` leaves its buffer | violation |
| `accept_forgets` | an accepted client is recorded nowhere | violation |
| `connect_loses` | a connected object does not hold its socket | violation |
| `configuration_not_loaded` | nothing of a file that was read is in the configuration | violation |

### Bounds, and why they are enough

* `message`: the buffer has its real size, 65535 bytes. What a put or a get does depends on
  the size of the item, on whether it fits, and on the bytes at the cursor. The values take
  every method once and strings on both sides of every limit of the format (127/128 and
  255/256 for the one-byte length, 32767/32768 for the two-byte length, and lengths that fill
  the buffer exactly or miss by one), with two longs chosen so that the bytes `getLong` leaves
  behind look like an item in one case and like none in the other. Two puts (`MaxPuts`) are an
  item and its successor, which is all the layout relates; reads are not bounded except by the
  cursor leaving the allocation, which no get is followed beyond. The layout itself is proved
  for any number of puts.
* `message_queue`: 14 bytes of room and four puts, so that messages become full, nearly full
  and stay half empty; values that look like tags would take in a cursor out of step.
* `socket_stream`: calls of 0, 2 and 3 bytes against a kernel buffer of 2, so that every call
  of 3 needs several system calls and calls of the two ends never line up; 7 bytes
  (`MaxBytes`) are three calls.
* `message_transfer`: `LengthKnown` is 4 in place of 30; messages are shorter and longer than
  it, buffers smaller, equal and larger; three messages and three reads let a read run over a
  boundary. `SIZE_MAX` is 255, far above every sum of counts, as 2^64 - 1 is.
* `descriptors`: two `Connection` objects with two clients each (`MaxAccepts`) and two
  `NetworkInterface` objects over four numbers: up to eight sockets, so that the table runs
  out, and each number is used by one object, closed, and used by another while the first
  still holds it. The two `Connection`s are symmetric. More of either are covered by the
  proofs. The two violation runs need one client, one interface and three numbers.
* `configuration`: `MCConfiguration` lists files by shape: empty, flat, one section, sections
  in sections, sections before and after properties, arrays of values, of objects and of
  arrays, empty values, keys with dots, objects with an empty name among others, a lone value; and, besides these, every file of at most two children
  to a node and three levels below one section. Two calls (`MaxCalls`) show what a call leaves
  for the next; the violation run needs one. `UINT_MAX` is 255, far above any number of children.

Deadlock is not checked where a process may end, a stream be closed, or a bound be
reached with nothing left to do.

### Fairness

`Message` has weak fairness on the turns of the print loop only: a call that runs goes on
running; nobody has to call anything. `SocketStream` and `MessageTransfer` have weak fairness
on each end's moving, returning and ending steps: the processes are scheduled, the kernel
moves bytes that can be moved, and it reports the end of the stream or a gone peer. An
interruption is a step that changes nothing and leaves the others enabled, so weak fairness
also says that a call is not interrupted for ever. Failures are never assumed to happen, with
the one exception of `ReadRefused`, which is what the kernel answers every time.
`Configuration` has weak fairness on the steps of the walk: a call that was made runs on in
its thread, and nobody has to make one. `Descriptors` states no liveness.

### What the properties are for

The properties follow the hazards of `PROJECT.json`.

* `InBounds` and `LengthIsEnd` are the layout: items do not overlap however often
  `readMessageLength` replaces the member by the 16-bit field, and the field is right even
  when the member is not.
* `Synchronised` and `RoundTrip` are about the reader: the cursor of a living process stands
  between two items. They need the premise that every item is one its getter steps over
  (`InStep`), which excludes longs, strings of 128-255 and of more than 32767 characters, and
  wide strings of more than 127; the violation runs show what becomes of longs and strings.
  `NoSpuriousAbort` says the same of the assertions.
* `RefusedOnlyWhenFull`, `PrintReadsAll` and `PrintReturns` are the other ends of the class's
  promises: a refusal is justified, and printing is complete and ends.
* `InOrder` holds whatever fails. `NoGap` needs that no call returned -1, as a failed `Readn`
  loses what it had read. `ShortOnlyAtEnd` and `AcceptedIsOnItsWay` say what the two results
  mean to a caller. `ImplementsPipe` says of every step what these say of states: a loop over
  system calls is, to its caller, one receipt or one loss.
* `OnlyFragmentsReturned` says what remains of `ReadMessage` with a buffer of a useful size:
  it never returns a message. `SmallBufferRespected` is the case that works.
* `OwnSocket` is non-interference between objects: a living one keeps its socket whatever the
  others do with the numbers they still hold. That matters where numbers are reused: an object
  whose number was closed, or whose `Connect` left it with 0, holds a number that may be the
  one of another object's socket, and a destructor that closed it, as its author may well want
  to add, would close that socket (the mutant `DestroyCloses`). The premises leave out the
  object that connected or whose number was closed under it, for these have lost their sockets;
  what a `Connect` loses is `ConnectedToPeer`, and that a stale object may move another's
  socket to another state is not excluded. `NothingElseReleases` is the account of all sockets,
  those of destroyed objects, connected objects and network interfaces among them: it states
  their leak as it is.
* `WalkRight` compares what the walk inserts with what the file says, for the files whose
  sections come last in their section, and `ValuesKept` for all files that do not lead it
  astray: there the values are right and only keys may be wrong, as the caller's `kp` is not
  what the callee left. `AstrayOnlyWhere` names the files that make the walk leave its
  vectors, in both directions. `CountersPositive` says that no counter in `num` wraps, so
  that every section is left at its last child; the end of a call does not depend on it, as
  the recursion follows the finite tree. `WalkGoesOn` is how `ReadReturns` holds, step by
  step, also for the files that lead the walk astray: places in the file are ordered, every step goes further in that order or, at
  the same place, visits the child or shortens `num`, and no node is visited twice.
* `DeletedOnce` and `ValuesLoaded` belong together: the map passed by value is why no value
  is deleted twice, though copies of a `Property` share theirs, and why nothing is ever
  loaded, against the comment at the end of `readConfigurationFile`. With the map passed by
  reference `ValuesLoaded` would hold, and `DeletedOnce`, whose part about the member has
  nothing to speak of now, would be at risk.

## 4. The findings

1. `getLong` (`Message.cpp:902`) reads a long through a 16-bit buffer: the value is cut and
   the cursor left in the middle of the item (`long_out_of_step`).
2. String lengths are written unsigned and read signed (`Message.cpp:1006`), so that strings
   `putString` accepts end the process of whoever reads them (`string_of_128`).
3. `ReadMessage` takes the size of the buffer off `nleft` (`Connection.cpp:397`) because
   `msgsize` is never assigned (`read_message_left`).
4. `Accept` records no client, against its description in `Connection.h:97`
   (`accept_forgets`).
5. `Connect` keeps the result of `connect()` as the descriptor (`Connection.cpp:292`)
   (`connect_loses`).
6. Nothing that `readConfigurationFile` reads is kept (`Configuration.cpp:57`): it is in a
   copy of the map, although the comment at lines 64-65 says that the properties read will
   overwrite the existing ones (`configuration_not_loaded`).

Five more facts that passing runs establish:

* A wide string of more than 255 characters is counted twice in the member `data_length`
  (`Message.cpp:731`), which is then not the `current length of the complete message` that
  `Message.h:41` says it is, and once in the length field: `LengthIsEnd` needs
  `NoDoubleCount` for the member and not for the field.
* A property at the top of a file, outside any section, is undefined behaviour
  (`AstrayOnlyWhere`).
* A member with an empty name, in an object with others, is read as an element of an array:
  `ValuesKept` needs `IsRegular`.
* A property that follows a section in the same section gets that section's name in its key:
  `WalkRight` needs `IsOrderly`, and `ValuesKept` is what remains without it.
* Every `NetworkInterface` leaves a datagram socket open (`NothingElseReleases`).

## 5. The proofs

Every theorem holds for all values of the constants that the `ASSUME` of its module allows.
Every safety invariant that a passing run checks is stated by a theorem.

### The layout of a message

`Message_proofs.tla`, for every buffer size up to 65535, every set of values and every number
of puts, from `MessageAssumption` alone: `TypeCorrect` (`TypeOK`), `NeverOverruns`
(`InBounds`), `LengthCorrect` (`LengthIsEnd`) and `RefusesOnlyWhenFull`
(`RefusedOnlyWhenFull`).

The inductive invariant is `IInv == TypeOK /\ InBounds /\ LengthIsEnd`, and the three need
each other. That a value read is a value needs every byte of the buffer to be a byte, and
the bytes of a length prefix are bytes only if the length fits in it, which follows from
the item lying inside the allocation. That the next put does not overlap needs
`data_length` never to be behind the end of the last item, which `readMessageLength`
could spoil were the length field not exactly that end. The lemmas about one item (its size,
its width, its bytes) come first, then one about a put and one about a get, then one step
for each action.

### The reader of a message

`MessageReader_proofs.tla` adds where the cursor is: `CursorSynchronised` (`Synchronised`),
`ValuesComeBack` (`RoundTrip`), `OnlyMisuseEnds` (`NoSpuriousAbort`) and
`PrintsEverything` (`PrintReadsAll`), again from `MessageAssumption` alone.

What is to be proved is not inductive: a cursor that a long left in the middle of an item may
come back to a boundary by accident, and a read past a message filled to its last byte takes
what lies behind it. `RInv` therefore says of a living process that the cursor is `Between`
two items, or `Astray` because an item already read is not one its getter steps over, or
`Overread`. `Chain` says that an item that is stepped over exactly is followed at once by the
next, which a wide string counted twice spoils, and `Dead` that a dead process prints nothing.
The lemmas about bytes come first (`ItemBytes`, `ZeroBehind`: no two items overlap and behind
the last there are zeros, by `IInv`), then what each getter does at the start of an item
(`GetterAt`), then the steps.

`MessageIsQueue` is the refinement, `Spec => ImplementsQueue`: with the values of
`FaithfulAssumption` no item leads the cursor astray (`NeverAstray`), and each put, refusal
and get of a message is that of the queue of the items not yet read, while rereading the
length and printing are gets of the queue or change nothing of it.

### The header

`MessageHeader_proofs.tla`: `HeaderRoundTrips`, `HeaderLeavesTheRest` and
`HeaderSettersIndependent`, for every header and every buffer with room for one. They rest
on the spans of the nine fields being disjoint and inside the first 24 bytes.

### The bytes of a connection

`SocketStream_proofs.tla`, for every capacity of the socket, every size of call and any number
of bytes: `StreamTyped` (`TypeOK`), `BytesInOrder` (`InOrder`), `BytesWithoutGap` (`NoGap`),
`ShortCountIsTheEnd` (`ShortOnlyAtEnd`) and `AcceptedNotLost` (`AcceptedIsOnItsWay`).

A byte is in one of four places: delivered, stored by a running `Readn`, on the wire, or with
`Writen`. `Order` says that the numbers grow through the four, `Gapless` that until a call
fails each begins where the one before ends, and `Accepted` that what a finished `Writen` was
given is in one of the first three. Every system call moves bytes from the head of one place
to the tail of the one before, and the cursors (`WriterType`, `ReaderType`) say how many.
`Ended` relates a short count to a closed stream.

`StreamIsPipe` is the refinement, `Spec => ImplementsPipe`. The pipe of `BytePipe` is what the
running `Readn` has stored followed by what is on the wire; a `write()` sends the next bytes
(`SendMaps`), a `read()` only moves the border between the two parts (`ReadMaps`), the return
of a count is one receipt of all that was asked for or of the rest (`ReturnMaps`), and a
failure loses what its caller was told about (`GiveUpMaps`, `LoseMaps`).

`MessageTransfer_proofs.tla`, for every buffer, message and width of `size_t`:
`TransferTyped` (`TypeOK`), `SmallBuffersRespected` (`SmallBufferRespected`) and
`NoMessageReturned` (`OnlyFragmentsReturned`). The invariant is the account of the
bytes: before the length could be looked for, stored and left make up the buffer; after that,
`nleft` is 2^w less what is stored, which no `read()` accepts, so that the call can only
fail. `Minus` is written by cases and not with `%`, which keeps it within linear arithmetic.

### The descriptors

`Descriptors_proofs.tla`, for any set of `Connection` objects, any number of
`NetworkInterface` objects and any size of the table, from `DescriptorAssumption`:
`DescriptorsTyped` (`TypeOK`), `KeepsOwnSocket` (`OwnSocket`) and `OnlyCloseReleases`
(`NothingElseReleases`).

`TypeOK` is inductive, and beside it `OwnEver`, which says of destroyed objects too what
`OwnSocket` says of living ones: the destructor does nothing to the table. The argument is the
lemma `Kept`: a step that leaves the object's number alone and keeps the owner of its socket keeps
the property, and the steps that change an owner either take a free number (`Lowest`), which
no undisturbed object holds, or are a `Close`, which marks every holder. The count of open
sockets changes by one with each number taken and each socket closed (`Opened`).

### The configuration

`Configuration_proofs.tla`, for every set of trees and any number of calls:
`ConfigurationTyped` (`TypeOK`), `CountersNeverWrap` (`CountersPositive`) and
`ValuesDeletedOnce` (`DeletedOnce`).

The invariant is stronger in one place: the map of every frame is empty, as `insertProperty`
works on a copy. Hence each value is deleted once, with that copy, and every return hands
nothing back. `CountersPositive` is inductive with the place of the one counter that may be
zero: the last of the running frame, while sections are being left.

`ConfigurationWalk_proofs.tla`, again for every set of finite trees and any number of calls:
`AstrayOnlyWhereSaid` (`AstrayOnlyWhere`), `EveryValueIsKept` (`ValuesKept`),
`OrderlyFilesReadRight` (`WalkRight`) and `TheWalkGoesOn` (`WalkGoesOn`). The first three
compare a loop over a stack of copies with definitions that are recursive over the tree, and
are proved in three parts.

*Recursion.* The induction theorems of the library take an operator, which the provers cannot
instantiate. `NatAll` is induction without one: the set of numbers at which a statement fails
would have a least element (`WFMin`). From it come the equations of `FlattenSeq` for one
sequence more (`FlattenAppend`), and `TreeRecursion`: what a function is at a node may be
defined by what it is at the children, as they are lower. It gives the equations of `Nodes`
(`NodesDef`) and of `Flatten` (`FlattenDef`); that TLA+ allows such definitions to be written
does not say that they define anything.

*Memory.* `PlainWalk` says of every frame of the walk of a plain file that its names and its
counters are equally many and that, the root's frame apart, one of its counters is `Enough`:
large enough for all the children it has yet to visit, after every section that is left on the
way has taken one from it. The exact values of the counters would not be inductive: after a
section, its caller's counters are those of before the section, and from then on they are too
high. Hence `num` is never empty at a child without children. `FirstLeaf` is the converse.

*What is found.* `RegularWalk` says that there are `Marks`, one for each frame: how many
entries there were before the node of the frame, and the key of that node. They are no
variable of the model, and each step has to say which marks fit after it (`FitsPush` and
`FitsPop` for a call and its return). With a frame's mark, `Tracked` says that what was
inserted since is what the file says of the children that the frame is `Done` with (`Seg`,
`Inside`), that the values of the elements so far are in `vp`, that the last counter is the
number of children to come, and, in an orderly file, that `kp` is the key of the node. When a
frame is done with all children, the entries since its mark are those of its node
(`FlattenInside`), and those of its caller are longer by as much (`SegJoin`, `SegUnder`).
`RegularDone` carries the result from the return of the last frame to the next call.

The attempt corrected two definitions. An object with an empty name among others takes the
value of that name for an element, which joins the values of the next property, and of a file
that is just a value nothing is inserted: such files counted as orderly, and none was among
those that TLC tried. `IsRegular` excludes them now, and TLC tries them.

*Order.* `TheWalkGoesOn` (`WalkGoesOn`) is about every file, regular or not. The place of the
walk is the child that each activation of `mapProperties` is at. The call for a child adds one
and its return moves one on (`DescendGoesOn`, `ReturnGoesOn`); everything else leaves the
place as it is (`TurnSame`), and a section that is left shortens `num` (`UnwindShortens`).
`PlacesAreOrdered` says that `Further` is a strict order of the places, so that steps that go
further or stay where they are never come back. That a finite tree has finitely many places,
and that the steps are taken, is the rest of `ReadReturns`, and stays with TLC.

### Only model-checked

* Liveness under fairness (`PrintReturns`, `ReadnReturns`, `WritenReturns`, `ReadMessageEnds`,
  `ReadReturns`): outside what the prover does. Of `ReadReturns` the steps are proved
  (`TheWalkGoesOn`), not that they are taken.
* The six violation runs, which are counterexamples and need no proof.

## 6. Assumptions on the build and the kernel

Assertions are enabled; the platform is LP64 and little-endian, with a `wchar_t` of 4 bytes
and a `time_t` of 8. A failed assertion, a null dereference and a copy of a size near 2^64 end
the process. `gmtime` fails for years beyond an `int`, to the nearest 2^40 seconds. Sockets
are blocking stream sockets. A signal other than SIGPIPE only interrupts.

## 7. Not modelled

* `debugMessageSerialize`, `getDataType` as a call of its own, the public
  `updateDataLength` called by an application, and the array puts, which are empty.
* SIGPIPE in `WriteMessage`: a writer whose reader is gone ends, and no `ReadMessage` is left
  to which it could matter. `SocketStream` has it for `Writen`, whose write loop is the same.
* Addresses: `resolveHost` decides only whether a later call of the kernel succeeds, which
  is a free choice in `Descriptors`; the setters and validators are stubs.
* The contents of `hdr` in a new `Message`, which the constructor does not initialise: with no
  caller of `writeHeader` they go nowhere.
* `NetworkInterface` beyond its sockets: members that are copied once and returned by
  getters. A null `ifu_broadaddr` ends the process in the constructor, which for the other
  parts is as if it stopped there.
* `setType`, `setValue` and `setValueVector` of `Property`, which nothing in the library
  calls. `kcmsg.h` exports the class, so that an application can make a `Property` of its own
  and set it; no lookup of a `Configuration` returns one, so that what it does there touches no
  modelled state. `dumpProperties`,
  `dumpProperty` and `debugPrintPropertyTree`, which print.
* `kcmsg.h`, which includes the others.
* The heap: leaks (`getString`, `getWString`) and copies of a `Message` that share its
  buffer.

## 8. The plan

In the order of what matters most; all of it is in place.

1. `Message`, with its refinement of `TypedQueue`.
2. Proofs of the layout.
3. `SocketStream`.
4. `MessageTransfer`.
5. `Descriptors` and its proofs.
6. Proofs of `Synchronised` and `RoundTrip`, and of the refinement of `TypedQueue`.
7. Proofs for `SocketStream` and `MessageTransfer`, and of the refinement of `BytePipe`.
8. `MessageHeader` and its laws.
9. `Configuration` with `Property`, its proofs, and those of its walk.
10. The sockets of `NetworkInterface`, in `Descriptors`.

What could follow is the ownership of a `Message`'s buffer across copies, once some code of
the library copies one, and the contents of what `ReadMessage` stores, once it stores into the
data.
