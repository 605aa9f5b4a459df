# A verification project for CIT5950-hw

The repository holds the five assignments of a course in systems programming,
each a small C or C++ program. This directory holds TLA+ modules that model
them, TLC configurations that check the models on small instances, and proofs,
checked by TLAPS, that hold for every instance.

## 1. Inventory: the system's parts

The assignments do not call each other; within one, the parts interact as
follows.

| Part | State it keeps | Operations | Interacts with |
|---|---|---|---|
| `hw0` LinkedList | heap nodes with `next`, `prev`, `payload`; `head`, `tail`, `num_elements`; an iterator is a list and a node | allocate, free, push, pop, append, slice, sort; iterator allocate, next, get, remove, rewind | payloads are freed through a callback of the caller |
| `hw0` HashTable | an array of lists, `num_buckets`, `num_elements`; an iterator is a table, a bucket index and a list iterator | insert, find, remove (all of which may resize), iterator next, get, remove | calls LinkedList; the iterator shares the table's lists |
| `hw1` SimpleFileReader | a descriptor, `good_` | open, close, get_char, get_chars, tell, rewind, good | `read(2)`, `lseek(2)` |
| `hw1` BufferedFileReader | descriptor, buffer, length and index in it, number of fills, `good_`, delimiters | open, close, get_char, get_token, get_line, tell, rewind, good | `read(2)`, which may be short or interrupted |
| `hw2` DoubleQueue | list of heap nodes, length, mutex, condition variable | add, remove, wait_remove, length, destructor | shared by any number of threads |
| `hw2` numbers | the queue, the end-of-input flag and its mutex, the printer's array | a reader thread, a printer thread, main | both threads call DoubleQueue; main joins them and deletes it |
| `hw2` sequential_numbers | the array | one loop | none: it is the reference for numbers |
| `hw2` blur_parallel, blur_sequential | two images, thread ids | one thread per band of columns; joins | threads share both images without a lock |
| `hw2` BMP library (`cqdbmp.c`, `qdbmp.cc`) | an image: header, palette, data; one static error code | create, read and write a file, get and set pixels, indices and palette colours | called by the image programs; the files |
| `hw2` negative, compare_bmp | two images | read, create or read, a loop over the pixels, write | the BMP library; the files the other programs leave |
| `hw3` PageTable | `page_map_` (owned pages), `page_lst_` (copies in order of use), the swap file | get_page, flush_page, flush_all_pages, discard_page, evict_page, destructor | Page, whose source is not in the repository |
| `hw4` pipe_shell | a line's commands, two pairs of descriptors, the loop counters | prompt, pipe, fork, wiring, exec, wait | one process per command, pipes, the input's file offset |
| `hw4` sh, stdin_echo | none | fork, exec, wait; copy lines | commands of a pipe_shell line |

### What is hard, and what makes each part right

* **DoubleQueue** (interleaving, lost wake-ups, a count read without the
  mutex). Right if the memory is one list at every instant, the count agrees
  with it wherever a decision is taken on it, every behaviour is one of atomic
  operations on a FIFO sequence, a waiting thread is woken, and the destructor
  gives back every node.
* **numbers** (two mutexes, a flag tested outside the critical section it
  belongs to, polling). Right if the two threads print what the one-thread
  program prints, nothing is lost between them, the queue is deleted when
  nobody can use it, and the program ends.
* **PageTable** (two containers that must agree; copies with a destructor that
  writes to disk). Right if the table keeps to its capacity, evicts the least
  recently used page, and never loses a store.
* **BufferedFileReader** (short reads, refills in the middle of a token,
  boundaries). Right if every operation returns what comes next in the file.
* **pipe_shell** (concurrent processes, ends of pipes left open, reused
  descriptor numbers, failing system calls). Right if each command is
  connected to its neighbours only, what is written arrives, every line ends,
  and nothing is kept from one line to the next.
* **HashTable, LinkedList** (pointer surgery, iterators across a resize).
  Right if the list is a sequence and the table a map, and an iteration meets
  each element once.
* **blur_parallel** (division of work). Right if every column belongs to one
  thread, for any width and number of threads, and main waits for all of them.
* **The BMP library and the image programs** (padded rows stored upside down,
  three depths, one error code for all images, files that are damaged or cut
  off by a failed write). Right if a pixel is read where it was written, a
  file that is not whole is refused, and a program that ends with success has
  left or found what it says.

PROJECT.json lists the hazards with the line where each bites and the
properties that would notice.

## 2. The modules

| Module | Models | State and actions |
|---|---|---|
| `FifoQueue` | what DoubleQueue promises | a sequence; each call takes effect at one instant between its invocation and its return |
| `DoubleQueue` | `DoubleQueue.cc` | the fields of the class and of its nodes, the mutex's owner, and for each thread the call it is in and where; one action per stretch of code between two points another thread can notice |
| `SequentialNumbers` | `sequential_numbers.cc` | no state: the function from input tokens to printed statistics |
| `NumbersProgram` | `numbers.cc` | the queue (an instance of `DoubleQueue` at full grain), the reader, the printer, main, the flag and its mutex |
| `PageTable` | `PageTable.cc`; `Page` from its header | map, list of copies with their own bytes and dirty flag, swap file; one action per operation, split by its early returns |
| `SimpleFileReader` | `SimpleFileReader.cc` | file, offset, `good_`; one action per operation, over the file's contents |
| `BufferedFileReader` | `BufferedFileReader.cc` | the fields of the class, the file and its offset; one action per `read` and per `get_char`, of which the other operations are loops |
| `SequenceList` | what LinkedList promises | a sequence and the iterator's index; one action per call |
| `LinkedList` | `LinkedList.c` | nodes with both pointers, allocated or not; one action per operation, the sort and the free node by node |
| `KeyMap` | what HashTable promises | a map from keys to values and the pairs still to be met; one action per call |
| `HashTable` | `HashTable.c` | buckets as sequences of pairs, counts, the iterator's bucket and place; one action per operation with the resize in it |
| `SequentialBlur` | `blur_sequential.cc` | no state: the function from image to image |
| `BlurParallel` | `blur_parallel.cc` | both images, main's loops, the status and the loop counters of each thread; one action per pixel, per creation and per join |
| `BmpFormat` | what a BMP file is | no state: the function from a picture to the bytes of its file |
| `BitMap` | `cqdbmp.c`, and `qdbmp.cc` over it | no state: each call as a function of the image or the file and of the memory left, to an image and an error code; a write to a set of outcomes |
| `ImagePrograms` | `negative.cc`, `blur_sequential.cc`, `blur_parallel.cc`, `compare_bmp.cc` and the disk | the files, the commands still to run, the running program's place, its two images and error code; composes `BlurParallel` and `BitMap`; one action per call of the library and per check, those of `BlurParallel` in the loop of blur_parallel |
| `PipeShell` | `pipe_shell.cc`; `sh.cc` and `stdin_echo.cc` as commands | the shell's variables, all descriptor tables, pipes, children; one action per system call of the shell, one for a child's wiring and exec, and the commands as environment |
| `...Proofs` | - | theorems about the module of that name: `DoubleQueue`, `NumbersProgram`, `PageTable`, `BufferedFileReader`, `LinkedList`, `HashTable`, `PipeShell`, and `ImagePrograms` with `BlurParallel` and `BitMap` |
| `MC...` | - | the small instances for TLC |

History variables (`chain`, `stored`, `reget`, `before`, `pos`, `start`,
`started`, `delivered`, `seen`, `tight`, `drawn`, `meant`, `lost`, `ended`) record what
a property needs and no guard reads. Next to a definition a module may hold a
second one with a mistake in it (`Signal` and `SignalNobody`): no action uses
it. Put in the place of the right one it makes a property fail, which shows
that the property can fail; PROJECT.json lists the pairs under "mutants".

### DoubleQueue

`pc[t]` is the place of thread `t`: `lock` (asking for the mutex), `locked`
(inside), `count` (list changed, `queue_length` not yet), `unlock`, `asleep`
(in `pthread_cond_wait`), `relock` (woken, asking for the mutex again), `read`
and `return` (in `length()`, which takes no mutex). A critical section is cut
at the write of `queue_length` because `length()` can see the moment before
it. `Signal` wakes one sleeper if there is one; `SpuriousWake` wakes one for
no reason, as POSIX allows. `Take` leaves `tail` alone, as the code does: after
the last element it is the address of freed memory, and `HeapShape` says that
nobody follows it. `HeapRoom` is the model's bound: the programs add only while
a node is left, so `operator new` does not fail. The class is not safe to
destroy while in use, so `Destroy` waits for idle threads; `numbers.cc`, its
only user, does that with its joins (`DeletedUnused`).

The refinement maps the queue's content to the values on the list, minus the
one whose `add` is between its two halves, plus the one whose `remove` is.

### numbers

Input is a sequence of tokens: numbers, newlines and words `operator>>`
cannot read. `sleep(1)` delays the reader by any amount. The printer's block
of text is the record of its maximum, minimum, sum (the average is sum over
length) and last five.

### PageTable

`page_lst_` is a `list<Page>`: it holds copies, and `Page`'s destructor
flushes a dirty one. `Flushed(swap, page)` is that write. `SwapAfterDiscard`
applies it twice, for `flush_page` and for the destruction of the copy, which
is the defect described below. In the destructor the file is closed before the
list's copies are destroyed, so what they would write goes nowhere.

### BufferedFileReader

`file` is the open file, `offset` its descriptor's. `Read(n)` is one `read`
that returned `n` bytes, fewer than asked for or not; one that is interrupted
is repeated by the code and is a stuttering step; one that fails exits. `pos`
counts the characters delivered since the file was opened or rewound, `start`
is `pos` at the beginning of the call. Past the end of the array `At` returns
any character. `EOF` is the char -1, which is also the byte 0xFF: files of the
run contain it, and `TokenIsNext` and `LineIsNext` say that it ends a token or
a line while the file goes on. `LineIsNext` accepts two answers of a `get_line`
that finds no text, at the end of the file or on an empty line: the header
promises no token, the code returns an empty one (section 5). Every behaviour whose `read`s are not
interrupted at the end of the file is one of `SimpleFileReader`: buffering
changes no answer (`IsSimpleReader`, with the unbuffered reader's offset
mapped to `pos`).

### LinkedList and HashTable

A node of `LinkedList` is a record of payload and two pointers in `heap`;
reading a freed node is not modelled because `DoublyLinked` shows that no
pointer leads to one. `IterRemove` is the disjunction of the code's four cases.
The sort is the code's bubble sort, one comparison a step; two payloads of the
instance compare equal, so that stability shows. `IsSequence` maps the
nodes in the order of `next` to the abstract sequence.

`HashTable` builds on that: a bucket is a sequence of pairs, a new one
appended. The resize multiplies the buckets by nine once there are more than
three pairs a bucket, and deals the pairs out again in the order in which the
iterator meets them. `seen` is what an iteration has met, `tight` that the
table held three pairs a bucket when the iterator was made, the limit at which
`HTIterator_Remove`'s own call of `HashTable_Remove` resizes; then the iterator
dangles, and `IsMap` claims nothing more about it (`DanglesOnlyAtLimit` says
that there is no other way).

### blur_parallel

A pixel is a triple of colours, averaged alike. A step of a thread is one
pixel, since what it reads (the first image) is never written and what it
writes nobody else reads before the joins. The arguments are the numbers they
spell. `CreateFails` leaves the thread's place in the array of ids unset;
joining that is undefined, and `Join` and `JoinCrashes` are its two outcomes.
`LeftOut` are the pixels of such threads' bands: they stay black, and
`OutputIsSequential` says that no other pixel does.

### The BMP library and the image programs

A file is the sequence of its bytes, so that padding, the order of rows and
colours, and the little-endian numbers of the header are what the code makes of
them. `BMP_ReadFile` goes through the code's checks in their order; its
argument `memory`, like `BMP_Create`'s, is how many allocations succeed before
one fails. `BMP_WriteFile` is the set of its outcomes: the file cannot be
opened, or is whole, or lacks its last bytes, with the error known or (when it
is `fclose` that fails) not. `FileSize` and `DataOffset` are read and not used,
as in the code, and a number whose top byte is 128 or more is sign-extended to
the 64 bits of a `UINT`, as `ReadUINT` does (no file of the runs has one, and the
theorems' pictures stay below); `BmpFormat`, written from the format and not from the code,
is what both sides are compared with.

`ImagePrograms` runs a session: commands one after another, on the files the
ones before have left. `error` is `BMP_LAST_ERROR_CODE`, one for both images;
`Check` is `BMP_CHECK_ERROR` and its like; `Exit` is main's return with the
destructors. The loop of negative or blur_sequential is one step, since nothing
runs beside it; that of blur_parallel has the steps of `BlurParallel`, where a
`SetPixel` also writes bytes of the second image. `Result` is the picture that a
program is for, computed from pictures and never from bytes: `meant` keeps it
when the program writes. `drawn` has the picture that was put into each file
(`Output`), which is `Result` but for one case: `blur_parallel` writes the bands of
threads that it could not create as they are, black (`PartLeftOut`), and ends
with success. `SuccessMeansDone` compares the file with `meant`, and states that
case as an exception; that the black is in those bands and nowhere else is
`OutputIsSequential`'s. `lost` are the files of which `fclose` lost data.
blur_parallel's `image` is what the file there is at first shows, so it comes
first in a session and reads that file.

### PipeShell

`fds[q]` is the table of process `q`, from descriptor number to what it refers
to, so that number reuse is real: `pipe` takes the two lowest free numbers.
`fork` copies the table and the shell's variables (`copy`). A command is the
sequence of its words, the last of which says what it does with its pipes:
"source" writes `Items` items, "filter" passes on what it reads until the end
of its input, "head" reads nothing and ends, "bad" cannot be executed (an
unknown name, or an empty line). "stdin_echo" is the repository's: it writes
an item and then is a filter. A command of two words is sh with what it runs:
the child of sh shares its descriptors and does the work (or cannot be forked
or executed), and sh keeps the descriptors until it has waited, its status
being "waited" then. A writer whose reader is gone is killed by SIGPIPE; a
reader sees the end when every write end is closed, wherever it is held. The
first command of a line reads nothing from the shell's input. `offset`, `at`
and `limit` are the input's file offset and the C library's buffer in front of
it; the library's `exit` moves the offset of a file back, from where it is, over
the lines that are left in the buffer of the process that ends, or leaves it
alone when that would be before the file's beginning. `wait` returns -1 only to
a process without children; while the loop runs there is one for every turn that
is left (`Stages` in `PipeShellProofs`), so the exit at `pipe_shell.cc:141` is not an
action.

## 3. The runs

| Run | Instance | What it shows |
|---|---|---|
| `dq_one_waiter` | two adders, one poller that also calls length, one waiter; two values, two nodes | type, shape of the list, count, no waiter asleep over an element, the refinement of `FifoQueue`, and `wait_remove` returns once there is something to remove |
| `dq_lost_wakeup` | one adder, two waiters | violated: a waiter sleeps on while the queue is not empty |
| `ll_all` | four nodes, four payloads of which two compare equal, one iterator | one doubly linked list in memory, every operation one on a sequence, the sort stable and ending |
| `ht_all` | keys 0, 1, 5, 9, which collide before or after the resize; one bucket that becomes nine | pairs in their buckets, the load within its limit, a map under every operation, each pair met once |
| `numbers_all` | four inputs: a window that slides twice, bad words everywhere, no newline at the end, nothing | the output is a prefix of the sequential one and nothing vanishes on the way; the queue is deleted unused; the program ends |
| `pt_all` | three pages, two slots, two contents | the containers agree; capacity; a page makes room only when the table is full and all that stay have been got since; no store is lost while no dirty page is got again |
| `pt_lost_store` | the same | violated without that condition |
| `bf_inside` | a buffer of three, files of one to five characters whose end is inside a buffer, the byte 0xFF among them, newline a delimiter or not | every operation returns what comes next, tell agrees with it, and the whole is an unbuffered reader |
| `bf_boundary` | files of three characters | violated: characters after the end of the file |
| `ps_all` | two lines of up to four commands, some of them stdin_echo or run by sh, pipes of one item, six descriptors, pipe and fork failing | wiring, no leaks, everything delivered, each line once, every line ends |
| `ps_rerun` | a bad command and a good one | violated: the good one is carried out twice |
| `images_all` | pictures of one to five columns and one or two rows, at three depths, whole and damaged files, boxes of 0 and 1, one to three threads; sessions of two or three programs; allocations, creations of threads and writes failing | blur_parallel's output is the sequential program's, but for black bands of threads that could not be created; pixels are found where they were put; a file that can be read shows what was put into it; success means the work is done, unless `fclose` lost the end of the file or a thread of blur_parallel could not be created |

Why the bounds are enough. The queue's code distinguishes an empty queue, one
of one element, and longer ones, and every test it makes is whether the count
is 0: two nodes give all of them, and the proofs below cover any number. An
LRU order needs two slots to be an order and a third page to force an
eviction; a third content adds nothing, since contents are only compared. A
buffer of three has a first, a middle and a last index, and files of up to
five characters have their end before, at and after the first refill. A row of
four commands has two middle ones, and its third pipe takes descriptor numbers
the first has given back; pipes of one item with two items to write make every
writer wait for its reader. Four nodes give a list a first, a last and two
middle ones, and a sort more than one pass. Four keys in one bucket force the
one kind of resize there is. Bands are checked for widths the number of
threads divides, that leave columns over and that are smaller; the proof
covers the others. Rows at the three depths need no padding, two bytes or
three. Files are cut off in the header, in the palette, in the data and by the
last byte (`Cuts` for the writes, `Damaged` for the inputs), and have each of
the header's checked fields wrong once. The palette has eight colours
(`PaletteSize` 32) instead of 256, which only makes files shorter. The numbers
of a header stay below 2^31, where TLC's integers end.

Fairness. `DoubleQueue!Fairness`: a thread that can go on does (weak fairness),
and a thread that asks for the mutex while it is freed again and again gets it
in the end (strong fairness of the acquisition: the poller of the run may call
`remove` for ever); no call and no spurious wake-up is ever required.
`NumbersProgram!NFairness` adds strong fairness of the reader's two lock
acquisitions, because the printer polls and frees each mutex infinitely often:
without it a scheduler could let the reader starve, which pthreads does not
exclude in theory; `Terminates` is relative to that. `LinkedList!FairSpec`: the
loop of a sort goes on. `PipeShell!FairSpec`: the kernel runs every process that
can run. Nothing requires a failure to happen.

Deadlock is checked in every run except `dq_lost_wakeup`, where all threads
asleep is what is looked for. `Finished`, `Done` and `Exited` let a program
stop at its end.

## 4. What is proved

All safety properties of the passing runs are theorems, for every value of the
constants; so are the refinements, up to fairness. An invariant is seldom inductive as it stands: each proof module
states the strengthening (`IInv`, its parts named and commented), proves it in
a theorem `Inductive` with one lemma per action or group of actions, and
derives the properties from it.

**`DoubleQueueProofs`**, for any set of threads, nodes and values and any
assignment of operations to threads, from `QueueAssumption` (the calls are
threads with operations, the nodes are finite in number, NULL is not a node and
Nobody not a thread):

* `QueueIsSafe`: `TypeOK`, `HeapShape`, `CountMatches`, `MutualExclusion` and
  `NothingLeaks` hold always (`TypeCorrect` and `CountIsRight` state two of them
  alone).
* `OneWaiterIsWoken`: `NoSleepOverElements` holds always.
* `QueueIsFifo`: the queue implements `FifoQueue`.

`CountMatches` needs to know who is between the two halves of a critical
section, hence `MutualExclusion` and `CountSeen`, which states the count from
the point of view of the thread inside; `HeapShape` needs the count, since
`add` decides by it whether `tail` may be followed; `NoSleepOverElements` needs
both, since `Signal` happens exactly when the count says the list was empty.
`Places` ties a place to a call, `Alone` and `Stopped` describe the destructor.
For the refinement `Results` adds what a call will return; each call has one
step that maps to its effect (the write of the count, or of a length read), and
all its other steps map to stutters. `length()`, which takes no mutex, returns
the length of that very instant in the abstract queue (`LengthIsExact`).

**`NumbersProgramProofs`**, for any inputs and set of nodes, from
`NumbersAssumption` (the constants are what their names say):

* `TypeCorrect`: `NTypeOK`; `DeletedAfterUse`: `DeletedUnused`.
* `PrintsTheSame`: `PrintsLikeSequential` holds always.

The queue inside is at full grain, so its theorems are used through an instance
of `DoubleQueueProofs` (`QP`): its invariant holds here, and a call takes effect
at one instant (`CallsTakeEffect`). On top, `Stages` says where each thread is
while it waits for a call and who holds the flag's mutex; `OnTheWay`, that every
number read is printed, just taken, in the queue or being added, in this order;
`PrintedSoFar`, that the output is the sequential one of the numbers printed. The
sequential program is a fold over the input; `FoldSteps` says what it does with
one token more.

**`PageTableProofs`**, for any set of addresses, contents and capacity, from
`TableAssumption` and `NullAssumption`:

* `TypeCorrect`, `ContainersAgree`: `TypeOK` and `ListMatchesMap` hold always.
* `KeepsToCapacity`: `WithinCapacity` holds always if the capacity is not 0 (with
  0 there is nothing to evict and the page is loaded all the same).
* `StoresAreKept`: `NoStoreIsLost` holds always.
* `LeastRecentlyUsedGoes`: every step satisfies `EvictsLeastRecentlyUsed`: a
  reference that `get_page` has returned is valid until that many other pages
  have been got as the table may hold, if nobody discards or evicts its page.

`NoStoreIsLost` rests on `CopiesClean`: only `get_page` of a dirty page makes a
dirty copy, so until then the destructors of copies write nothing; and on
`CleanMeansSaved`: a page that needs no flush is already on disk as it is. The
capacity needs `Distinct` and `Numbers(page_lst) = Loaded`, without which the
first copy could be one of a page that is gone and the eviction evict nothing.
`InOrder` ties the list to the history of calls for the eviction order. Four
lemmas on sequences say what removing a copy and appending one does.

**`BufferedFileReaderProofs`**, for any size of buffer, delimiters and files, from
`ReaderAssumption`:

* `TypeCorrect`, `BufferAndTell` (`BufferIsWindow`), `TokenFollows`
  (`TokenIsNext`), `CharFollows` (`CharIsNext`), `LineFollows` (`LineIsNext`):
  every operation returns what comes next, a line without text excepted.
* `ReaderIsSimple`: the reader implements `SimpleFileReader`.

All of them have the hypothesis `EndsInside`, that no file ends where a buffer
does: without it `CharIsNext` is false (section 5). The invariant is `Window`,
which places the buffer in the file by the descriptor's offset and the number
of fills, however short the `read`s were; `Tokens` and `Lines` say what a call
in progress has collected.

**`LinkedListProofs`**, for any nodes, payloads and comparator, from
`ListAssumption`:

* `TypeCorrect`; `ListIsDoublyLinked`: `DoublyLinked` holds always.
* `ListIsSequence`: the list implements `SequenceList`, the sort included: in the
  end it is a stable sort of what the list was.

The invariant names the list by a chain of distinct nodes, along which `Forward`
and `Backward` state the two kinds of pointers; `PushNode`, `AppendNode` and
`DropNode` are the three surgeries, proved once on such chains. `Sorting` is the
bubble sort's: behind the current pass the greatest elements are in place.

**`HashTableProofs`**, for any keys and values and any first number of buckets,
through any number of resizes, from `TableAssumption`:

* `TypeCorrect`; `KeysStayInTheirBuckets`: `KeysInTheirBuckets` holds always;
  `OnlyFullTablesLose`: `DanglesOnlyAtLimit` holds always.
* `TableIsMap`: the table implements `KeyMap`, an iteration meeting each pair once
  also while it removes.

The resize is a fold over the pairs in the iterator's order; `RehashSteps` says
what one more pair does and `RehashKeeps` that the pairs stay the same. `Upto`
is the set of pairs behind an iterator's place, and `AdvancedIs` and
`NextWithout` say that advancing adds exactly one pair to it, with and without
a removal in between.

**`PipeShellProofs`**, for any lines, any number of commands and descriptors and any
capacity of a pipe, with `pipe` and `fork` failing at any time, from
`ShellAssumption`:

* `TypeCorrect`; `ShellKeepsNothing`: `NothingKept`; `CommandsAreWired`:
  `WiredInARow`; `RowLosesNothing`: `AllDelivered`.
* `LinesCarriedOutOnce`: `EachLineOnce`, under `NoRerun`: with a file as the input
  only its last line begins with a command that cannot be executed. Without it
  the property is false (section 5).

The invariant gives every descriptor table in full: there is an assignment of
pipes to neighbours (`pid`) by which the shell holds exactly what its place in
the loop needs (`ShellTable`) and each child what it has inherited and not yet
wired (`ChildTable`). That is what makes reused numbers harmless, and the
end of a pipe seen by its reader. `Flow` counts the items: what a command has
read, plus what its pipe holds, is what its neighbour has written.

**`ImageProgramsProofs`**, in three parts.

*The threads*, from `BlurAssumption` (sizes and thread counts are positive) and
`ColoursAssumption` (the average of pixels is a pixel):

* `BandsCover` and `BandsDisjoint`: for every width and number of threads, each
  column is in exactly one band. Two threads never write the same pixel, which
  is why they need no lock.
* `TypeCorrect`: `TypeOK`, no thread leaves the image; `ThreadsKeepToBands`: nor
  its band (`Inside`).
* `ParallelIsSequential`: `OutputIsSequential` holds always, threads that could
  not be created included.

`OutputIsSequential` speaks of the end only; its invariant is `Drawn` (behind a
thread's next pixel its band has the right colours), `Ended` (a thread that has
ended has done its rows) and `Progress` (main is not past the join of a running
thread). `BandsCover` then gives every pixel a thread that has drawn it, and
`ColourIsBlurred` says that clipping the box with max and min is what the
sequential definition means by a box.

*The library*, from `BitMapAssumption` (a write that fails leaves out at least a
byte) and `NullAssumption` (NULL is neither a file nor an image), for any size
whose file has numbers below 2^31 (`Fits`). An image that `BMP_Create` has made
and on which `pixels` have been painted is a `Canvas`:

* `HeaderRoundTrip`: a header is read as it was written; the fields do not meet
  (`PlacesApart`) and each has its bytes (`HeaderByte`).
* `PixelSet`: setting a pixel paints this pixel and no other, since the places of
  two pixels do not meet (`SpotsApart`); `PixelGot` finds it again.
* `WrittenIsRead`: a file that was written is whole and read as the same image;
  `CutIsRefused`: without its last bytes, however many, it is refused;
  `EncodedIs`: it is the file that `BmpFormat` asks for.
* `FilledCanvas`, `ComparedIs`: what the loops over the pixels do, one step in the
  model and here a fold taken pixel by pixel; `AverageIsColour`: what they paint
  fits into bytes.

*The programs*, from `ProgramsAssumption` (what the constants are), for any
session:

* `ParallelInSessions`: `OutputIsSequential`.
* `ProgTypeCorrect`: `ProgTypeOK`; `PicturesAreInBytes`, `ReadableIsWhole`,
  `SuccessIsDone`: the three properties of the programs hold always, under
  `FilesShowPictures`: a file there is at first shows its picture or is refused.
  `SuccessMeansDone` has its two exceptions here too.
* `FormatShowsPictures`: that hypothesis follows from `FilesInFormat`, which says
  what the files are and nothing of the programs: each is what `BmpFormat` makes
  of its picture, at a depth the picture can have (24 or 32, or 8 if its colours
  fit into the palette), or it lacks bytes at its end, or is missing. A file in
  the format is read, palette and rows (`EncodedLoads`), and each pixel is found
  in it (`EncodedPixel`), so that it shows its picture (`FormatIsShown`); without
  any number of its last bytes it is refused (`FormatCut`). `images_all` starts
  from such files, and from two more kinds that `FilesInFormat` leaves out and
  only TLC checks: files with a wrong byte in the header, and one that the library
  itself has made with 8 bits, whose palette is in another order than the
  format's.

`ThreadInv` is the threads' invariant: it adds `NotDrawn`, the band of a thread that
has not run is black, since that is what the output has there. `ProgInv` consists
of it, of `Disk` (what was put on the disk can be there) and of `Stage`,
which says for each place of a program what its images show: the first one the
input, the second one black, then what the loop has painted, then the output,
and after a write that succeeded the file is the output in the format or is
known to be lost. Output and result are one picture where no band was left out. `ParallelFirst` ties the threads' image to the input file.
`Stage` needs `ReadableMeansWhole`, since a program believes what it can read;
`ReadableMeansWhole` needs `Stage`, since the next file is what this program
writes.

### Only model-checked

* Everything under fairness: that `wait_remove` returns, that numbers, a sort and
  a line end. The prover has no rule for WF and SF or for ENABLED. The
  refinements are proved for the specifications without fairness; their abstract
  sides state none.
* `BMP_Create`, `BMP_SetPixelIndex` and `BMP_SetPaletteColor` for 8-bit images,
  and 24-bit ones: no program makes such an image. The run makes one to read.
  Reading files of 8 and 24 bits is proved.
* That a file whose header has a wrong byte is refused.

The library's induction theorems take an operator as a parameter, which none of
the provers can instantiate. Where a proof needs induction (what a fold is after
one more element, in `HashTableProofs`, `NumbersProgramProofs` and
`ImageProgramsProofs`; the smallest free descriptor in `PipeShellProofs`) it goes over a set of numbers instead:
`LeastNatural` gives a non-empty set of naturals a least element, from the
library's theorem on well-founded relations, and `FromZero` says that a set of
numbers up to n that has 0 and the successors of its elements has them all.

## 5. What the models found

Each with the line and the documentation it contradicts in PROJECT.json.

* `DoubleQueue::add` signals only when the queue was empty: with two waiters a
  wake-up is lost (`dq_lost_wakeup`).
* `PageTable` destroys copies of dirty pages, whose destructor writes their old
  bytes over newer ones (`pt_lost_store`).
* `BufferedFileReader::get_char` does not notice that a refill found nothing
  (`bf_boundary`).
* `pipe_shell`, with a file as its input, runs the lines after a bad command
  twice (`ps_rerun`).

Seen while modelling. The inputs of the runs avoid these, or a property says
what remains:

* `numbers` tests the end-of-input flag after a failed `remove`, in another
  critical section, and can exit with the last numbers in the queue
  (`numbers.cc:38`; `PrintsLikeSequential` asks for a prefix only).
* `HTIterator_Remove` on a table with exactly three pairs a bucket resizes it and
  frees the list the iterator points into, which the caller's next use reads
  (`HashTable.c:390`, `DanglesOnlyAtLimit`); `HashTable_Find` resizes too
  (`HashTable.c:219`).
* `LLIterator_Allocate` allocates the size of one pointer where the iterator has
  two (`LinkedList.c:195`: the variable has the type's name).
* A `pthread_create` that fails is reported and loses its band, and the join then
  reads an id that was never set (`blur_parallel.cc:120`); if nothing worse comes of
  that, the program ends with EXIT_SUCCESS although its output is in part not
  blurred but black. `SuccessMeansDone` leaves that case out (`PartLeftOut`) and is
  violated without the exception. The tests for a box size and a
  thread count that are not positive compare pointers (`blur_parallel.cc:73` and
  `:79`), so that 0 threads divide by zero.
* `tell` of an empty file is the negated size of the buffer
  (`BufferedFileReader.cc:138`); `get_line` returns one empty token at the end of
  the file (`:114`), and on an empty line, where the header promises nullptr and 0
  tokens (`BufferedFileReader.h:117`, `:142`; `LineIsNext` accepts both); it writes past its array
  at the 51st token (`:120`); the byte 0xFF ends a token (`:99`).
* The BMP library does not look at `fclose`'s result after a write
  (`cqdbmp.c:367`): a program may end with success and leave a file that lacks its
  end (`lost` in `SuccessMeansDone`). The next program refuses it.
* The library trusts a header whose checked fields are right: a width and a height
  that do not agree with `ImageDataSize` make `get_pixel` read outside the data,
  and `DataOffset` is ignored (`cqdbmp.c:282`, `:446`). The inputs are consistent.
  The status that the programs look at never tells: the calls on pixels leave it
  alone (`cqdbmp.c:434`).
* `compare_bmp` compares with a stale colour beyond the edges of a smaller picture
  (`compare_bmp.cc:69`), which its verdict survives because the sizes differ; the
  percentage it prints does not.
* `length()` is a data race in the sense of C++ (`DoubleQueue.cc:90`).
* A page table of capacity 0 loads pages without bound (`PageTable.cc:40`).

## 6. What is not modelled

The programs are called as they should be: the tests of `argc` and of the
arguments at the beginning of each `main`, with their usage messages, are left
out. Numbers are integers, not doubles; the wording of outputs and error messages;
the splitting of a command line into words; memory running out (`new`
throws, and no C++ code here catches; where the C code tests `malloc`, a failed
call changes nothing; the BMP library's failed allocations are modelled, the
memory it frees is not). The sums and percentages that `compare_bmp` prints, the
text of the library's errors, and headers of damaged files beyond the checked
fields are left out. In `HashTable`, how a string becomes a key (`FNVHash64`)
is not modelled: keys are given. The test programs keep no state worth a model.
Page is external: its operations are taken from its header and from their use.

Three hazards have no property. The 51st token of a line is written past an
array (`BufferedFileReader.cc:120`): undefined behaviour, of which nothing
could be promised; the lines of the runs are shorter.
`SimpleFileReader::get_char` does not repeat an interrupted read
(`SimpleFileReader.cc:74`): the model has the step, and the buffered reader,
which repeats it, is compared with a reader that is not interrupted. The swap file
is closed before the copies in the page table's list are destroyed
(`PageTable.cc:16`): a dirty copy, which alone would miss it, exists only after a
dirty page was got again, and `NoStoreIsLost` leaves those sessions aside.

The window of the last five numbers and the averaging of a box are the same code
in the program with threads and in the one without, and the model shares them as
well: `PrintsLikeSequential` and `OutputIsSequential` compare the two programs, and
say nothing of a mistake in what they have in common.

## 7. The plan

All the parts whose source is in the repository are modelled, except the
tests, and all the safety properties of the runs are proved. What is left:

1. `BitMap` for the images that no program of the repository makes: a pixel, an
   index and a palette colour that are set are those that are got, at 8 and 24
   bits. That such a file is read is proved; the making of it is not.
2. A file whose header has another magic number, header size, depth or
   compression is refused, so that `FilesInFormat` covers all the files that
   `images_all` starts from but the one above.
3. `ColoursAssumption` follows from `AverageIsColour` when colours are bytes; with
   colours fixed in `BlurParallel` it need not be assumed.
