# Verification of csf-fall22

TLA+ models, model-checking configurations and machine-checked proofs for the
programs of this repository: five course assignments, of which the last, a
multi-threaded chat server, carries the concurrency.

## 1. The system: inventory

### assign5: chat server (C++, threads)

| part | state | operations |
|---|---|---|
| `MessageQueue` | deque `m_messages`, mutex `m_lock`, semaphore `m_avail` | `enqueue` (lock, push, unlock, post), `dequeue` (timed wait, lock, front, pop, unlock) |
| `Room` | set `members` of `User*`, mutex `lock` | `add_member`, `remove_member`, `broadcast_message` (one critical section for the whole loop) |
| `Server` | map `m_rooms` from names to `Room*`, mutex `m_lock` | `find_or_create_room`, the accept loop |
| worker thread | `conn`, `user`, local `room`, the request in hand | login, `chat_w_sender`, `chat_w_receiver` |
| `User` | `username`, its `MessageQueue`; owned by the worker that created it | constructor, destructor |
| `Connection` | socket, read buffer, last result | `send`, `receive` (line, tag, data) |
| robust I/O of `csapp.c` | what is left to write, the buffer `rio_buf` | `rio_writen`, `rio_read`, `rio_readlineb` |
| `sender`, `receiver` clients | connection, what the user typed | lock-step requests; login, join and print deliveries |

How they interact: a sender's worker calls `Room::broadcast_message`, which
calls `enqueue` on the queue of every receiver in the room; each receiver's
worker calls `dequeue` on its own queue in a loop and writes what it gets to its
client. The pointer to a `User` is shared between the worker that owns it and
every sender's worker that finds it in a room. A worker ends when its client
quits, ends the connection or a write fails; then it removes its user from the
room and deletes it.

What is hard: steps of several workers interleave between any two
synchronisation calls; a receiver leaves while a broadcast is under way; the
semaphore is posted outside of the queue's mutex; timeouts race with posts; two
workers create the same room at once; clients disconnect at any moment. Below that,
a connection is a stream of characters: writes and reads cut it anywhere, lines have
a limit, and neither side numbers its messages.

What makes it correct: the queue is a FIFO queue that loses and duplicates
nothing; no `User` is used after it was deleted; a room name stands for one
`Room`; a broadcast reaches every receiver of the room, in one order for all;
requests are answered and queued messages are delivered; the streams keep their
lines, an answer belongs to its request, and a receiver prints what was said.

### The other assignments

| part | state | operations | hard | correct when |
|---|---|---|---|---|
| assign3 `csim` | sets of slots (tag, clean bit, timestamp), map tag to slot, cycle count | `loadStore`, the trace loop | state carried between accesses | timestamps order the slots as LRU or FIFO would; a dirty block's eviction is counted; map and slots agree |
| assign4 `parsort` | a file mapped into a tree of processes | `merge_sort` (fork twice, wait twice, merge) | process interleaving, failing forks and children | exit 0 means sorted; no process writes another's segment, or after its parent has reported |
| assign1 `fixedpoint` | a value: whole, fraction, tag | add, sub, negate, halve, double, compare, hex conversion | carries, borrows, overflow | the result is the exact one or the tag says why not |
| assign2 drawing, C | image of pixels | `draw_pixel`, `draw_rect`, `draw_circle`, `draw_tile`, `draw_sprite` | clipping, blending arithmetic | only pixels of the shape inside the image change, to the promised colours |
| assign2 drawing, assembly | as above; `draw_tile` and `draw_sprite` return at once | as above | sign extension, registers | as above |
| assign2 driver | canvas, slots of loaded images, error flag | the commands S, R, C, L, T, P, the output at the end | the order of commands, what fails half-way | the canvas shows what the script has painted |
| assign2 images, `pnglite` | image; chunks of a file, compressed stream | `read_image`, `write_image` | chunks, filters, conversions, failing writes | a file is read as the picture it holds; what was written is read back |
| `tctest`, unit tests, helpers of assign4 | | | | not modelled |

`PROJECT.json` lists every part with its sources and status, and every hazard
with its line and the properties that cover it.

## 2. The plan

The most important behaviour came first, each step with its checks and then its
proofs:

1. `MessageQueue` with its abstract specification `FifoQueue`: checked and proved.
2. `ChatServer` with `AtomicChat`: checked and proved.
3. `ParSort`, the tree of processes: checked, and its safety proved.
4. `CacheSim` with the abstract `ReplacementList`: checked and proved.
5. `FixedPoint`, against integer arithmetic, and `FixedPointText`, its conversion from
   and to hexadecimal: checked and proved.
6. `Rio`, the streams, and `Session`, both clients and their workers on top of it:
   checked, and their safety proved.
7. `Images`, `Drawing`, `AsmDrawing`, `PngFiles` and `Renderer`, against the pictures
   of `Painting` and the files of `PngStandard`: checked and proved.

Every safety property of a run that is expected to pass is the statement of a theorem, too.
What could still be added: the parts listed in section 7.

## 3. The modules

| module | models | extends / instantiates |
|---|---|---|
| `FifoQueue` | what a message queue promises | |
| `MessageQueue` | `message_queue.cpp`, step by step | instantiates `FifoQueue` |
| `MessageQueue_proofs` | its theorems | `MessageQueue` |
| `AtomicChat` | what the chat server promises its clients | |
| `ChatServer` | `server.cpp`, `room.cpp`, with the queues as above | |
| `ChatProperties` | what has to hold of it, and the refinement mapping | `ChatServer`, instantiates `AtomicChat` |
| `ChatServer_proofs` | its invariants, and that it implements `AtomicChat` | `ChatProperties` |
| `Rio` | `rio_writen`, `rio_read`, `rio_readlineb` of `csapp.c`, over sockets | |
| `Rio_proofs` | its theorem | `Rio` |
| `Session` | `sender.cpp`, `receiver.cpp`, `client_util.cpp`, `connection.cpp`, `message.h`, and the messages of `server.cpp` | `Rio` |
| `Session_proofs` | theorems about the messages between the programs | `Session`, `Rio_proofs` |
| `ParSort` | `parsort.c` | |
| `ParSort_proofs` | theorems about the processes and the sorting | `ParSort` |
| `ReplacementList` | what a cache with LRU or FIFO replacement promises | |
| `CacheSim` | `csim.cpp` | instantiates `ReplacementList` |
| `CacheSim_proofs` | theorems about timestamps, index and write-backs, and the refinement | `CacheSim` |
| `FixedPoint` | the arithmetic of `fixedpoint.c`, with the exact result beside it | |
| `FixedPointText` | its hexadecimal input and output | extends `FixedPoint` |
| `FixedPoint_proofs` | theorems about the arithmetic and the texts | `FixedPointText` |
| `Images` | `image.h`, colours as words and bytes, `image.c` as far as it allocates | |
| `Drawing` | `c_drawing_funcs.c` | `Images` |
| `AsmDrawing` | `asm_drawing_funcs.S` | `Drawing` |
| `PngFiles` | `read_image`, `write_image`, and what they use of `pnglite.c` | `Images` |
| `Painting` | what the comments of the drawing functions promise | `Images` |
| `PngStandard` | which files hold which picture, by the PNG standard | `PngFiles`, `Painting` |
| `Renderer` | `c_driver.c` | `AsmDrawing`, `PngStandard` |
| `Renderer_proofs` | theorems about drawing, reading and writing | `Renderer` |
| `MC...` | instances for model checking | the module of that name |

Definitions named "mutated form" in a comment are not part of a model: each is a
plausible bug, listed in `PROJECT.json` with the definition it stands in for and
the property that has to notice.

### MessageQueue

A thread's `pc` is the next statement of `enqueue` (`e_lock`, `e_push`,
`e_unlock`, `e_post`) or `dequeue` (`d_wait`, `d_block`, `d_lock`, `d_front`,
`d_pop`, `d_unlock`, `d_ret`) it will execute. Everything between two
synchronisation calls is one action, except that `front()` and `pop_front()` are
two: only so can it be asked whether somebody else comes between them.
`sem_timedwait` is `SemTake` when there is a token, else `SemBlock`, then either
`SemTake` or `SemTimeout`; a deadline may pass although a token has just been
posted. `msg` is the pointer a thread carries. The caller's `delete` is
`DeleteMessage`, so that objects can be counted.

In the refinement of `FifoQueue` an enqueue takes effect at `PushBack` and a
dequeue at `PopFront`. A dequeue returns empty-handed only if, at the moment it
began to block, the messages inside were no more than the enqueues that had not
returned and the other dequeues under way: that is exactly what the semaphore
being posted outside of the mutex costs, and all that it costs.

### ChatServer

One worker per connection. A worker's `pc` is where it is:

| `pc` | code |
|---|---|
| `accept`, `unserved` | `handle_client_requests`: `Accept`, `pthread_create` |
| `login` | `worker`, up to the reply to the login |
| `find_lock`, `find`, `create` | `find_or_create_room` |
| `receive`, `joined` | the loop of `chat_w_sender`, and its answer to a join |
| `cast_lock`, `cast`, `cast_post` | `broadcast_message`: the guard, the loop, `sem_post` in `enqueue` |
| `join`, `add_lock`, `add` | `chat_w_receiver` up to `add_member` |
| `dequeue`, `send` | its loop |
| `remove_lock`, `remove` | `remove_member` |
| `delete`, `done` | the destructors at the end of `worker` |

A `Room` object is its name and the worker that created it, so that the model could
hold two objects of one name; `OneRoomPerName` says that the workers never do.
`told` is a history variable: the room the client was last told it is in.

Abstractions:

* A client may end its connection at any time, so `receive` and `send` may fail
  at any time. A login that cannot be read and one that is refused end the
  worker, by the same step; a reply that cannot be written is noticed only by
  the next `receive`, as in the code.
* The answer to a sender is part of the last step of its request. Nothing another
  worker does depends on when it is written, as the lock of the room has been
  released by then.
* `dequeue`, and the push of `enqueue`, are single steps. That `MessageQueue`
  implements `FifoQueue`, where each of the two takes effect at once, justifies
  it; the post of `enqueue` stays a step of its own because the User might be
  deleted before it.
* Usernames and texts are not characters. The branch of `server.cpp` that answers
  "message too long" is dead, as `receive` never returns so long a line, and its
  answer would be that of `RequestRefused`.
* A broadcast walks the set of members in any order: the code's is the order of
  heap addresses.

In the refinement of `AtomicChat` a sendall takes effect when it has locked the
room: from then on its message is pending for every member, at the end of what is
in the queue, until the loop comes to that member. Nobody can join, leave or
broadcast in that room meanwhile, and a receiver that dequeues takes from the
front, so that nobody can tell the difference. A receiver's departure takes effect
at `remove_member`, and a message has been heard when it was written.

### Rio and Session

A connection has two ends, each a client's or a server's, and a stream in each
direction. `unsent` is what `rio_writen` has left to write, `wire` what the socket
holds, `buf` is `rio_buf`, and `got` what the call of `rio_readlineb` under way has
collected. `Write` is one system call of `write`, which takes all or less of what fits
the socket; `Refill` is the `read` in `rio_read`; `Take` is the loop of
`rio_readlineb` up to a newline, the limit or the end of the buffer. `ReturnsLine` and
`ReturnsNone` are its returns. `sent` and `read` are history variables. A write to an
end that has closed is lost; the characters stay behind what that end has left unread,
so that the sum of the parts remains what was sent.

`Session` puts the programs on top. `cpc` is where a client is: `start`, `login`,
`prompt`, `asking`, `quitting` in a sender, `join`, `joining`, `listening` in a receiver,
and `close`, `crash` (an exception that nobody catches, or SIGPIPE), `ended`, `killed`.
`wpc` is where its worker is: `login`, `receive`, `join`, `joined`, `deliver`, `leave`,
`close`, `ended`. A message is a tag, a colon and its data; `Valid`, `Fields` and `Trim`
are what `receive`, `split_c` and `trim` make of it. A tag or a word of an answer counts
as one character. Locks, the map of rooms and the inside of a queue are left to
`ChatServer`: here a broadcast is one step, and what is modelled is every message, in
full, between the programs. `cast` remembers the texts broadcast to each receiver.

`MaxLen` is MAX_LEN. `Connection::receive` passes it to `rio_readlineb`, which keeps a
place for the terminating zero; so a line has at most `MaxLen - 1` characters, and a
longer one is returned in two parts. The answer to a join repeats the name of the room
with two characters more than the join had (`server.cpp:106`), so a join can fit whose
answer does not: the client then takes the rest of it for the answer to its next
request, and so on. `RepliesInStep` names as its condition that no line is too long.

### ParSort

Process 1 is `main`; process p forks 2p for the first half of its segment and
2p+1 for the second. `begin` and `end` are the parameters of `merge_sort`, `arr`
the shared mapping. Every call that may fail may fail, so the `mmap` of an empty file does;
a file of one to seven bytes can be mapped, has no elements, and ends with success. Any
process may be killed by a signal at any time, and if it was sorting or merging it leaves its segment
with any mixture of the values that were there. An exit code other than 0, a
signal and a failing `waitpid` are told apart only where the code does.
A parent that gives up does not wait for, or stop, its children: they go on. `qsort` is
any sorted rearrangement of the segment.

Sorting a segment and merging two are one step each. Between its first and its
last access to the mapping a process is at `sort` or `merge`, and `SegmentsApart`
says that no other process touches the same elements in that time; so the order
in which the accesses of two processes interleave makes no difference.
`int`, which is narrower than the sizes, is not modelled.

### CacheSim

One action, `Access`, is one line of the trace: `main` splits the address,
`loadStore` looks for the tag and updates the set, `main` counts. A slot has the
code's fields. `valid` is what the code makes of it: set to `!dirty`, it says that
the slot is clean. `HasTag` and `SlotOf` are the lookup, by the index in a fully
associative cache and by a scan in the others; `Oldest` is the scan for the
timestamp n - 1; `Renewed` ages the younger slots and writes the new one.
Cycles are counters times constant weights and are not kept; `writeBacks` is what
`Cache::cycles` adds up. Offsets within a block are dropped by the first shift and
not modelled, nor are operations other than `l` and `s`.

In the refinement of `ReplacementList` the slots of a set in the order of their
timestamps are the list of its blocks. A block is evicted by falling off its end.

### FixedPoint

The machine is a caller with one value in hand, `val`, which it creates or passes to
the next operation. `exact` is a history variable: what the last operation should
have given, as an integer that counts halves of the last place, so that a half that
does not fit has a value too. Words have `Size` values, 2^64 in the code; sums wrap
around as unsigned arithmetic does.

`fixedpoint_add` is nested branches on whole parts and fractions. Here `Greater`
compares magnitudes, `Difference` is the smaller from the larger with the borrow,
`SumOf` the sum with the carry, and `Wraps` the two tests for overflow.
`fixedpoint_compare` is written with the same `Greater`. Of an error value only the tag
is kept. Only valid values are passed on, as the assertions and `fixedpoint.h` ask;
`fixedpoint_halve` has no assertion and is not called without need.

`FixedPointText` reads a text as a sign, digits before the point and digits behind it:
a word has `Digits` digits to the base `Base`, and one more character than that, or one
that is no digit, makes an error value. Texts with more digits than one too many are
not read: after 20 characters the code writes beyond its buffers. Writing drops the
zeros before the whole part and behind the fraction.

### Images, drawing and the renderer

An image has a width, a height and its pixels, a function from indices to colours; a
colour is one word of four bytes, of `Full + 1` values each (256 in the code). A drawing
function is an operator that returns the image after it, or `Undefined` when it wrote
outside of the pixels; whether it does is decided by the index the code computes, a
wrapping `uint32_t`, and not by the point. `AsmDrawing` has the same functions as the
assembly computes them: `Movl` clears the upper half of a register, `Int32` and `Int64`
are how the conditional jumps read one. (In C `Int32` is the conversion of a `uint32_t`, as
`img->width - x` in `draw_tile`.) The assembly's `draw_tile` and `draw_sprite` are marked
TODO in the source and return at once.

A file of `PngFiles` is its header and its chunks. `png_get_data` walks them, hands the
data of the IDAT chunks to zlib and undoes the filters line by line, with the state kept
from one chunk to the next; `read_image` turns the bytes into words. zlib is external: a
compressed stream is the bytes it stands for, with a mark at its end. What `malloc`
leaves in the buffer is a choice of `junk`. `PngStandard` says from the other side what an
encoder may write: any filter for any line, the stream cut into chunks anywhere, chunks of
other types between them (`Holds`). But for the headers that `png_read_ihdr` accepts, and
that a chunk has some data, it is not taken from the code, and it decodes nothing.

An action of `Renderer` is one command of the script. `ok` says whether its numbers can be
scanned; the build, C or assembly, is chosen at first. `Load` may fail whatever the file is:
it may be impossible to open, and pnglite, or zlib, may be refused the memory to inflate it.
The two allocations of `read_image` itself (`image.c:61` and 66) are not looked at, and nor
are two of those made for writing (`pnglite.c:819` and 490): without that memory the
program writes through a null pointer (`NoMemory`, after which nothing is defined).
`WritesPixels` says when `read_image` gets as far as to write there; that `malloc(0)` gives a
pointer is assumed. `Kept` are the files that a full disk may leave, as nobody looks at what
`fwrite` and `fclose` return: `write_image` reports success for them, and
IMG_ERR_COULD_NOT_WRITE is never returned. A chunk that is there in part is no chunk to the
reader, with one exception: it does not read the checksum of `IEND` (`pnglite.c:587`), so that
a file which lost only that is read as if it were whole.

`picture` and `held` are history variables: what the commands should have painted, by the
comments, and the pictures in the files loaded. They do not depend on the build: a tile or a
sprite is painted in `picture` whether the program does it or not. `odd` collects what the
code does not do as its comments say (`Oddities`):

* `size`: a canvas with more pixels than an `unsigned` counts;
* `tile`: in C, a tile left of or above the canvas, which `draw_tile` puts into the row above
  or before the first pixel;
* `circle`: in the assembly, a circle whose centre is left of or above the canvas;
* `todo`: in the assembly, every tile and every sprite;
* `source`: a part of an image whose file held no picture, of which nobody has said what it
  shows;

and `memory`, an allocation that failed unseen. `PictureIsPainted` is about everything else:
in C about all the commands, in assembly about rectangles and circles.

## 4. The runs

| run | instance | shows |
|---|---|---|
| `message_queue` | 2 producers, 2 consumers, 3 messages | the queue is exclusive and counted, is never popped when empty, and implements `FifoQueue`, which loses and duplicates nothing; every call returns and every message comes out |
| `chat_server` | 2 senders (3 and 2 requests), 2 receivers, 1 room | sections exclude, no dangling User, tokens match queues, implements `AtomicChat` |
| `chat_live` | 2 senders (2 requests each), 1 receiver, 2 rooms | one Room per name; sendall is answered, failed workers end, messages are written |
| `chat_leave` | 1 sender (4 requests), 1 receiver, 2 rooms | **violated**: see findings |
| `parsort` | files of up to 4 numbers, thresholds 0 to 3, 7 processes | success means sorted and alone; no element is touched by two; halves stay sorted; every process ends |
| `cache` | 10 geometries (5 refused) with all 8 policies, 5 blocks, traces of 5 lines | timestamps and index implement LRU and FIFO lists; write-backs come from stores |
| `cache_dirty` | write-back FIFO caches | **violated**: see findings |
| `fixedpoint` | words of 3 binary digits, all numbers, all texts with at most 4 digits on each side | results are exact or rightly tagged; comparison is the order of the values; what is written is read back |
| `session` | 1 sender with four scripts, 1 receiver, their workers; one client may be killed | the streams keep their lines; answers belong to their requests; a receiver prints what was said; requests return, and what was said is printed |
| `session_limit` | the same | **violated**: see findings |
| `render` | scripts of up to 5 commands, canvas of 3 by 2, 1 slot, C and assembly | but for the oddities of section 3, the canvas shows what was painted; files are read as the pictures they hold; what was written is read back, or refused if more is missing than its last checksum |
| `render_circle` | scripts of up to 3 commands | **violated**: see findings |

### Bounds, and why they are enough

* `message_queue`: two threads on each side are what it takes for producers to
  race with producers and consumers with consumers; three messages let one wait
  in the deque while others are being put and taken.
* Chat: one sender can be in the middle of a broadcast while another waits for the
  room and a third worker joins or leaves. `MaxReq` bounds the requests of a
  sender: three are a join and two sendalls, so that the order of a sender's own
  messages can go wrong, and four are enough to join, leave and speak. Receivers are
  not bounded, and their loops are complete. The receiver `r1` has the username of
  `s1`, so the test against echoing is exercised. `chat_live` has two room names, so
  that two workers may look up one or both at once; two requests are a join and a
  sendall.
* `session`: a line has at most ten characters (`MaxLen` 11), and the scripts are chosen
  around that: a sendall fits and its delivery does not, a join fits and its answer
  does not, a text leaves a rest with a colon in it, which is a valid message with a
  bad tag, or one without. `BufSize` 8 is less than a line, so that lines come in
  several reads, and read-ahead holds the start of the next. A write takes all that is
  left, or 4 characters (`Pieces`), or what fits the socket (`Capacity` 30).
  `MaxKilled` is 1: while the client of one side is gone, the other side is watched.
* `parsort`: a tree of seven processes is three levels deep, so a process can be
  parent and child at once; files of four numbers with threshold 1 fill it. Above
  `MaxPid` a fork fails, as it does when the system has no more processes.
* `cache`: with two slots a set is full after two misses; the third shows which
  block was evicted, and the two lines left whether it was the right one. Sets of
  four slots show timestamps in the middle. The traces are all those of the given
  length. `MaxOps` bounds it.
* `fixedpoint`: a word of eight values has all the cases of the arithmetic: carry,
  borrow, wrapping, the carry that brings a sum back to the maximum, and halves. That
  the width does not matter is proved (section 6). The conversion of texts is checked
  at this width only; as no step of it but the number of digits depends on the width,
  three digits show padding and trimming at both ends and in the middle.
* `render`: a byte of 8 values (`Full` 7) shows wrapping and rounding as one of 256 does.
  A canvas of 3 by 2 has a row to spill into on either side, corners, and tiles that are
  clipped at each of its edges. Five commands (`MaxCommands`) are a canvas, a file and
  three that draw; the
  commands are named in `MCRenderer`. The files hold one picture of 2 by 2, whose last
  pixel is predicted in the four ways the Paeth filter has, in both kinds, with every
  pair of filters, and cut after every byte; and ten that are broken, or empty.

Deadlock is checked except in the runs of `ParSort`, `Session` and `Renderer`, whose
programs end. For the first two that they end only where they should is what `AllEnd` and
`RequestsReturn` say. `ChatServer` and `CacheSim` have a named step for the states in which
they rest: every client is served and the main thread waits in `accept`; the simulator has
ended.

### Fairness

* `MessageQueue`: weak fairness of each thread's steps, that is, of a thread
  that the operating system can run. The queue's owner calls `dequeue` in an
  endless loop. Nothing makes anybody call `enqueue`. Weak fairness does not say
  that a thread waiting for a mutex gets it when others keep taking it; here
  every other thread comes to rest, as messages, and in `ChatServer` requests,
  are finite. With unbounded traffic the answer would rest on the fairness of
  pthread mutexes, which POSIX does not promise.
* `ChatServer`: weak fairness of the steps a worker takes by itself. None for
  `receive` and `send`: no client needs to ask for anything, or to read what is
  written to it. `SendAllAnswered` and `FailedWorkerEnds` hold without a reading
  client; `QueuedIsWritten` assumes one, in its own text (`ClientsRead`).
* `Session`: weak fairness of `Runs`, all that the programs and the network do, taken
  together: something goes on as long as anything can. Nobody has to type, and no
  client has to be killed.
* `ParSort`: weak fairness of every process, that is, of the scheduler. None for
  signals.

## 5. Findings

* `chat_leave`: after "left room" the worker of the sender keeps its pointer to
  the room (`server.cpp:109`), so its next sendall is broadcast in the room its
  client was told it left. `message.h:51` says of the tag "leave a chat room".
* `cache_dirty`: under FIFO a store that hits a clean block in write-back mode
  leaves the slot clean (`csim.cpp:63`), although `csim.hpp:39` says of the
  parameter `dirty` that it "decides if slot should be marked dirty". Under LRU
  a load that hits a dirty block makes it clean (`csim.cpp:72`), which no document
  speaks about. Both make the number of cycles too small.
* `session_limit`: a message of exactly MAX_LEN characters is returned without its
  newline, as `Connection::receive` (`connection.cpp:72`) passes the size of its buffer to
  `rio_readlineb`, which keeps a place for the zero; the newline is left as the next line,
  which is no message and ends the session. `message.h:8` says "An encoded message may
  have at most this many characters, including the trailing newline".
* `render_circle`: the assembly's `draw_circle` (`asm_drawing_funcs.S:527`) moves its
  coordinates with `movl`, which clears the upper half of a register, into the parameters
  of `square_dist`, which are 64 bits wide. A negative one becomes a number near 2^32, and
  a circle whose centre is left of or above the canvas loses the part of it that is inside.
  The comment (line 463) says "The circle has x,y as its center and has r as its radius."

Met on the way, without a run of their own:

* `fixedpoint_create_from_hex` reads "-0" as a negative number, which `fixedpoint_compare`
  (`fixedpoint.c:206`) puts below 0 and `fixedpoint_is_neg` calls negative, although
  `fixedpoint.h:144` promises "0 if left == right" and `fixedpoint.h:178` a 1 only for "a
  valid value less than 0". `ComparesByValue` takes the negative zero as it is.
* The branch of `server.cpp:100` that answers "message too long" is dead, as `receive` never
  returns so long a line.
* The assembly's `draw_tile` and `draw_sprite` return at once (`asm_drawing_funcs.S:571` and
  591, "TODO: implement"), although the comments above them (lines 556 and 575) say that they
  copy and blend the pixels of a region: a script with `T` or `P` is rendered by `asm_draw`
  without its tiles and sprites, and without an error.
* `draw_tile` and its negative coordinates, allocations that nobody looks at, the answer to a
  join, and a full disk: see section 3 and `PROJECT.json`.

## 6. What is proved

The theorems hold for every value of the constants that meets the named
assumptions: the sets of threads of `MessageQueue` are finite and disjoint and the
null values are no objects; in `ChatServer` the senders are finitely many, no
client is both sender and receiver, and the null values are neither clients nor
rooms nor messages. The numbers of messages, receivers, rooms and requests are
arbitrary. In `FixedPoint` the size of a word is positive and even, of which 2^64 is
a case; that it is even is what halving needs. In `FixedPointText` it is the power of any
base to any positive number of digits, and the texts that are read are arbitrary sequences
of digits and other characters; what the theorems say of texts of more than 20 characters
says nothing of the code, which is undefined there. In `Session` the names on the command
lines are texts, a sender's without a newline; what users type are requests without a
newline inside; the characters of tags, words and the colon are not white space, a newline
is, and the tags are lower case. In `Renderer` a byte has any positive number of values above
zero, and at least the five of a filter type; the script is any commands whose numbers fit
the types they are scanned into. Two restrictions are the code's own limits: a sum of two
coordinates, and the counter of a loop one behind the last point of a circle, fit an
`int32_t` where the C code computes them in one, as it is undefined otherwise, and the loop
of the assembly does not end; and a file's picture is not larger than an `unsigned` can count the bytes of,
because `png_get_data` allocates too little for it. An image of such a size that `S` asks
for is not excluded (`TooLarge`): it is one of the `Oddities`.

What a recursive function computes (`Merged`, `LogTwo`, `Number`), and what holds of so many
lines or processes, needs an induction. It is done with the least counterexample: the set of the
numbers for which the claim fails, if it is not empty, has a least element (`Smallest`,
from the library's `WFMin`), and the step before it contradicts that. In the same way a
recursive function is shown to exist before it is used.

**MessageQueue** (`MessageQueue_proofs`): `TypeOK`, `DequeAccessLocked`,
`SemaphoreCounts`, `NoPopOfEmpty` and the refinement of `FifoQueue`. The inductive
invariant is `TypeOK`, `DequeAccessLocked`, `SemaphoreCounts` and `HandsFull`,
which says at which points of its function a thread carries a message.
`DequeAccessLocked` makes the deque's user unique, and only with it is a token
taken worth a message: two consumers at `d_front` could otherwise share one.
`NoPopOfEmpty` follows: a consumer at `d_front` is one of those counted, so the
deque is not empty. The refinement's only hard step is a miss, where a count of
zero has to be turned into a bound on the length of the deque.

**ChatServer** (`ChatServer_proofs`): `TypeOK`, `CriticalSections`,
`NoDanglingUser`, `OneRoomPerName` and `TokensMatchQueue`. None of them but
`CriticalSections` is inductive. The invariant adds

* `Roles`: senders are at points of `chat_w_sender`, receivers at points of `chat_w_receiver`;
* `AtHand`: who looks up a room has its name, who is past the lookup has a room;
* `MapFiled`: a room in the map is filed under its own name, and between the
  lookup and the insertion of a new room the map has none of that name;
* `MembersInside`: a user is in the member set of its own room exactly while its
  worker is between `add_member` and `remove_member`;
* `Casting`: the user whose semaphore is still to be posted is a member of the
  caster's room;
* `HandFull`, `EmptyOutside`: when a receiver's worker holds a message, and that
  its queue is empty while it is in no room.

`NoDanglingUser` then is `MembersInside` and `Casting`: a member's worker has not
come to `delete`, and as the caster holds the lock of the room it cannot leave the
room before the post. Here the lock held during the whole broadcast matters.

**AtomicChat** (`ChatServer_proofs`): `ImplementsAtomicChat`. One lemma per
group of steps says which step of `AtomicChat` it is, or that nothing changes. The
key is `OneInFlight`: by `CriticalSections` at most one sender is broadcasting in
a member's room, so what is in flight to a receiver is one message, whose push
moves it from the end of the pending messages to the end of the queue, in place.

**FixedPoint** (`FixedPoint_proofs`): `TypeOK`, `ResultOrReason` and `ComparesByValue`,
for every even size of a word. The invariant is `TypeOK` and `ResultOrReason`; what
makes the proof is that the code's tests are about words and the claim about integers.
A magnitude is `whole * Size + frac`, and four lemmas carry the code over: `PlusWraps`
(a wrapped sum is recognised by being less than an operand), `SumMagnitude`,
`DifferenceMagnitude` and `GreaterMagnitude`. One lemma per operation then says that its
result is the exact one or has the right tag.

Of the texts, `ReadingCreates` says that what is read is a number whose parts are words, or
the error value (`NumberIsSmall`: so many digits are worth less than the power of the base),
so that the three invariants hold of a caller that reads texts too. `WrittenIsRead` is
`TextRoundTrip`: the number without its last digits (`Prefix`) goes on by one digit at every
place as reading does (`DivDigit`, `PaddedDigits`); it is 0 up to the first digit written
(`UnpaddedDigits`), and behind the last one only grows by powers of the base, with which
`Fraction` makes up for the digits left out (`FractionDigits`).

**Rio** (`Rio_proofs`): `LinesInOrder`, for any connections, characters and sizes. `InOrder`
is inductive: every step moves characters from the front of one part of a stream to the
end of the part before it. `WholeLines` needs in addition that what was read and what is
being read together are the beginning of what was sent, so that a line that `Fits` has its
newline within reach of the limit.

**Session** (`Session_proofs`): `TypeOK`, `LinesInOrder`, `RepliesInStep` and
`PrintedAsSaid`, for any clients, names, scripts and characters, any sizes of the buffers
and any cuts the network makes, with clients that are killed and writes that are lost.
That the streams go on as in `Rio` is a step refinement: every step of a program does to
them what a step of `Rio` does, or nothing (`RioStep`). From there on an answer is found by
counting characters: what an end has said is what its peer has read, followed by all that
is between them.

* A sender (`RepliesInStep`). `Owes` says that of what one end has said, and is about to
  say, the other has read all but `t` in one direction and `u` in the other. `Exchange`
  says which two texts these are: nothing while the user thinks; one whole request that
  its worker has not read; or one whole answer, to the request in `ask`, that the client
  has not. As long as the lines fit, an end that reads therefore reads exactly the text
  under way (`ClientReads`, `WorkerReads`), and it is one that both sides understand
  (`Requesting`, `Answering`); so neither end ever leaves the loop but by `quit`, and the
  next request cannot meet an old answer. `ClosedInv` tells that nobody is cut off inside
  of an exchange, and `ScriptInv` that what users still may type is one line each.
* A receiver (`PrintedAsSaid`). `Flow` follows the message on its way: `Cuts` divides what
  the worker has said into lines, one to a cut; `Stage` and `Delivered` say that after the
  two answers there is a line for each message broadcast to it that has left the queue,
  and that what is in the queue stands for the rest, in order (`Stands`: split at its
  colons it gives back the speaker and the text, `TextStands`); `Printing` says that the
  client has read up to one of the cuts and printed what these lines deliver. `Role` keeps
  a receiver's worker out of the loop for senders, and `RoleInv` the colons out of the
  names of users and rooms: with a colon in one of them a delivery would have more than
  three fields.

**ParSort** (`ParSort_proofs`): `TypeOK`, `SegmentsApart`, `SuccessMeansSorted`,
`HalvesSorted` and `SuccessMeansAlone`, for any files, thresholds and number of processes.
The invariant says who may write an element (`Holds`): a process holds its segment from its
fork; it hands the first half to its first child and the second to its second; when it has
seen a child succeed it gets that half back; when it fails or is killed it holds nothing any
more, while its children, which nobody waits for then, keep what they have. `HeldOnce` says
that no element is held by two processes, and whoever sorts or merges holds its whole
segment. `Families` ties a process to its children 2p and 2p+1: their segments, and which of
them has been forked or seen to succeed.

On top of that, `Contents` says what is in the elements a process holds: its part of the
file as it was, before it has sorted; the part rearranged in ascending order, after
(`Done`). A step of another process writes only what that one holds, so by `HeldOnce` it
stays (`KeptByOthers`). `MergeSorts` is what the parent's step needs: `Merged` takes its
elements one by one from the front of one half or the other (`MergedInterleaves`), what it
takes is not above what is left (`MergedAscends`), and every value is taken as often as the
halves have it (`MergedCount`).

`SuccessBelow` says that both children of a process that succeeded were never forked or
succeeded too; as a child has a greater number than its parent, the least process that
breaks `SuccessMeansAlone` would contradict it.

**CacheSim** (`CacheSim_proofs`): `TypeOK`, `TimestampsOrder`, `IndexAgrees`,
`WriteBacksFromStores` and the refinement of `ReplacementList`, for any command lines and
any trace. The invariant `Ordered` says that the timestamps of the slots in use are
different, below their number, and all there. A hit of slot k rotates those up to k's
(`HitOrdered`); a miss of a set that is not full shifts all of them by one (`NewOrdered`); a
miss of a full set is a rotation at the slot with timestamp n - 1, which `Ordered` says is
there (`SlotChosen`). `Indexed` is `IndexAgrees` for one set: with `Ordered` it tells that
the slot rewritten is in use and the one whose entry is dropped (`ReindexAgrees`).

For the refinement, the tags of the slots in use in the order of their timestamps are the
list of the abstract set (`TagList`); as `Ordered` makes the timestamps a numbering, a hit is
`ToFront` of the list and a miss `Brought` (`HitMoves`, `MissBrings`). A tag with the number
of its set gives back the block (`ShiftDivides`: the shift by `LogTwo` is the division by the
number of sets, whenever `LogTwo` accepts that number), so that a block is in the list
exactly when its tag is found. For `WriteBacksFromStores` the write-backs counted are added to
the dirty slots: an access makes at most one slot dirty, and only if it is a store; a
write-back is counted for a slot that was dirty and is not afterwards (`EvictedWasDirty`,
`DirtyStep`).

**Renderer** (`Renderer_proofs`): `PictureIsPainted`, `SlotsHoldPictures` and
`WrittenReadsBack`, for every script, every number of slots, both builds and images of every
size. `PictureIsPainted` is not inductive: what a sprite paints depends on the image in the
slot, and what a slot holds on the file it was read from. The invariant is
`Typed` (an image has as many pixels as its width and height ask for, each a colour),
`SlotsHoldPictures`, `Plain` (unless something odd was asked for or memory was missing, nothing was written outside
of an image, the canvas has no more pixels than an index can count, and it shows `picture`)
and `WroteCanvas` (who ended with success has written the canvas, or what a full disk left
of it). It was checked in the run `render` first.

* *Numbers.* `ComponentsPack` and `ComponentsTell`: the four bytes of a colour are the colour,
  and `SwapIs`: `byteswap` reverses them. `BlendIs` and `ShlOrIs`: both builds blend
  alike, as shifting and or-ing bytes is adding them where they do not overlap.
* *Loops.* The loops of the drawing functions are recursive functions in the model. `Loop`
  shows that there is such a function, and `UpTo` goes through it pixel by pixel; the claim
  that is carried along is that the pixels passed show the new picture and those to come the
  old one. `Paints` is what a whole function gives, `DrawRectIs`, `DrawCircleIs`,
  `DrawTileIs`, `DrawSpriteIs`, and for rectangles and circles their counterparts in assembly. `InBoundsIs` and `IndexIs`
  are where the widths matter: a point inside has an index below the number of pixels, so that
  the wrapping `uint32_t` does not wrap, and no two points have the same.
  `InCircleIs` needs a centre that is not negative, the finding of section 5, and
  `CopyTileIs` a tile that is not left of or above the canvas: nothing else of what
  `Oddities` excludes is about where something is drawn. `RoomInside` is where the room left
  of the point for a tile, a `uint32_t` less a coordinate, becomes an `int32_t`. Of tiles
  and sprites in assembly there is only to show that they leave the canvas as it is:
  `CanvasIsPainted` says nothing of the picture after one.
* *Reading.* `AllCarried`: whatever the cuts, when the chunks are walked the decoder has had
  the beginning of the stream up to the cut, and its state between two bytes is what
  `HasRead` says: the lines above decoded, the bytes of this line as they came. `UnfilteredIs`
  with `ExpectedIs` undoes each of the five filters from the same three neighbours that the
  standard subtracts; `PaethIs` says that the comparisons of `png_paeth` choose
  the standard's nearest, ties included. `FilesAreRead` puts the pixels together; it says that
  no file that holds a picture is refused, which `SlotsHoldPictures`, being about files that
  were read, leaves open.
* *Writing.* `StreamWritten`: the bytes that `write_image` hands over are the stream of the
  canvas by the standard, with filter 0 on every line, in one chunk (`WrittenHolds`). What
  is left of a file by a full disk either has both its chunks, with or without the checksum
  of `IEND`, or has no `IEND` chunk and is refused (`KeptReads`). `WrittenReadsBack` then is
  the composition: `WrittenHolds` gives a file that holds a picture, and `FilesAreRead`, the
  same theorem as for loading, reads it.

`FilesHoldPaintings` combines the two halves of the program and says more than any run's
property: when a script without oddities has ended with success and all that was written is in its file, the
file holds by the standard the picture that the script has painted, so that any decoder shows
it and not only the one of `pnglite.c`.

Only model-checked: liveness (`CallsReturn`, `EnqueuedIsHandedOut`, `SendAllAnswered`,
`FailedWorkerEnds`, `QueuedIsWritten`, `AllEnd`, `RequestsReturn`, `SaidIsPrinted`), which is
beyond the prover, and the properties of the findings, which do not hold.

## 7. What is not modelled

* `csapp.c` beyond what the chat programs use: the wrappers call one system function each.
* Of `pnglite.c` the callbacks for reading and writing, `png_print_info`, 16-bit images,
  which `read_image` refuses, and zlib, which is external.
* The digits and the wording of what is parsed and printed, except for the conversions of
  `FixedPointText`; the opening of the listening socket; the command lines of the chat programs.
* The width of `int` in `parsort.c`, which matters from 2^31 elements on.
* `is_sorted.c`, `gen_rand_data.c`, the unit tests and `tctest`: sequential programs without
  state to speak of, and tests.

Of the hazards listed in `PROJECT.json`, those without a property have a note that says why.
