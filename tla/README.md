# Verification of the Cold server

Cold ("coldsrc") is a programmable multi-user server: C-- objects live in a
disk database, are brought into memory through a cache, and run their methods
in an interpreter that serves network connections from one thread.  This
directory models parts of it in TLA+, checks them with TLC on small instances,
and proves with TLAPS, for all instances, the safety of the block store, the
object cache, the name cache, the lists of tasks, the graph of parents and
children, the connections, the table of identifiers, the allocators, and of the
dictionaries, buffers and strings that are shared and changed in place.

All paths below are in `src/coldsrc/`.

## 1. Inventory

One process, one thread.  `main.c` starts it, then `main_loop` goes round
forever: flush dead connections, `select`, run the heartbeat method, run the
paused tasks.  Any of these may start a task, and a task may call back into
every other part.  There are no locks; what interleaves is *logical*: tasks that
suspend and come back, objects that are swapped out between two references,
callbacks that change a list while a caller is in the middle of it, and the
disk, which outlives the process at whatever point it dies.

| Component | State | Operations | Hard because |
|---|---|---|---|
| Block store: `db.c`, `lookup.c` (objects) | `binary/objects`, its bitmap, `bitmap_blocks`, `last_free`; the dbm index; `binary/clean` and `db_clean` | `init_db` `db_put` `db_get` `db_del` `db_flush` `db_close` | allocator boundaries; rewrites in place; crash between index, mark and data |
| Object cache: `cache.c` | `active[]`, `inactive[]` chains of holders with `refs`, `dirty`, `dead` | `cache_retrieve` `cache_grab` `cache_discard` `cache_get_holder` `cache_sync` | recycling a holder still pointed to; destroying an object swaps others |
| Object life cycle: `object.c` `adminop.c` `dump.c` `main.c` | `db_top`, parents and children, method cache, search stamps, variable and method tables | `object_new` `object_destroy` `object_change_parents` `text_dump_read` | redefinition, changes to kin in the middle of a discard, early returns |
| Name index: `lookup.c` (names) | `name_cache[]`, entries in the dbm index | `lookup_retrieve_name` `lookup_store_name` `lookup_remove_name` `sync_name_cache` | write-back of evicted slots, `on_disk` as a cached fact |
| Tasks: `execute.c` `main.c` | lists `tasks`, `paused`, `vmstore`; `stack_store`; the globals of the running task | `task` `task_resume` `task_suspend` `task_pause` `task_cancel` `run_paused_tasks` | nested `execute()`; list surgery; fairness among paused tasks |
| Frames and errors: `execute.c` | frames, stack, specifiers, handlers | `send_message` `pass_message` `interp_error` | unwinding; pointers into a stack that moves |
| Connections: `io.c` `net.c` | connections, servers, pendings, their flags | `handle_io_events` `flush_defunct` `tell` `boot` | flags set in one turn, acted on in a later one; callbacks in between |
| Dumps: `dump.c` `log.c` | dump files, the backup directory | `binary_dump` `text_dump` | iteration of the index while it changes; unlink then rename |
| Data: `list.c` `dict.c` `buffer.c` `string.c` `data.c` | reference-counted values | insert, delete, sublist, ... | copy on write of windows on shared arrays, in place when nobody could tell |
| Identifiers: `ident.c` | hash chains, blanks, reference counts | `ident_get` `ident_dup` `ident_discard` | entries reused through the link field of the chains |
| Memory: `memory.c` | trays, piles | `tmalloc` `tfree` `pmalloc` `pfree` | pieces cut from a block up to its last word |
| Packing: `dbpack.c` `netpack.c` | none | `pack_object` `unpack_object` `size_object` | size and contents must agree |
| Compiler: `grammar.y` `token.c` `codegen.c` | program being built, the object's tables of strings and identifiers | `generate_method` `method_delete_code_refs` | jumps and specifiers against the interpreter |
| Decompiler: `decode.c` | none | `decompile` `line_number` | text dumps keep methods only as it lists them |
| Operators, matching, utilities, cryptography | -- | -- | mostly wrappers and libraries |

How they call each other: the interpreter asks the object cache for objects
(`cache_retrieve`, kept per frame, given back in `frame_return`); the cache
reads and writes the block store; the block store and the operators for names
use the index of `lookup.c`; `db_flush` syncs the index before it writes
`binary/clean`; `main_loop` and `io.c` start tasks, and tasks change
connections.  `cache_discard` may call `object_destroy`, which calls
`cache_retrieve`: the cache is re-entered in the middle of a discard.

What makes each part correct:

- *Block store*: objects never share blocks; the bitmap covers the index and is
  accessed in bounds; a read returns the last write; a database called clean
  is what was saved.
- *Object cache*: an object is in memory once; what somebody points to is not
  recycled; no change is lost and no old image comes back; memory is bounded.
- *Names*: the cache answers as the map it caches; removals reach the disk.
- *Tasks*: each task is in one place; the lists stay lists; no stack is shared;
  a paused task runs again.
- *Hierarchy*: parents and children are inverse, no object descends from itself,
  a destroyed object leaves its heirs where they inherit what it inherited.
- *Methods*: a search finds what the order of the ancestors says, cache or no cache.
- *Frames and errors*, *compiler*: a method does what its source means; stack
  positions that are remembered are popped to in order; no loop goes on for ever.
- *Decompiler*: a listing is the program, and its lines are those of tracebacks.
- *Connections*: each descriptor has one owner until it is closed; each connect
  and each end is told once and in order; what is written comes out.
- *Data*: an operation changes the value it returns and no other.
- *Identifiers*, *memory*: what was entered is found, what was given out is
  not given out again before it comes back.

`PROJECT.json` lists the hazards at their lines with the properties that watch
them.

## 2. Modules

| Module | What it is |
|---|---|
| `DiskStore` | abstract: a map from dbrefs to images plus the clean mark, with crashes |
| `Db` | `db.c` with the index of `lookup.c`; implements `DiskStore` |
| `DbProofs` | inductive invariant of `Db`, safety theorems, proof that `Db` implements `DiskStore` |
| `ObjectCache` | `cache.c` on a `DiskStore`, with the operations that move objects through it |
| `NameCache` | the name half of `lookup.c` |
| `TablesProofs` | proof that cache and index are the map of names; proofs about `Memory` |
| `Tasks` | the task half of `execute.c` and `main_loop` |
| `Hierarchy` | the graph of parents and children: `object.c`, its callers in `adminop.c` and `dump.c` |
| `Methods` | `Hierarchy` with methods, their search and the method cache |
| `Codegen` | syntax trees, their compilation, the object's tables: `codegen.c`, `object.c` |
| `Interp` | frames, stack, specifiers, handlers and opcodes of one task: `execute.c`, `syntaxop.c`, `arithop.c`, `errorop.c`, `methodop.c`; runs what `Codegen` makes |
| `Language` | abstract: what a program means, said of its tree |
| `Decode` | code to tree, tree to lines, position to line: `decode.c` |
| `Parser` | `grammar.y` on tokens |
| `Samples` | the programs of `program` and `program_break` |
| `Connections` | `io.c` and `net.c` with the tasks they start |
| `Lists` `Strings` `Buffers` `Dicts` | the data with its operators, each against immutable values |
| `Chains` | the entries that a walk along links in an array comes to |
| `Idents` `Memory` | `ident.c`, `memory.c` |
| `ConnectionsProofs` `ObjectCacheProofs` `TasksProofs` `HierarchyProofs` | proofs of the safety properties of the module of that name |
| `ValuesProofs` | proofs about `Idents`, `Dicts`, `Buffers` and `Strings` |
| `ListsProofs` | proofs about `Lists` |
| `MCDb` `MCObjectCache` `MCHierarchy` `MCProgram` `MCConnections` `MCValues` | values of constants for TLC; some also compose modules |

`Db` is proved and checked to implement `DiskStore`, and `ObjectCache` is
written on the state and steps of `DiskStore` (its `DiskPut`, `DiskDel`,
`Synced`, `Crash`, `CrashInPut` and `CrashInDel` are those of the abstract
store), so it need know nothing of blocks.  `Methods` extends `Hierarchy`: each of
its actions is one of `Hierarchy` together with what it does to methods and their
cache.  `MCProgram` is the life of a method: `Codegen` compiles it, `Decode` lists
it, `Parser` reads the listing, `Interp` runs the code, and `Language` says what
should come of it.

Some MC modules put parts that share no state side by side, and each behaviour works
on one of them: `MCDb` has the two halves of the database, `Db` and `NameCache`;
`MCHierarchy` the graph alone, with more lists of parents, and the graph with
`Methods`; `MCProgram` one task that runs a sample, and the lists of `Tasks`;
`MCValues` six data structures.

In each component module, a definition named `Bug_X` is a plausible mistake in
the code that `X` stands for (a forgotten guard, an off-by-one, a write too
few).  Nothing uses it; `PROJECT.json` pairs it with the property that must fail
when it takes the place of `X`.

### Db

`up` is the process.  `index` is the dbm file, `file` what each block of
`binary/objects` holds (`Image(d, v, k)`, the k-th block of the packed `v`),
`fileSize` its length, `cleanFile` the existence of `binary/clean`, `db_clean`
what the process believes of that.  `bitmap` is the set of marked blocks;
`bitmap_blocks` its size.  Actions are the functions of the same names.
`DbPut` is `db_is_dirty` followed by one of two cases: the image fits in the
blocks it has (`DbPutInPlace`) or is freed and allocated again
(`DbPutAllocated`).  `AllocatedAt` says which run `db_alloc` finds: the first at
or after `last_free` that begins in the bitmap, else the first from block 0.
`Grown` is what repeated `grow_bitmap` makes of the size.  Bytes are kept where
the arithmetic matters (offsets, sizes, `NEEDED`, `ROUND_UP`), and the contents
of an image are not.

A crash may come between operations, inside `db_put` after `db_is_dirty`
(whatever it had written is truncated at the next start, so the model keeps the
state before) and inside `db_del` after the index entry is gone but before the
mark is (the model keeps a clean database without that object: `CrashInDel`
of `DiskStore` admits it, because the code does it; section 5).

### ObjectCache

`active` and `inactive` are the chains; a holder has `dbref`, `val` (one value
for all the contents of an object), `dirty`, `dead`, `refs`.  The functions of
`cache.c` are operators on a record `[active, inactive, store, clean]`, because
operations call several in a row and `object_destroy` re-enters them:
`GetHolder`, `Retrieve`, `Release`, `Discard`, `Synced`.  `held` counts the
references that frames, the text dump reader and `main` have taken and will
give back; `leaked` has the objects to which `op_chparents` keeps one.
`objects`, `saved` and `torn` are history.  `objects[d]` is what was last stored in
`d`; it is `<<v>>` if `v` was stored without a mark while `d` was not dirty, so that
nothing obliges the cache to write it.  `saved` is what `binary/clean` vouches for:
`objects` when it was written, and nothing while it is not there; no crash changes it.
`torn` has the object that a crash inside `db_del` took out of files that stay marked.
Creating, moving or destroying an object changes kin
(`object_update_parents`): the model lets it change at most one other object, to
another value, because the cache only sees "retrieve, change, discard".

Actions: `Initialize` (`init_cache`, `init_db`, root and system object),
`LoadObject` and `LoadDone` (`text_dump_read`), `Fetch` and `Drop`
(references of frames), `Modify` (the functions of `object.c` that mark what they
change), `AssignVar` (a variable that exists: no mark), `OpCreate`, `OpDestroy`,
`OpChparents` (the parents it had and gets are told and marked, the moved object is
not), `OpChparentsNone`, `BinaryDump`, `Shutdown`, `Crash`, `CrashInPut`,
`CrashInDel`.  What a move does to the graph is in `Hierarchy`.

### NameCache

`name_cache` is the array of slots, `diskNames` the entries of the index.  `Evicted`
is the write-back of a slot that another name takes.  History: `names` is the map that
the calls describe, `saved` what it was when the mark was written, `touched` the names
set or removed since; `blind` has the names that were on disk but not cached when they
were stored, for which `lookup_store_name` makes an entry that says "not on disk"
(until it is written back), and `missed` those of them that were removed, so
that the removal did not reach the index.  `NameInit`, `LookupOpen`, `NameFlush`
and `NameCrash` are the life of the index; names are looked up, set and removed in any
order.

### Tasks

`heap` holds the `VMState`s with their `next` links and the heads of the three
lists, so that list surgery is modelled as it is done; `Removed` is
`task_delete` with its walk as written, from the second node.  `callers` is the
C stack below `execute()`: `task`, nested `task_resume`s, `run_paused_tasks`
with what is left of its list.  `frames[t]` has the ticks left in each frame of
task `t`.  `execute` is one operation per action.

`op_resume` and `op_cancel` ask only whether the task is there.  The lists cannot give
up the second of their elements, and `resume()` takes a paused task for a suspended
one.  `TaskResume` and `TaskCancel` do what the code does with any task; if it was not
one the lists can give up (`Aimed`), they set the history variable `astray`.  What the
server does with a `VMState` on two lists is not followed (`NotFollowed`), and the
properties speak of the states before.

### Hierarchy

`parents[d]` is the list, `children[p][c]` how often `c` is in the children list of
`p` (its order makes no difference to any function).  `Added` and `Left` are
`object_update_parents` with `list_add` and `list_delete_element`; `Created` is
`object_new`, `Destroyed` is `object_destroy`, which runs when the last reference
to a dead object goes: at once in `OpDestroy`, or in `Release`.  `held` and `dead`
say which objects frames keep.  `Left` takes a set out of a list with `Kept`;
`Added` changes the children of every named object at once, as the sequence of calls
does.  `HasAncestor` is a membership in `Searched`, the least set that
`object_has_ancestor` walks; `MCHierarchy` has TLC evaluate (`SearchesAgree`,
`KeepsAgree`) that it is what `PostOrder`, the order `object_ancestors_aux` builds,
contains, and that `Kept` is `SelectSeq`.  `LoadObject` is the `object` line of a text dump with the `parent` lines before
it, which may name the object itself; such objects are in the history `own`.  Here a
redefined object is not held, and so destroyed at once: the other case is in section 5.

`OpChparents` marks what `object_change_parents` does: old and new parents and all that
the searches for cycles come to (`Visited`), not the moved object.  If that was clean,
`former` keeps the list its image on disk has, until something marks the object;
`Reread` is its recycling, or a restart: it has that list again, and goes into the
history `reverted`.  Parents that were told of a move, and
objects that are their own parents, make `list_delete_element` assert when kin is
destroyed or moved once more; `Destroyable` and `KinKnow` end the model where the
server ends.

### Methods

`methods[d][n]` says whether `d` has a method `n` and whether it may be
overridden.  `Find` and `FindNext` are `object_find_method` and
`object_find_next_method` with the cache they leave and the objects they stamp, and
so mark dirty (`Marks`); `SearchObject` is
`search_object`, with `last_method_found` and `done` in a record.  A search that would
not end, or comes to a parent that is gone, is not begun (`Searchable`).  `cur_stamp++`
empties the cache.  `Inherited` is no code: it says what should be found, from the
order of `object_ancestors`, which takes no part in the search.

### Programs: Codegen, Interp, Language, Decode, Parser, Samples

A tree is what the constructors of `codegen.c` build; `Compile...` operators emit
words as `compile_stmt` and `compile_expr` do, with jump destinations resolved
and names entered in the object's tables as in the final pass.  `Interp` has one
action, `Executes`, with one disjunct for each opcode: it takes a tick, runs the opcode's
handler with everything that calls (`send_message`, `frame_start`,
`frame_return`, `interp_error`, `user_error`, ...) and so changes `vm`: frames
with their specifiers and handler infos, `stack`, `args` (`arg_starts`).  `code` has
the compiled methods and the tables; `prog` is the sample that runs.  The texts of
errors and tracebacks are left out, their codes and passage are not.  The
assertion in `pop()` is an outcome of its own.

`Language` is written without code, stack or specifiers: `Eval`, `Exec` and
`Apply` give a value, an error or a way to leave, and the variables after it.
`Decode` goes the way of the decompiler, from opcodes back to a tree
(`Decompile...`) and from there to lines of tokens (`Unparse...`), with
`CountLines` for tracebacks beside it.  `Parser` reads tokens by climbing
precedence levels, which is what the `%left` and `%right` of `grammar.y` and
its preference for shifting come to.

### Connections

`connections`, `servers`, `pendings` are the lists, numbered as they grow, so
that "walk the list from its head" is "from the highest number down", and
`main.below` is the walker's pointer.  Each callback (`connect`, `parse`,
`disconnect`, `failed`, heartbeat) is a `task` that main_loop waits for and that
may `OpEcho`, `OpDisconnect`, `OpBind`, `OpUnbind`, `OpConnect`, `OpConnAssign`,
`OpShutdown` or pause.  `going` is the connection between the two halves of
`connection_discard`: unlinked, its task running, not yet closed.  `open` are the
descriptors the system has given.  A buffer is the sequence of what was told and not
written; the number of the operation stands for its text.  `told`, `due` (what should
be in each buffer), `answers`, `refused` and `struck` are history: `refused` has the
connects that failed at once, whose descriptor `net.c:253` has closed already, and
`struck` says that it was closed again (`io.c:128`) when another had it, or taken
for a connection's.  `Select` and `SelectTimeout` need descriptors that are open;
`Panic` is `select` failing on another.  A shutdown takes
effect when `main_loop` has finished the turn.

### Lists, Strings, Buffers, Dicts

An address has a record with the fields of the C struct and its count of
references; `slots` (`texts`, `holders`, `boxes`) are the variables and the top of
the stack.  A step is an operator of the language with everything it does to
references: duplicate, `anticipate_assignment` (which clears the variable to be
assigned so that the value on the stack is the only one), `prepare_to_modify`, and
the change in place.  `meant` (`meanings`, `octets`, `maps`) is what immutable
values would be; no code reads it.  In `Lists` every `Rearranged` element is moved
by the expressions of `MEMMOVE`, from `len`, `pos` and `start`.  `Strings` keeps
the NUL and the compiled regular expression.  `Dicts` keeps `hashtab` and
`links` with their bounds; `data_hash` is a constant function, so that keys may hash
alike, and chains and growth are put as in `Idents` (next section).

### Idents, Memory

`Idents` has the table with `hashtab` and `blanks`, both threaded through `next`.
What a loop along `next` visits is the least set that has its first entry and the
successors of its members (`Reached` of `Chains`), and the table that the loop of the
growth step leaves, which puts one old entry after the other at the head of its chain,
is given outright: an entry is followed by the latest before it with its slot
(`Threaded`), and the latest of a slot is its head (`Heads`).
`Memory` has what `malloc` gave (`regions`), trays as lists of free elements cut
as `tmalloc` cuts them, and piles with their blocks; a piece is a region, an offset
and a length in words.

## 3. Runs

| Run | Instance | Shows |
|---|---|---|
| `db` | objects: 3, images of 1 and 2 blocks, file of 4 blocks, blocks of 2 bytes, bitmap growing 2 blocks at a time; names: 3 over 2 slots, 2 dbrefs | types, disjoint extents, marks, bounds of the bitmap, leaks, refinement of `DiskStore`; answers, `on_disk`, write-backs, crash under a clean mark |
| `cache` | 4 objects, one chain of depth 2, 2 values; text dump of one object with evals that create, move, destroy and dump; `chparents(obj, [])` of another | one holder per object, nothing recycled or lost, meaning of `binary/clean`, cache bounded, `db_top` free |
| `hierarchy` | 4 objects; graph: 6 lists of parents, with repetition; methods: 1 name, 3 lists, cache of 1 slot; one object that frames may hold and that may be clean when it is moved | inverse lists, no cycles, nobody cut off; searches agree with the order of ancestors through every change |
| `program` | 1860 methods, 60 ticks, 2 calls deep; tasks: 4, 2 ticks per frame, 6 `VMState`s, heartbeat on | code means what the source does; listings read back; lines of tracebacks; tables; order of the stack; termination; lists, places of tasks, stacks; paused tasks run again |
| `connections` | 4 connections with stdin and stdout, 1 server, 1 connect that may fail at once, 3 operations of tasks | descriptors, reports, output in order; dead connections go away |
| `values` | 1 variable and the stack, 3 lists of up to 3 elements, 4 strings, 3 buffers, 3 dictionaries of 3 keys, 4 names of which two hash alike, 3 tray elements and a pile | data are never seen to change, references, dictionaries, identifiers, allocators |
| `cache_assign` `names_removed` `tasks_cancel` `connect_refused` `program_break` `values_sublist` | the instances above, or a part of them | disagreements, section 5 |

Why the bounds suffice for what they are there to show:

- `db`: an image of one block can grow to two, three objects leave holes, the
  file of four blocks is larger than the first bitmap, so that allocation
  starts at `last_free` on the last block or past it, reaches the end of the
  bitmap, grows it and wraps; the in-place and the moving rewrite both happen
  with a neighbour on either side.  Of the names two share a slot, one is alone.  The
  theorems then drop the bounds.
- `cache`: four objects over two holders, of which the root and system
  objects hold two once the server runs: every miss allocates or recycles, every
  object is swapped out, and a destroyed object's kin is itself a miss.  The dump may
  name its object more than once, also after an eval has made it or destroyed it.
  The system object is only made and held (`Changeable` has the others), one object
  is changed with no mark while it is clean (`Unmarked`), and another loses its parents
  (`Orphans`).
- `hierarchy`: four objects make a diamond, an object below one that is named twice,
  and a chain whose middle is destroyed at once or late; the text dump may redefine
  any of them, the root included, as its own parent too.  With the lists of the methods
  part searches take the path for one parent, the one for several, and both in turn.
  One slot is the hardest cache: every entry displaces another, and one that is
  stale is hit by the next search for the same object.  `Clean` and `Holdable` are the
  last object, which can come above and below the others.
- `program`: 21 operators and other forms around each of seven operands, on every side
  (a sum, a negation, `||`, `?:`, a message, a list, an assignment), every binary
  operator on operands of several types, every expression form with operands that fail, and
  every statement form around every other one around every kind of leaf (assignment,
  break, continue, return, error, throw, comment), bodies without statements
  besides.  A method is a behaviour of its own; the first step of each judges its
  listing.  60 ticks let every sample but the endless ones end; those show `TicksFall`.
  Four tasks are needed for a list of three beside the one running, and
  so for the inner walk of `task_delete`.  With two ticks a frame does one
  operation per turn; longer turns, nested calls and resumed tasks that resume
  again are bounded by `MAX_CALL_DEPTH = 0` (one call: the test is off by one)
  and `MaxVM`.
- `connections`: two network connections beside stdin and stdout are what one walk
  can disturb of another; one may be the server's client and one the pending connect's
  while both lists are walked.  With three operations a task can boot and
  unbind and the next one bind again before the flush.
- `values`: arrays of 2 grow by 1, so that every growth happens; in hash tables of 2
  the three keys collide, and when the table has grown two of them still do; a tray of 3 words and pieces of
  2 leave a rest; a pile block of 2 words overflows into another and into an oversized
  one.

Deadlock is checked except in `hierarchy` (nothing may be left to do once the dbrefs
run out, or the server has stopped at an assertion) and in `connections` and
`connect_refused` (a stopped server is the end).

Where the code goes wrong, the models do so too, and a history variable or a predicate
says exactly which states or programs the property then excepts: `missed` and `blind`
(names), `objects` with `<<v>>` and `torn` (cache), `reverted` and `own` (hierarchy),
`astray` (tasks), `refused` and `struck` (connections), `Misread` and `Unlisted`
(listings).  `ReadsBack` demands of the methods it excepts that they are misread, and
`LinesAgree` states by how much the line is off.

A few things are restricted by a constant or a guard that says so:

- `Scripts = {"evals"}` (`cache`): no eval of the text dump pauses.
- `AllInPlace`, `Mishandled`, `WrongBuffers = FALSE` (`values`): no insertion or
  deletion in a list nobody shares whose window starts inside its array; no growth in
  place of a string whose window does not begin its array (`string.c:329-357`), no
  resizing of one that keeps a compiled expression, no padding on the right in place;
  no `buffer_replace` whose value is not its position, no negative `buffer_truncate` in
  place.
- `AllSamples` leaves out the methods of `BreakInCatch`, which `program_break` runs, and
  `CriticalArgs`, a critical expression that fails with an argument list of its own under
  way inside another.
- `Searchable` (`hierarchy`): no method is looked for where the search would not end or
  would come to a parent that is gone.

Without a restriction the properties fail: section 5.

Fairness.  The process is one thread in an endless loop, and nothing else runs while
a step of it is enabled, so that weak fairness is what the code gives; no task is
assumed ever to start.

- `Tasks`: a frame runs out of ticks and returns (`FrameReturn`), `execute()`
  returns to its caller (`Ending`), `main_loop` goes on (`MainStep`,
  `RunPausedTasks`).  `select` is only sure to return if there is a heartbeat, so
  `MainStep` from `io` is fair only with `Heartbeat`.  With `Heartbeat = FALSE`
  `PausedTasksRun` does not hold: a paused task waits for the next I/O.  `MCProgram`
  states the same fairness for the part that has tasks (`OfTasks`).
- `Connections`: `WF(MainStep)` and `WF(TaskEnds)`, with a heartbeat: a
  connection that a disconnect task boots behind the walker waits for one more
  turn.  That a task ends is not assumed lightly: `TicksFall` of the `program` run
  is the measure that makes every method end, a frame's ticks lexicographically
  from the outermost in, and `FrameReturn` that of `Tasks`.

## 4. Proofs

### The block store

`DbProofs` assumes `DbAssumption` alone: sizes are positive,
the growth step of the bitmap is a whole number of bytes.  Numbers of objects,
images, blocks, and all sizes are arbitrary.

The safety properties are not inductive: disjointness is kept by `db_alloc` only
because every block of an object is marked, and bounds are kept only because
`last_free` is.  `IInv` joins them:

- `IndexSound`: every entry is on a block boundary, inside the file, and apart
  from every other;
- `MarksSound`: every block of an entry is marked, every mark and `last_free` lie
  below `bitmap_blocks`, a whole number of bytes;
- while the process is down, its memory is forgotten.

`InitIInv` and `NextIInv` (one lemma per action) give `Spec => []IInv`, and from it

| Theorem | |
|---|---|
| `TypeCorrect` | `Spec => []TypeOK` |
| `ObjectsNeverOverlap` | `Spec => []ExtentsDisjoint` |
| `AllocatedBlocksAreMarked` | `Spec => []LiveBlocksMarked` |
| `BitmapAccessesInBounds` | `Spec => []BitmapInBounds` |
| `OnlyShrinkingLeaks` | `Spec => LeakOnlyByShrinking` |
| `ImplementsDiskStore` | `Spec => DiskStoreSpec` |

The last rests on `RInv`: `IInv`, and every entry of a database that will be
believed is readable (its blocks hold the image of its size), and `db_clean` is
the truth about `binary/clean`.  `UnpackedHolds` shows that such an entry is read
back as the value written; `HoldsFrame`, that an object whose blocks are left
alone still is.  Then each action is the action of `DiskStore` with its name.

The arithmetic (`DivOfMultiple`, `ModOfSum`, `NeededMonotone`, ...) is in lemmas of
its own, so that steps about blocks need no division.

### The name cache

`TablesProofs` assumes the assumptions of `NameCache`: names are numbers, -1 and
the absence of an object are none of them, there is at least one slot.  A pair of
cache and index is `Consistent` if an entry is in the slot of its name, binds it to
an object, and agrees with the index unless it is dirty; its `View` is the map of
names it stands for.  A lemma for each function of `lookup.c` says what it makes of
the view: `Retrieved` and `Synced` nothing, `Stored` and `Removed` the change of one
name; and that the index, but for removals, is only ever brought up to the view
(`WritesBack`).  `PlacedKeeps`, about an entry that takes a slot from another, is
what the first three rest on.

`IInv` (types and `Consistent`) is inductive whatever C-- code does.  `Removed`
changes the view as it should only if the entry's `on_disk` flag is right, and storing a
name past its entry on disk makes one that is wrong.  `MInv` carries the rest through
such calls: a flag is right in every entry but those of `blind` names, and wrong in
those; of every name that is not `missed`, `names` is the view; and every name that was
neither touched nor missed is in the index as it was saved, which is what makes a
write-back of it harmless.

| Theorem | |
|---|---|
| `NamesTypeCorrect` | `NameSpec => []NameTypeOK` |
| `CleanSlotsAgreeWithDisk` | `NameSpec => []CleanSlotsOnDisk` |
| `NamesAnsweredRight` | `NameSpec => []AnswersRight` |
| `OnDiskFlagsTrue` | `NameSpec => []OnDiskFlagRight` |
| `UntouchedNamesStay` | `NameSpec => []OnlyTouchedNamesMove` |

### The object cache

`ObjectCacheProofs` assumes `CacheAssumption`: the constants are numbers and sets of
the right kinds, of dbrefs there are finitely many, however many.  Width and depth of
the chains are arbitrary positive numbers, and any number of references may be held.

`Inv` is one conjunct for what each part of the state means to the others:

- `Typed`, of which `WellFormed` says that a chain has only objects that hash to it, each
  once, that none is both active and inactive, and that no active holder is empty;
- `Counted`: who may hold references in which phase;
- `Tracked`: for each object, its holder if it has one, else its image in the store, has
  the value last stored in it, or some value if that was stored with no mark (`Agrees`); a
  holder that is not dirty agrees with the store, but for such a value;
  the count of an active one is that of the references there are, and not 0 (`Fits`);
- `AtRest` and `Vouched`: what the store has while nothing runs, and what of it
  `binary/clean` vouches for;
- `Kernel`: the root and system objects, which `main` gives back last, are there and
  not doomed;
- `Bounded` and `TopIsFree`.

`OneHolder` alone is not inductive, because a retrieve takes a holder for an object
from any chain position and a discard may run `object_destroy`, which retrieves and
discards others in the middle: the lemmas about `GetHolder`, `Retrieve`, `Release`,
`Discard` and `Synced` each say of an arbitrary tracked cache (`Tracks`, a predicate
of a cache, counts, values and doomed objects, and not of the variables) what it
becomes, so that the destruction is a sequence of their instances.

| Theorem | |
|---|---|
| `ObjectsAreInMemoryOnce` | without `"paused_eval"` in `Scripts`: `Spec => []OneHolder` |
| `ReferencesKeepObjectsActive` | the same: `Spec => []HeldIsActive` |
| `ChainsStayBounded` | the same: `Spec => []HoldersBounded` |
| `NewDbrefsAreFree` | the same: `Spec => []TopIsFree` |
| `ObjectsAreKept` | the same: `Spec => []ObjectsIntact` |
| `TheMarkIsTrue` | the same: `Spec => []CleanMeansSaved` |

With `"paused_eval"` the first is false (`dump.c:148`, section 5).  The last two except
what is stored with no mark in an object that is not dirty, which is there with the
change or without, and the object of `torn`; `cache_assign` shows such a change lost.

### Tasks

`TasksProofs` assumes `TasksAssumption`: any number of tasks, `VMState`s and ticks.
The three lists and what `run_paused_tasks` has left of its list are chains of `next`
links in a heap; `Chain(vm, head, s)` says that the links from `head` are the sequence
`s` and end, and the surgery of `task_delete`, `store_vm` and their like is proved to
make the chain one expects.  `Walk`, the loop of `task_delete`, is a recursive
function: `WalkIs` evaluates it along a chain, by a least counterexample.

`IInv` says that there are sets `U`, of the `VMState`s that stand for a task or a
caller, and `W`, of those that are paused, such that

- `Placed`: every `VMState` that was allocated is in one list, once, or is local to one
  caller;
- `Tasked`: each task with frames runs, or one `VMState` of `U` stands for it;
- `Stacked`: stacks in use, spare ones and those of `U` are distinct, but that
  `run_paused_tasks` shares its own with the globals until its first task (`LentOf`);
- `Called` and `Bottom`: what can be called from what;

or that `resume()` or `cancel()` was asked for a task the lists cannot give up
(`astray`).  The lemma for `TaskResume` takes the case of a task on `tasks` and the one
for `TaskCancel` that of either list; with any other they go astray.

| Theorem | |
|---|---|
| `ListsAreSound` | `Spec => []ListsSound` |
| `TasksAreAccountedFor` | `Spec => []TasksAccountedFor` |
| `StacksAreExclusive` | `Spec => []StacksExclusive` |

What the three say ends where a task goes astray; `tasks_cancel` shows it happen
(`execute.c:313`).

### The inheritance graph

`HierarchyProofs` assumes `HierarchyAssumption`: any number of objects, any lists of
parents (with repetitions), any objects held or clean.  `IInv` is `Alive` (what is dead
or held exists; the root and system objects are not dead, `db_top` is above what exists;
nothing is held or moved while the dump is read), `Below` (no list names a number from
`db_top` on, so that a new object is in nobody's) and, of the graph,

- `Kin`: `children[p][c]` is how often `p` is in the list of `c`, unless `c` is
  `reverted`, and what does not exist has no kin;
- `Rooted`: any nonempty set of objects has a member that has none of the set for
  parents, nor would if it were read back (`Up`), but for itself if it was loaded so.

`Rooted` is `Acyclic` put so that it needs neither paths nor induction, and so that it
survives `Reread`: it speaks of the lists that objects have and of those they may get back.
A new object
is in nobody's list, so that a set without such a member is one without the new object.
For a set after `chparents`, take its members that do not have the moved object as an
ancestor: if there are some, the one of them without parents among them before has none
in the set now (`AncestorsOfParents`: a parent in the set would hand down its ancestor);
if there are none, the moved object's new parents, which do not descend from it, are not
in the set.  That this is so although moves may be lost rests on the searches for cycles:
they mark what they pass through, so that the lists they relied on stay.
For a set after a destruction, in which heirs have grandparents for the dead
parent, take the set with the dead object in it, before.

| Theorem | |
|---|---|
| `HierarchyIsTyped` | `Spec => []TypeOK` |
| `ParentsAndChildrenAgree` | `Spec => []KinAgree` |
| `AncestryHasNoCycle` | `Spec => []Acyclic` |
| `DescendantsKeepParents` | `Spec => NobodyCutOff` |

### Connections

`ConnectionsProofs` assumes `ConnectionsAssumption`: any number of connections,
servers and connects, of which any may fail at once.  The flags are set in one turn of `main_loop` and acted upon in a
later one, and lists are walked while tasks change them, so that most of `Inv` relates
an element to the place of the walk: a client that was accepted is still to be visited
(`ClientsAhead`), a connect that was reported is finished, behind the walk, and freed by
the next flush (`AnsweredBehind`), a connection that was read from is there when it is
written to (`AtWrite`), every connection was reported as such (`Told`) and there is a
number for each that may still come up (`NumbersLeft`).  `UnansweredAhead` adds that a
connect that is finished and unreported lies before the walk, or failed at once.  The
owners of
descriptors are proved distinct on top of these, with a pigeonhole argument for the
descriptor `FreeFd` takes (`FreeFdIsFree`).  A connect that failed at once owns none, and
the proof goes as far as its number is nobody else's when it is closed again (`struck`).

| Theorem | |
|---|---|
| `OutputIsKept` | `Spec => []OutputKept` |
| `ReportsAreInOrder` | `Spec => ReportsInOrder` |
| `ConnectsAreReportedOnce` | `Spec => []ConnectsReportedOnce` |
| `DescriptorsAreOwnedOnce` | `Spec => []DescriptorsOwnedOnce` |

`OutputKept` states the order of what waits to be written, as buffers are sequences.  The
last two except connects that failed at once: such a one is reported at most once, and
`connect_refused` shows what follows once it has struck.

### The allocators

`TablesProofs` assumes `MemoryAssumption` of `Memory`: sizes are positive, and the words of an
oversized block's node come from a tray (`OversizedWords <= NumTrays <= TrayElem`, which
the constants of `memory.c` satisfy: else `tmalloc` would cut a tray from too little).
`MemoryApart` says that pieces in use do not overlap.  It needs (`Inv`) that the pieces in
the trays do not overlap them or each other either, and are listed once in the tray of
their size (`Listed`, `Laid`); that what a pile gave lies below the `pos` of its block
(`Piled`); and that the nodes of oversized blocks are pieces of trays in use, which
`pfree` gives back (`Noded`).

| Theorem | |
|---|---|
| `PiecesAreApart` | `MemorySpec => []MemoryApart` |

### Shared values: identifiers, dictionaries, buffers, strings

`ValuesProofs` assumes the assumptions of these four modules: names and keys are given
any number whatever by `hash` and `data_hash`, variables are finitely many, and the sizes
that tables, buffers and strings start with and grow by are any positive numbers.  Of the
sizes a string can have the first four are modelled, which is assumed to be enough for
`MaxText`; the three doublings of `InitialSize` are shown to be enough for the pairs that
`dict_new` is given (`InitialSizeIs`).  No condition on what is taken
and discarded is needed beyond what the actions say, that only somebody who holds a
value discards or duplicates it.

*Chains.*  `Line(next, M, h)` says that the entries of `M` are one chain from `h` on: no
two are followed by the same, none by `h`, and no smaller set is closed under `next`.  A
loop from `h` then comes to `M` and nothing else (`LineReached`), and lines are kept by
what the code does to them: a new head (`LinePush`), an entry unlinked from anywhere
(`LineUnlink`), entries put at the head one after another (`LineThreaded`), neighbours
(`LineInRow`), and all entries renumbered (`Renumbers`).

*Identifiers.*  `IdInv` is

- `Tabled`: for each slot of `hashtab` the names with that hash are a line from it, the
  blanks are a line from `blanks`, and no name has two entries;
- `Tells`: a name nobody holds has no entry, another has one with as many references
  as are held;
- `Owned`: what a holder was given is the number of that entry.

`IdentsAgree` is not inductive without the lines: a search that finds a name may pass
through entries of other names, and it is these links that a discard rewrites.  That
`init_ident`, a recursion over the permanent names, ends in such a table is shown by a
least counterexample.

*Counted values.*  Dictionaries, buffers and strings are all addresses in a heap that
places (variables, the stack, the opcodes of a method) refer to, and one invariant
serves the three: `Shares(h, b, m, R, S, G)` says that every place of `b` has an address
or none, that the `refs` of each record count its places, and that a record and what
the history says of each of its places are a pair of `G`.  `G` may be any set of pairs that
does not depend on `refs`.  A lemma for each thing the code does to references says that
the invariant is kept: `PutDown`, `PickUp`, `StoreNew`, `Alter` (a change in place by
the only holder), `Part` (a copy for one holder among several), `Borrow` and `GiveBack`
(an operand on the stack while an operator runs).  What remains of each kind of value
is that its operators take good pairs to good pairs:

- `Good` of a dictionary: for each slot of `hashtab` the entries with that hash are a
  line along `links`, no key has two, and keys and values are the mapping.  `dict_del`
  closes the gap in the arrays and renumbers every chain through it; growth
  rebuilds all chains in the larger table.
- `GoodBuffer`: the octets, and their number.
- `GoodText` of a string: the window lies in the array and has the text, a NUL follows
  it, and the compiled expression is that of the text or none.  Inside an operator
  there is less: `Prep(e, o, st, len)` says that `e` has `len` characters, of which those
  that `o` has from `st` on are in place, and has lost its expression.
  `prepare_text` makes such a string, moved, resized or in place (`TextPrepared`), and
  `PrepCopied`, `PrepCut`, `PrepInCase` and `PrepEnded` say what the writes after it
  make of it.

| Theorem | |
|---|---|
| `IdentifiersAreFound` | `IdentSpec => []IdentsAgree` |
| `DictionariesAgree` | `DictSpec => []DictsAgree` |
| `BuffersAreKept` | under `WrongBuffers = FALSE`: `BufferSpec => []BuffersKept` |
| `StringsAreKept` | under `Mishandled = FALSE`: `StringSpec => []StringsKept` |

The last two are the parts of `ValuesKept` about buffers and strings.  With
`WrongBuffers` or `Mishandled` they are false (section 5).

### Lists

Lists are counted in other lists as well as in variables, and an operator changes a
list, dups and discards elements, and reads the old window while it builds the new one.
`ListsProofs` assumes `ListsAssumption`: finitely many variables, and `MaxLen` no larger
than the largest of the sizes that are modelled, so that `SizeFor` has a value.  The
theorem also assumes `AllInPlace = FALSE`: with windows that start inside the array
`list_insert` moves too few elements (`values_sublist`).

The invariant is `Heaped(heap, e)`, where `e[r]` is what is held of list `r` from outside
the heap: each record that is not free is sound (its window lies in the array, the data
in it are atoms or lists that are not free), its `refs` are `e[r]` plus the occurrences
of `-r` in the windows of all lists, and lists in lists hold atoms only, which makes one
step of `list_discard` into its elements enough.  Between operators `e` counts the
variables and the stack (`ListInv`).

- `data_dup` and `data_discard` move data between `e` and the heap: dup'ing `D` adds the
  occurrences in `D` to `e` (`DupHeap`), discarding takes them away, and a list that
  reaches 0 is freed with what it held.
- `PutHeap`: when the window of a list changes, what its elements held before is what `e`
  gains, what they hold now is what `e` loses.
- `prepare_to_modify` gives a list that only the operator holds (`Ours`), a new one or
  the same; `Changed` says what its window then is and that all other lists are
  as before.  Insertions, deletions, replacements, appending, sets, unions,
  reversal and sorting are steps from one `Changed` to the next; loops (`list_union`,
  `list_toset`) are shown by a least index at which it fails.
- `anticipate_assignment` takes the variable's reference first, and each operator gives
  back to `slots` what it took (`Return`).

| Theorem | |
|---|---|
| `ReferencesAreCounted` | under `AllInPlace = FALSE`: `ListSpec => []ReferencesCounted` |

### Only model-checked

- `PausedTasksRun` and `DrainedGoAway`: liveness under fairness is beyond the prover.
- `FindAgrees` of `Methods`, and everything about programs (`Codegen`, `Interp`,
  `Language`, `Decode`, `Parser`): what recursive operators compute, over trees and
  graphs; induction over data is beyond the prover too.
- The part of `ValuesKept` about lists (`ListsKept`): what is proved is how many hold a
  list, not yet that its window has the values an immutable list would have.

## 5. Findings

Each is a run that TLC must find violated.

- `cache_assign` (`object.c:400`, `object.c:600`): neither `chparents()` nor an assignment
  to a variable that exists marks the object dirty; after a backup and before
  anything else touches the object, a shutdown loses the change, of which a move's
  old and new parents have been told.
- `names_removed` (`lookup.c:201`): a name that is set while it is on disk and not cached
  is taken not to be on disk; its removal leaves the old entry, and the name is found again.
- `tasks_cancel` (`execute.c:313`): `task_delete` cannot unlink the second element of a
  list; a task that is cancelled there is still found, with its `VMState` on two lists.
- `connect_refused` (`net.c:253`, `io.c:128`): a connect that fails at once has its
  descriptor closed twice; if another had it by then, `select` fails and the server panics.
- `program_break` (`syntaxop.c:315`): `break` and `continue` leave the catches
  they jump out of in force; the next error goes to such a handler, whose stack
  position lies above the stack, and the assertion in `pop()` ends the server.
- `values_sublist` (`list.c:230`): an insertion into a sublist made in place moves
  too few elements.

Known disagreements that have no run of their own.  Some are part of the models, whose
properties except just them; others show when a configuration is changed as said:

| Where | What | Where it is stated, or how to see it |
|---|---|---|
| `db.c:286-289` | a crash in `db_del` between the index and the mark leaves a database that is called clean without the object | `torn`, in `ObjectsIntact` and `CleanMeansSaved`; `CrashInDel` |
| `db.c:131` | a new database is called clean before its dump is read; killed before the first write, the next start serves an empty one | `LookupOpen`, `InitDb`, `Initialize`: the mark is there at once; no property |
| `adminop.c:109` | `chparents(obj, [])` keeps a reference, so that the object never dies | `leaked`, counted as a reference in `HeldIsActive` and `HoldersBounded` |
| `dump.c:148` | a text dump redefines an object that a paused eval holds: two active holders | `Cache.cfg`, `Scripts = {"paused_eval"}`, `MaxHeld = 2`: `OneHolder` |
| `object.c:400`, `list.c:283` | a lost move leaves kin that disagree; `list_delete_element` asserts when one of them is destroyed, or the object moved again | `reverted`, in `KinAgree`; `Destroyable` and `KinKnow` |
| `dump.c:114-155` | a text dump may load an object as its own parent; searches through it do not end | `own`, in `Acyclic`; `Searchable` |
| `execute.c:338` | `resume()` accepts a paused task, against the comment above it | `Aimed`, `astray` |
| `io.c:96`, `net.c:141`, `io.c:71` | a connect that failed at once is marked finished, a `select` that times out returns without a report, and the next flush frees it | `refused`, in `ConnectsReportedOnce` |
| `decode.c:1514`, `decode.c:1532` | an assignment as an operator's first operand is listed without parentheses: `(x = 2) * 3` reads back as another program | `AssignsFirst`, in `ReadsBack` |
| `decode.c:1254` | a body without statements is listed as nothing, and the next statement is read for it | `Swallows`, in `ReadsBack` |
| `codegen.c:827`, `decode.c:324-331`, `decode.c:626` | every switch is compiled with a default; `count_lines` counts it, the listing leaves it out if it has no statements: lines of tracebacks are off by one for each such switch before them | `Unlisted`, in `LinesAgree` |
| `execute.c:970` | an error inside a critical expression keeps the argument positions begun in it | `Program.cfg`, `Programs <- CriticalArgs`: `OutcomeAgrees` |
| `string.c:176`, `string.c:341`, `string.c:329-357` | padding in place leaves no NUL; resizing keeps the compiled expression; growth of a window that starts inside its array | `Values.cfg`, `Mishandled = TRUE`: `ValuesKept` |
| `bufferop.c:53` | `buffer_replace` stores the position instead of the value; `buffer_truncate` takes a negative length in place | `Values.cfg`, `WrongBuffers = TRUE`: `ValuesKept` |

Seen while reading, not modelled: `list_factor` reads one element past its list;
`dict_order` has `||` for `&&`; decompiling a dbref constant falls into the next
case (`decode.c:757`); `trealloc`, which nobody calls, copies the larger of two
sizes; `op_bind` and `op_unbind` push a result without popping their arguments.

## 6. Not modelled, and the plan

In order of what matters most to the system:

1. `SearchStamps`: `cur_search`, kept in `binary/clean`, against the stamps stored
   with objects, through swapping, sync, crashes and restarts; the composition of
   the searches of `Methods` with the holders of `ObjectCache`.
2. The hash tables of variables and methods in an object (`object.c`).
3. Tasks and frames in one model: `frame_depth` across tasks, the data a paused
   task keeps, tasks that a connection's callback suspends (`Tasks`, `Interp` and
   `Connections` each have their part).
4. `TextDump`: iteration of the index while the cache writes to it; the files.
   What `dbm_nextkey` gives after a store is the library's, and no text of the
   repository says what is relied on.
5. Pure algorithms against reference definitions: `Packing` (`size_object` equals
   what is packed, which `SizeOf` of `Db` assumes; unpacking inverts), `Match`, the
   scanner (`token.c`), conversions between buffers and strings.
6. Proofs: `ListsKept`, on top of `ListInv`.

Left out for good: regular expressions and cryptography (libraries taken over),
formatting and literals, the log, profiling, `test.c`, `assert.c` and
platform support.  Dbm itself is taken to be a map whose `dbm_store` and
`dbm_delete` reach the disk at once; the loss of buffered writes in a crash of
the machine (as opposed to the process) is not modelled.  Failures of system
calls that the code answers with `fail_to_start` or `panic` end the process, and
are crashes of the models; those it only logs are not modelled.
