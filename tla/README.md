# Verification of pyrsistence

pyrsistence is a Python extension in C that keeps a dict (`EMDict`) and a list
(`EMList`) in memory-mapped files.  This directory holds TLA+ models of it,
TLC configurations that check them on small instances, and proofs checked by
TLAPS that hold for every instance.

    tlc -config MCEMDict_map.cfg MCEMDict      # one run
    tlapm MappedFileProofs.tla                 # one module of proofs; the others are
                                               # ValuesFileProofs, DirectoryProofs,
                                               # EMListProofs, EMListThreadsProofs,
                                               # EMDictTableProofs, EMDictProofs and
                                               # RBTreeProofs

`PROJECT.json` lists the runs, the source lines each definition stands for,
the disagreements found between the code and what it says of itself, and the
hazards the properties are aimed at.

## The system

| component | state | operations | used by |
|---|---|---|---|
| memory-mapped file (`mapped_file.c`) | bytes of the file, mapping, size, position, EOF | create, open, read, write, memset, seek, truncate, rename, unlink, sync, close | EMDict, EMList |
| chunk allocator (`mapped_file.c`) | `size_t` in front of every chunk; a tree of holes in memory | allocate chunk, free chunk, marshal, unmarshal | EMDict, EMList |
| red-black tree (`rbtree.c`) | nodes with colours and parents | insert, find, delete node, free | chunk allocator |
| EMDict (`em_dict.c`) | `index.bin`: mask, used, slots; `keys.bin`; `values.bin` | `d[k]`, `d[k] = v`, `del d[k]`, `in`, `len`, resize, open, close | Python programs |
| EMList (`em_list.c`) | `index.bin`: used, capacity, offsets; `values.bin` | `l[i]`, `l[i] = v`, `del l[i]`, `append`, `len`, resize, open, close | Python programs |
| iterators (`em_dict.c`, `em_list.c`) | a position, and its end | next | Python programs |
| directory (`em_*_open_common()`, `util.c`) | the directory, its files, their magic | create, undo a creation, open, close | EMDict, EMList |
| marshaller (`marshaller.c`) | loaded pickle functions | marshal, unmarshal | chunk allocator |

Components interact by calls only; there are no threads of their own and no
locks.  What makes the behaviour hard:

* **Crashes.**  The files are mapped shared, so every store reaches the next
  process, in the middle of whatever statement was running.  Position, EOF and
  the holes do not.
* **Failures half way.**  Growing a file, pickling a value, creating and
  renaming files can fail after other steps of the same statement were done.
* **Reuse.**  Chunks are reused by exact size without being erased; an offset
  that is kept one step too long silently becomes another object.
* **Hashing.**  Lookup and rehashing have to follow the same probe sequence,
  which ends at the first free slot.
* **Callbacks and threads.**  Hashing, comparing and pickling run Python code
  in the middle of a statement, which may use the same object, and other
  threads run meanwhile.
* **Other processes.**  Nothing but `access()` and `mkdir()` stands between two
  processes that open the same directory, and each takes the size of a file
  some calls before it sets it.

Correctness, component by component: the allocator never gives a byte to two
owners and keeps every object as it was stored (`BlocksDisjoint`,
`HeadersIntact`, `RoomForData`, `ImplementsStore`); the tree finds every hole
and loses none, and its loops end (`LinksAgree`, `RedBlack`, `FindsEveryHole`,
`ImplementsHoleSet`, `LoopsClimb`, `CallsReturn`); the dictionary is a dict
(`ImplementsDict`), whose entries own their chunks (`ChunksOwned`) and whose
lookups end (`LookupTerminates`, `UsedCoversSlots`); the list is a list
(`ImplementsList`, `OthersKeepValues`), likewise, also for threads that share it
(`ImplementsShared`); an iteration returns what stays in the table and ends
(`IterComplete`, `IterRepeats`, `IterEnds`); a directory is opened whole or not
at all and then stays whole, and a creation that fails is undone
(`OpenedWhole`, `SafeStays`, `NothingLeftBehind`, `RetriesSucceed`), but for
one race of two processes that is described below.

## Modules

| module | what it is |
|---|---|
| `ChunkStore` | what a file with its allocator promises: a store of objects by handle |
| `MappedFile` | the file byte by byte and the allocator; implements `ChunkStore` |
| `HoleSet` | what the tree of holes promises: a set of holes, taken out by size |
| `RBTree` | `rbtree.c` node by node; implements `HoleSet` |
| `ValuesFile` | `values.bin` as the next ones see it: chunks and a bag of holes |
| `Dict`, `PyList` | what `EMDict` and `EMList` promise: a dict and a list that survive the process |
| `EMDict`, `EMList` | the two data structures, above `ValuesFile`; implement `Dict` and `PyList` |
| `EMDictIter` | `EMDict` with an iterator |
| `SharedList` | what threads expect of a list they share |
| `EMListThreads` | `setitem` and `append` of an `EMList` by several threads; implements `SharedList` |
| `Directory` | opening and creating the directory, by several processes |
| `*Proofs` | theorems about the module named; `EMDictTableProofs` about the hash table of `EMDict`, `EMDictProofs` about `EMDict` and `EMDictIter` |
| `MC*` | constants for TLC |

**MappedFile.**  `file`, `size`, `pos`, `eof` and `holes` are the members of
`mapped_file_t`; `chunks` is what the owner holds.  Storing an object is
`AppendHeader`, `ZeroChunk`, `FillChunk` (a new chunk at EOF) or `ReuseHole`,
`FillChunk`: one action for each store to the file that can fail, or after
which a crash leaves something else.  `Fails` actions are the error paths.
Bytes are numbers, a `size_t` is its value followed by zero bytes, and a pickle
is a sequence of bytes such that no two pickles are prefixes of each other:
they end at their first `STOP`.  That holds for the `pickle` module and for the
pickler of `examples/em_graph_pickler.py`; what another custom pickler makes is
not covered.
Offsets stay below `MaxSize`, which stands for `SSIZE_MAX` (`map_file()` and
`mapped_file_truncate()` refuse larger files), so no sum of two of them wraps.

**RBTree.**  `tree` maps each `rbnode_t` in memory to its links and colour,
with the two sentinels.  `Insert` and `Take` are `rbtree_insert_node()` and
`rbtree_delete_node()` up to their loops; then every iteration is a step
(`InsertRecolor`, `InsertRotate`, `InsertDone`, `RepairAbove`, `RepairRotate`,
`RepairDone`), and `Splice` the rest of the deletion.  The code writes every
case out for left and right; `Rotate` and the rest have a side for a parameter.
`RotateLinks` is what a rotation does whether or not there is a subtree to move
over, `SwapRotate` and `LiftRotate` the two ways the loops colour what they
rotate.
The links are moved in the order of the code, so that what `nil.parent` is at
each point comes out as there.  `asked` and `result` record the size the last
call asked for and what it took.  Both are in the state of `HoleSet`, where
`Take(z)` may find nothing only if nothing has size z, so that a search which
misses a hole, or takes one of another size, is not allowed by
`ImplementsHoleSet`.

**EMDict.**  `index` is `index.bin`; `fresh` is the file `em_dict_resize()`
prepares, and `named` says which of the two is called `index.bin`.  An
assignment is the steps `Begin` (lookup, free the old value), `MarshalValue`,
`WriteValue`, `WriteEntry`, `Count`, and in a resize `CreateFresh`,
`RenameOld`, `RenameNew`, `Switch`.  They are the points at which a crash
leaves different files.  `Slot[mask][h]` is the probe sequence of a hash, the
same one for `em_dict_lookup()` and `em_dict_resize()`; it is as long as it
takes `perturb` to become 0 and every slot to have its turn.  Entries hold their key instead
of an offset in `keys.bin`: chunks of that file are appended and never freed or
rewritten, and by `ImplementsStore` they keep what was stored.

**EMDictIter** adds one iterator at a time to all of `EMDict`.  Its position is
the only state the code has; what it returned, the keys that were in the table
all the time and the resizes it lived through are recorded for the properties.
`MaxPos` is the end as the code computes it, from the address in the
`mapped_file_t` where the header was meant: no position ever reaches it, and the
iteration ends where reading past the file fails.

**EMList.**  The same as `EMDict` for `em_list.c`: `SetItem` or `AppendItem`, a
resize if the index is full, then `FreeOld`, `MarshalValue`, `WriteValue`,
`WriteEntry`, and for an append `Count`.

**EMListThreads.**  While an object is pickled other Python code runs, and
nowhere else: a statement is a step up to the pickler (`BeginAppend`,
`BeginSet`) and a step from there on (`End`, `Fail`).  `doing` has the locals of
the C function that are read before and used after: the `used` and the mapping
of the index, as a number that grows whenever it is mapped anew.  `broken` says
that something was written through a mapping that is gone.

**ValuesFile** forgets bytes and sizes: any hole may be reused, or none, which
includes what the exact sizes would allow.  It keeps what happens when the
owner breaks the rules `MappedFile` assumes of it: a chunk freed twice is a
hole twice, and a freed chunk is handed out while an entry still points to it.
`ChunksOwned` says that `EMDict` and `EMList` keep these rules.

**Directory.**  One step is one system call, or one access to the mapped file.
Per process, `at` is the call of `em_dict_open_common()` it is at and the file
that is for, `held` the files it has opened, as the creation of the directory
they belong to, and `size` and `st_size` are the size `map_file()` was told and
the one it has to restore.  Of the disk there are the directory, the names in
it, and which files are not empty (`full`) and have their magic (`magic`); a
size is 0 or enough for the header, since that is what `map_file()` makes a
difference of.  `Access` and `MakeDir` begin; `CreateFile`, or `FindFile` and
`StatFile`, open a file; `MapStat`, `MapTruncate`, `Map`, or `MapFails` and
`Restore`, are `map_file()`; `WriteMagic` or `Verify` go on to the next file.
`CallFails` and `CreateFails` are the error paths, with `Unlink` and `Undo` for
a creation; `Close` and `CloseFile` are `close()`, and `Crash` is the death of
a process anywhere.  A process that accesses what it has mapped after somebody
cut it off dies too (`SIGBUS`).  `shrunk` records whether a file was ever set
back to size 0.

## Runs

| run | shows | bounds |
|---|---|---|
| `mapped_file` | type correctness, disjoint blocks, intact headers, room, refinement of `ChunkStore` | 3 objects, two of them of one chunk size; a file of 16 bytes growing to 24 and 36, which takes two chunks of the small size or one of each |
| `rbtree` | the tree is a red-black tree, implements `HoleSet`, its loops go up (`LoopsClimb`) and end | 10 holes of sizes 1 to 4, up to 5 of them put in and taken out in any order, the others added in one order and taken out in any |
| `dict_map` | `EMDict` implements `Dict` and owns its chunks, under `NothingToLose` | 3 keys, two of which collide and one with hash 0, 4 and 8 slots, 3 values, one of which cannot be pickled, 1 crash or failed resize |
| `dict_del` | types, `used` covers the slots, lookups end, whatever is deleted and whatever fails | the same with 2 values and 2 faults |
| `dict_iter` | an iteration is complete, repeats keys only after resizes, and ends | 3 keys, two that collide and one in the last of 4 slots; the table grows to 8 during the iteration |
| `list` | `EMList` implements `PyList`, owns its chunks and leaves other elements alone, under `NothingToLose` | 3 elements (capacities 0, 1, 2, 4), 3 values, one of which cannot be pickled, 4 chunks, 2 faults |
| `list_threads` | `EMListThreads` implements `SharedList` and owns its chunks | 3 threads: one appends, one assigns to elements 0 and 2, one to element 1 |
| `directory` | types, `OpenedWhole`, `NothingLeftBehind`, `SafeStays`, `RetriesSucceed` | 2 processes, 3 files, 1 crash, 1 failed call |
| `dict_chain`, `dict_reopen`, `list_del`, `list_race` | counterexamples, see below | |

Bounds: `MaxSize` and `MaxGrow` (file size, growth steps), `MaxEnts` (slots),
`MaxChunks` (chunks of `values.bin`), `MaxLen` (elements), `MaxFaults` (crashes
and failed resizes), `MaxShifts` (after how many shifts a hash is 0),
`MaxCrashes` and `MaxFailures` (of processes, of system calls and `malloc()`).  The
dictionary starts with 4 slots instead of 65536; the interesting cases are two
keys with a common start of their probe sequence, a key with hash 0, a resize,
and a table filled to the threshold, and they all occur.  It
takes trees of ten nodes for `rbtree_repair()` to go up twice; to put all ten in
in any order would be too many states, so `LargeTreesInOrder` (`MCRBTree`)
leaves that to the first five.  The order of the others was chosen so that both
sides of the repair go up twice, and the successor of a deleted node lies two
levels below its right child.  In `Directory`
a creation and an opening are all that race; with one failed call the directory
is made twice, and an opening may meet files of both.  The proofs are for any
number of processes, files, crashes and failures.

Statements that would need more than `MaxEnts` or `MaxChunks` do not begin,
which is why deadlock is not checked in the runs of `EMDict` and `EMList`; an
object without an `index.bin` also stops for good.

`NothingToLose`, of both modules, leaves out of `dict_map` and `list` what the
counterexamples show to break the program, so that the rest can be said at all:
a statement whose value cannot be pickled, or a `del` of a list element, that
has freed an old value; and for the dictionary a `del` that clears a slot on
the way to another key.  Failing statements on new keys or elements stay in.

`LookupTerminates` has a proviso, `3 * faults <= mask + 1`: each crash between
an entry and its count, and each failed resize, may cost one slot, and a third
of the table is to spare.

### Fairness

* `RBTree`: `WF_vars(Loops)`.  A call runs on; nothing in it waits.
* `EMDictIter`: `WF_ivars(op # Idle /\ Change)`, the statement in the body of a
  loop runs on until it returns, and `SF_ivars(IterNext)`, the loop then calls
  `next()` again.  The strong form is needed because `next()` cannot be called
  while a statement of the body runs, and there may always be another one.
* `Directory`: `WF_vars(Runs(p))` for each process: it is running, after an
  error it tries again, and `close()` does not stop half way.  None of the
  calls blocks, and nothing is assumed of when a process calls `close()` or
  dies.

All other properties are about safety, and their specifications are
`Init /\ [][Next]_vars`.

### What the counterexamples show

* `dict_chain`: a deleted entry is made free without a mark, so a key stored
  behind it is no longer found.
* `dict_reopen`: a crash between the two renames of a resize leaves no
  `index.bin`.  `em_list_resize()` has the same two renames.
* `list_del`: the old value is freed before the new one is marshalled; when that
  fails, as it does for every `del l[i]`, the entry keeps pointing to a free
  chunk, which the next statement overwrites.  `em_dict_setitem()` has the same
  order.
* `list_race`: `append()` counts with the `used` it read before it pickled; of
  two that overlap one is overwritten, or the count is written through a mapping
  that is gone.

### The race in map_file()

Three properties of `Directory` have the proviso `~shrunk`, no file was set back
to size 0.  Without it TLC finds each of them violated, with two processes and
neither a crash nor a failed call:

1. one process creates `index.bin`, which is empty at first
   (`mapped_file.c:804`);
2. the other opens it and takes its size, 0 (`mapped_file.c:767`);
3. the first one sets its size, maps it and goes on to write the magic;
4. the second one sets the file to the size it saw (`mapped_file.c:724`), which
   empties it, cannot map it, and "restores" the size (`mapped_file.c:743`), which
   leaves zeros where the magic was.

Depending on when step 4 comes, the first process is killed by its next access,
or goes on with an `index.bin` without magic.  In the end the directory lacks a
magic, or files as well, nobody is making it, and no `open()` succeeds any more.  The
code says of itself that there is a race (`em_dict.c:656`), though not this one.

The provisos are as narrow as this: `OpenedWhole`, `NothingLeftBehind` and
`RetriesSucceed` hold until a file is emptied, whatever else the processes do.
`SafeStays` has no such proviso.  It says who can do it: a directory that is
whole, while nobody is between `open()` and the end of `map_file()` with a size
of 0 that it saw, stays whole for good, however often it is opened and closed.
So the race is one of opening with creating only.

Two smaller facts are visible in the models without a run of their own: `used`
of a dictionary only goes up, also when an absent key is deleted, so `len()`
counts what was deleted; and if resizes fail again and again the table fills up
until the lookup of an absent key does not end.

## Proofs

Each module of proofs is for all values of the constants that satisfy the
`ASSUME` of its module; no bound is needed for them.

**MappedFileProofs**: `TypeCorrect`, `Disjointness`, `Headers`, `Room`, and
`Refinement` (`MappedFile` implements `ChunkStore`), for every `Word`,
`HdrSize`, `InitSize`, `MaxSize`, `MaxGrow` and `Pickle`.  The properties are
not inductive.  That a hole can be reused needs its header to say the truth;
that freeing a chunk makes a good hole needs the header of the chunk; that an
object is still there needs its bytes to be in the file and no write to touch
them; and a failed or interrupted store must be apart from all blocks from its
first write on.  `IInv` is the conjunction of these: each chunk and hole lies
in the used part of the file behind its header (`ChunkOK`, `HoleOK`), chunks
contain their pickles, blocks do not overlap (`Disjoint`), and the chunk being
made stands at EOF until it is cleared, with a correct header and apart from
the others (`OpOK`).  `WriteFrame` says which bytes a write can change,
`KeepBlocks` that a step which changes no byte of a block keeps all this, and
there is one lemma per action that is not covered by `QuietIInv` (steps that
change neither the file nor the blocks except to forget some).  `Refinement`
follows because under `IInv` what a chunk loads to is what the owner stored
(`LoadedChunk`, from the assumption on pickles) and the offset `FillChunk`
returns was not in use (`FreshHandle`).

**DirectoryProofs**: `TypeCorrect`, `OpenIsWhole`, `FailureLeavesNothing` and
`WholeStays`, for any number of processes, files, crashes and failures.  `IInv`
says that at most one process is making or unmaking the directory, that the
files there are those it has made so far, and that the last one has no magic
(`OneMaker`); that as long as no file was set back to size 0 the files before
the one it is at have their magic, that the last magic is only there when all
are, and that an open process has seen it (`Intact`); and that without a crash
the directory is whole or gone when nobody is making it (`WholeOrNothing`).
`OpenedWhole` by itself is not inductive, because a process opens the files one
by one while another may be making them.  `WholeStays` needs `OneMaker` only:
in a whole directory the last file has its magic, so nobody is making it, and
whoever takes the size of one of its files finds it not empty.

**ValuesFileProofs** has what each operation of `ValuesFile` does to chunks and
holes; the proofs about `EMList`, `EMListThreads` and `EMDict` use nothing else
of it.

**EMListProofs**: `TypeCorrect` for all behaviours; `EveryChunkOwned` and
`OthersKept` for those that satisfy `[]NothingToLose`, and `Refinement`, that
`EMList` implements `PyList` under the same condition.  `Types` relates the
index being prepared to the one in use, which `TypeOK` does not: after a crash
in a resize one becomes the other.  `Ownership` says where in a statement the
chunk of the element is a hole and where the new chunk is nobody's yet.  In the
refinement creating, renaming and switching the index and freeing the old value
are stutters; the first byte written into the chunk that the element still
points to tears it (`Tear`), completing the value there sets it (`Apply`), and
`WriteEntry` or, for an append, `Count` end the statement (`End`); failures are
`Fail`, closing and crashes `Stop`, opening `Start`.

**EMListThreadsProofs**: `EveryChunkOwned` and `Refinement`, that
`EMListThreads` implements `SharedList`, for any number of threads, under
`Separate`: at most one thread appends, and no two assign to the same element.
The run `list_race` shows that the first condition is needed.  The invariant
says that the appending thread's `used` and mapping are still those of the
index, that elements nobody assigns to have chunks of their own that are not
free, and that entries beyond the last element have none; `ChunkApart` is why
the chunk an `End` is given belongs to no such element.

**EMDictTableProofs**: `ProbesCover`, that the probe sequence of every hash
visits every slot of a table of any size, and `RehashCarriesAll`, that
`em_dict_resize()` carries every entry over, once, and counts it.  Once
`perturb` is 0 the recurrence is `5 * i + 1` modulo a power of two; that it has
the full period follows from `Jump` (2^k steps change the number by 2^k times
an odd one) and `OrbitCovers` (so each doubling of the modulus splits every
remainder in two).  Induction on numbers is the least element of a set of
numbers (`LeastElement`), which the library's theorems on finite sets give
without an operator for a parameter.  The rehashing loop is unfolded by
`Recursion`: a function with the recurrence exists, so the one `CHOOSE` picks
has it.  The loop's invariant is `HalfRehashed(i, s, n)`: the entries of the
first i slots are in the new table `s`, each can be reached (`Reachable`: no
free slot comes before it on its probe sequence), and `used` is their number,
so there is always a free slot for the next one (`FreeSlotMet`).

**EMDictProofs**, about `EMDict` and `EMDictIter`:

* `TypeCorrect`: `Types` adds to `TypeOK` what the new index is made of, and
  that there is room for it.
* `UsedCoversSlotsCorrect` and `LookupTerminatesCorrect`, for any number of
  crashes and failed resizes (`faults` counts both, although `used` only falls
  behind by a crash).  The invariant `Counting` has a number c that the
  code does not: at most c of the slots in use are not counted, and each of the
  other faults may have put the table one step past the point where it grows.
  A table that is not full has a free slot on every probe sequence.
* `ChunksOwnedCorrect`, under `[]FreesNoOldValue`; `Owned` says which chunk is
  nobody's in the middle of a statement.
* `EntriesFoundOnTheWay`: the sentence `dict_chain` refutes is true under
  `[]ClearsNoWay`.  The invariant is `Filed` (every entry is reachable from the
  hash of its key, and no key has two) with `Underway`: no free slot comes
  before the slot an assignment is going to write to, and it is the key's or
  the key is nowhere.
* `ImplementsDictCorrect`: `EMDict` implements `Dict`, under
  `[]NothingToLose`.  `Contents` is a function of entries and chunks by
  `Describes`; `WriteEntry` ends the statement for the user, and `Switch`, or a
  crash after the second rename, leaves `Contents` as it was although every
  entry may be in another slot.
* `ReopensButBetweenRenames`: what `dict_reopen` refutes holds unless the
  process dies between the two renames, or the second one fails.
* `IterCompleteCorrect` and `IterRepeatsCorrect`, for `EMDictIter` under
  `[]ClearsNoWay`.  `Walked` says that a key that was in the table all the time
  has been returned exactly if its slot lies behind the iterator, as long as
  there was no resize, and in general once for each resize at most and once if
  it lies behind; a key stays in its slot because an assignment writes where
  the lookup found it (`KeysStay`).  `Finished` says that nothing lies before an
  iterator at its end; for that one the table must be smaller than `MaxPos`
  (`MaxEnts < MaxPos`, an address), or its last slot is skipped.

The theorems that speak of entries or of an iteration assume `OneHash`, that keys hash alike in
every process; that is what the program needs, and what Python grants for
integers but for strings only with `PYTHONHASHSEED`.  `ClearsNoWay` and
`FreesNoOldValue` are no more than the runs `dict_chain` and `list_del` show to
be necessary, and the runs `dict_map` and `dict_iter` have behaviours that
satisfy them.

**RBTreeProofs**: `TypeCorrect`, `LinksAgreeCorrect`, `RedBlackCorrect`,
`EveryHoleFound`, `LoopsClimbCorrect` and `ImplementsHoleSetCorrect`, for any
number of holes of any sizes.

* The invariant is `Types /\ Fits`.  `Fits` says, for the step the call is at,
  that there are a set of nodes below each node and a black height for each
  that agree with links, order and colours: `Settled` between calls,
  `Inserting` with one red node that may have a red parent, `Repairing` with
  one subtree that is a black node short (`Balanced` with a `Lack`).  With the
  sets and heights for witnesses nothing about the tree is defined by recursion,
  and a rotation changes two sets and two heights (`RotateNested`,
  `SwapBalanced`, `LiftBalanced`), the rest of the tree being apart from it
  (`TurnedApart`).
* Sizes are in order from left to right (`Ordered`), but a rotation puts equal
  ones on both sides; the search still meets one of each size
  (`FindNodeFinds`), so a call that finds none is a `Take` of `HoleSet` that may
  find none, and the hole a deletion ends with has the size it began with
  (`TakeFinds`, `AskedFits`).  While a node has left its place to take that of the hole
  found, `Worth` counts the place by the size of the node that will be there.
* `Splice` exchanges two names in a tree that stays as it is: `AlikeKeeps`
  carries everything over to a tree alike but for the names.
* The functions `FindNode`, `LeafFor` and `Successor` compute by recursion
  what `Descent` says of a way down that goes on to a child until it stops: it
  ends, because the set below shrinks, and so the function exists.
  `AncestorsAbove` and `BlacksUp` do the same for `Ancestors` and the black
  nodes on the way up that `RedBlack` counts.
* `LoopsClimbCorrect`: an iteration that changes colours only goes to a node
  that the last one is below; one that rotates is the last, or, where the
  sibling was red, the next one ends at once because the parent has become red.

Only model-checked: liveness (`CallsReturn`, `IterEnds`, `RetriesSucceed`),
which needs fairness and ENABLED.  For `CallsReturn` the part that depends on
the size of the tree, that no loop goes round for ever, is proved as
`LoopsClimb`.  All other properties of the passing runs are proved, under the
conditions named above.

## Not modelled

* Loss of power: a crash is the death of the process, and the page cache
  survives it.  `msync()` and `madvise()` have no effect then.
* A store of several words by `memcpy()` is one step, so a crash does not tear
  an index entry or a header; only the value being written can be torn.
* The rounding of a size to pages when truncating fails at close; the Windows
  port; key objects that cannot be pickled (nothing has changed by then but
  `keys.bin`).
* What processes that have the same directory open at the same time do to each
  other's entries, holes and sizes: each has an EOF and a tree of holes of its
  own, so they overwrite each other at once.
* Python code called back, and threads, in the dictionary: `em_dict_setitem()`
  goes on with a copy of the index it made before (`em_dict.c:410`), which is
  what the faulty variant `EndThroughOldMap` of `EMListThreads` does.
* Reopening with another hash function: `hash` is a variable of `EMDict`, but
  with two functions all properties fail at once, the stored hashes being those
  of the first process.
* The iterator of `EMList`, which reads the live index up to the `used` there was
  when it was made (`maxpos`, `em_list.c:361` and `408`); `next()` after `StopIteration`, which returns entries again
  once the dictionary has grown; an object used after `close()`, whose memory is
  up to the C library.
* The marshaller, path handling and the module's registration: no state.

## What remains

1. `RBTree` in `MappedFile`, in place of its set of holes; by
   `ImplementsHoleSet` nothing new can happen.
2. `EMDict` with callbacks, like `EMListThreads`.
3. Torn index entries: entries written word by word.
4. A proof that `MappedFile` does to its chunks what `ValuesFile` says, with
   the chunks numbered by their offsets; the two agree on paper only.
