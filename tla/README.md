# CNIF in TLA+

`tonyrog/cnif` is a C library that holds Erlang terms in a plain program with the
interface Erlang gives its NIFs: a term is a tagged word, terms live in the heap of
an environment, atoms in a global table.  The library is sequential: it starts no
thread and takes no lock.  What is hard in it is data structure: memory that is cut
up, rewound and copied by pointer surgery, a hash table that splits and merges its
buckets, loops without a bound, arithmetic at the edge of a word, and long sequences
of legal calls.

Every definition that models code is listed in `PROJECT.json` with the lines it
models.  Operators that stand above the one they vary (`GrowAllocatesLate` above
`GrowAllocates`) are slips a programmer could have made there; no specification uses
them, each shows a property that would notice it.

## 1. Inventory

| Component | State | Operations | Hard part | What makes it correct |
|---|---|---|---|---|
| linear hash table, `cnif_lhash.c` | mask, split position, counts, segments of buckets, objects | new, put, get, erase, free; grow and shrink inside put and erase | objects move when a bucket is split or merged; segments come and go; `nslots` drifts | an object is where `HASH` looks for it; a key has one object; every bucket indexed is backed by a segment; to the caller it is a table |
| environment heap, `cnif.c` 19-154 | chain of fragments, `top`, marks | alloc_env, heap_alloc, begin, rewind, commit, clear, free | nested marks, rewinds over several fragments, reused addresses | no two terms overlap; a mark finds its fragment; no fragment leaks |
| tagged words and flat size, `cnif_term.h`, `cnif_copy.c` 13-94 | none | flat_size | counted recursively, used by loops | it is what the copy loops append |
| flat copy, `cnif_copy.c` 257-370 | the copy, `from`, `to` | enif_make_flat_copy | scans what it appends | fills its chunk, is the same term, ends |
| struct copy, `cnif_copy.c` 372-537 | the same, a log, the overwritten source | enif_make_struct_copy | forwarding pointers in the source | each object once, the source repaired, ends |
| recursive copy, `cnif_copy.c` 97-255 | the calls under way | enif_make_copy | pointers kept over allocations | takes what flat_size counts; the same term, without a word of the source |
| sorting, `cnif_sort.c` | two arrays | sort, sort into other arrays, drop duplicates | loops without a bound, any comparison | stays in the arrays, values follow keys, sorted once |
| maps, `cnif.c` 985-1295, `cnif_misc.c` 20-38 | keys tuple, values, iterator | new, from_arrays, get, update, put, remove, iterator | index arithmetic between two arrays | a call changes one key; counts agree; a walk visits all |
| integers, `cnif.c` 169-381 | none | make and get of each C type | width and sign | what was made is got, or refused |
| comparison, `cnif.c` 1302-1453 | none | enif_compare, enif_is_identical | integers beside floats, improper lists, the width of the answer | an order; identical means the same term |
| bignum digits, `cnif_big.c`; arithmetic, `cnif_arith.c` | digit vectors | make and get a number; add, sub, neg, band, bor, bxor, bnot | carries and borrows behind the shorter operand, results over operands, two codes for a negative sign | agrees with the integers |
| binaries and iolists, `cnif.c` 562-980, `cnif_misc.c` 148-233 | structs of the caller, their blocks, terms | alloc, realloc, release, make, make_new, make_sub, inspect, iolist size and copy | who owns a block; nested lists | a block has one owner and is freed once; bytes in order |
| strings, lists and tuples, `cnif.c` | none | make and get | what is a character; the 0 behind it | what was made is got, when the buffer has a place for the 0 |
| reader, `cnif_io.c`, `cnif_stdio.c` | a stack of frames with their streams, the line, an error | push, pop, free, scan_forms with a callback | errors inside a form, files opened by the callback, what is given back to the stream | every form is delivered once and in order; a stream is closed once; the line is right |
| writer, `cnif_io.c` | none | write | what the reader can read | what is written is read back, but for the losses section 3 lists |
| test programs, public header, build | none | | | |

The parts call each other as follows.  Every constructor takes words from the heap
(`cnif_heap_alloc`).  `enif_make_atom` puts into the hash table, and only the addresses
it answers make atoms comparable.  `enif_make_map_from_arrays` sorts the keys with the
sort, which calls `enif_compare`, as do the map functions through `key_index`.  The copies
take one chunk of the heap of `flat_size` words.  The integers of the reader and the
writer go through `enif_make_int64` and `enif_get_int64`, its binaries through the struct
of a binary, its maps through `enif_make_map_from_arrays`.  The reader calls a callback,
which may call the reader.

The models meet at the same places.  `SortedMap` runs `QuickSort` on the caller's arrays
and hands what it leaves there to `FlatMap`; `MCCopies` runs the three copies on the same
terms; `Scanner` and `Writer` use the terms of `TermOrder` and the integers of `IntTerm`;
`Compare` goes on with the terms `MadeTerms` makes; `BigArith` reads and makes numbers by
`IntTerm`.  The copies take a chunk as `CnifHeap`
grants it.  `Reader` and `Binaries` have constants where they call functions without a
state of their own, so that they can be proved about: `FormReader` gives `Reader` the
`Scanner`, and `Iolists` gives `Binaries` the walks over iolists.

## 2. Modules

| Module | Models | State and actions |
|---|---|---|
| `KeyTable` | nothing: the abstract table, a partial function from keys to objects | add a free object for an absent key, remove, clear |
| `LHash` | `cnif_lhash.c` | fields of `lhash_t` under their names; `chain` gives each bucket of an allocated segment the set of its objects. `New`, `Put` (with `Grow`), `Erase` (with `Shrink`), `Free`: one whole call each. `lhash_get` is `Find` |
| `CnifHeap` | `cnif.c` 19-154 | the chain `frags`, `top`, `marks`; the history `blocks` of what was handed out. `AllocEnv`, `AllocHere` and `AllocFragment` (the two ways of `cnif_heap_alloc`), `Begin`, `Rewind`, `Commit`, `Clear` |
| `TermHeap` | `cnif_term.h`, `flat_size` | words as records, `FlatSize`; the reference definitions `Reach`, `SharedSize`, `Unfold`; `WellFormed`, what a term is when a program hands it over |
| `TermSamples` | nothing: the terms to copy | all ways to fill the fields of up to four objects |
| `CopyLoop` | what the two copy loops do alike | the locals both C functions have; the cases that meet no pointer; `Source`, the terms to copy, is a constant |
| `FlatCopy`, `StructCopy` | the two copy loops | one action per case of the loop, one step per turn; the log and its repair are `StructCopy`'s |
| `RecursiveCopy` | the recursive copy | the calls of `copy_list` and `copy_boxed` under way as a stack; one action per kind of word met (`CopyWord`, `NextCell`, `CallWord`) and two for the returns |
| `QuickSort` | the sort in place, `uremove_aux` | one step per turn of a loop, the recursion as a stack of ranges |
| `CopySort` | the first partition of the sort into other arrays | the same loops, writing to `dst` |
| `FlatMap` | maps and their iterator | the map a program goes on with, one action per call and outcome |
| `SortedMap` | `enif_make_map_from_arrays` as a whole | the turns of `QuickSort`, then `Assemble`, then the calls of `FlatMap` |
| `IntTerm` | integers as terms | operators only; `Base`, `CellBase` and `IntBase` are how many values a word, the cell of a small and an int have: 2^64, 2^60 and 2^32 in the build |
| `MadeTerms` | a program that makes terms, integers among them | the terms made and the number the last one was made of: `MakeInt`, `MakeUint`, `MakeOther` |
| `TermOrder` | terms as trees, `enif_compare`, strings | operators only; the C function as a recursive operator |
| `Compare` | a program that makes and compares terms | up to three terms of `MadeTerms`, and `junk`, what `compare_integer` finds in variables that were not set |
| `BigArith` | `cnif_big.c`, `cnif_arith.c` | two numbers and `asize`, the allocated size of the buffer of one, where results go, also over an operand; it has memory for `NUM_TMP_DIGITS` digits at least, as the struct has them. `Load`, `Alloc`, `AddOrSub`, `BitOp`, `Unary`: the loops as operators over digits, the C operators on two digits as constants |
| `BigBits` | nothing: two's complement | what `band`, `bor` and `bxor` of `BigArith` should be |
| `Binaries` | binaries, the calls on iolists | the structs `bin`, the blocks of `enif_alloc`, the terms made; one action per function and outcome. What an iolist comes to is the constant `Gathered` |
| `Iolists` | the size of an iolist and the copy of its bytes | recursive operators over the terms of `TermOrder`; `AllGathered` is what `Gathered` stands for |
| `Scanner` | the functions `parse_*` of `cnif_io.c` | operators from a stream to a value and the stream after the call |
| `Writer` | `enif_io_write` | operators from a term to a text |
| `FormStream` | nothing: what a scan promises its callback | open files and the forms taken of each: deliver the next form, end of file, fail |
| `Reader` | push, pop, free, the loop of `enif_io_scan_forms` | the stack of frames, the open streams; one step per turn, the callback chooses. The scan of one form is the constant `ReadForm`, which has to satisfy `ScansAsWritten` |
| `FormReader` | a stream of text, the scan of a form in it | `ScanForm` is what `ReadForm` stands for |
| `LHash_proofs`, `CnifHeap_proofs`, `CopyLoop_proofs` (the flat and the recursive copy), `StructCopy_proofs`, `SortedMap_proofs` (with those of `QuickSort`), `Reader_proofs`, `Binaries_proofs`, `Numbers_proofs` (of `BigArith` and `MadeTerms`) | | the theorems of section 5 |
| `CompareSamples`, `MC...` | | constants for TLC; `MCCopies`, `MCMaps`, `MCValues` and `MCReader` also put parts beside each other or together |

Abstractions, beside those each module's head names:

- `malloc` does not fail.  `atom_alloc` can answer NULL and `lhash_put` would write through
  it; the models do not follow that.
- A chain of the hash table is a set.  Only the time of a search depends on its order, and
  that no key is twice in the table is checked (`Interned`), not assumed.
- `shrink` may pass a segment to `free` that was never allocated; its place in the index
  table is 0, so `free` does nothing, and `FreeSeg` takes no bucket away.  When that place
  is one past the end of the index table, the C code reads outside it; the model does not.
- Nothing in the repository calls the mark functions.  `CnifHeap` gives a mark the use the
  names suggest: it ends with one rewind or commit, and may be rewound as long as no older
  mark was rewound and the environment was not cleared.
- In a map whose keys were overwritten (section 4, `map_put_empty`) no further call is
  followed: it would read variables that were never set.
- The iterator of a map and the map are independent, as a map is never changed.
- Words that are equal in `Compare` stand for one object; a map carries an address, as
  `enif_compare` asks whether two maps are one word.
- Digits a loop reads before they are set are any of `Unset` (`BigArith`), bytes of a new
  block nobody wrote any of `Unread` (`Binaries`).  A loop of `bxor` that
  counts past 0 (`RunsAway`), digits that `band`, `bor` or `bxor` write where a buffer has
  no memory, as these do not look at `asize`, and a copy past the end of a binary
  (`overrun`) end the model of these numbers and of these binaries.
- `Scanner` works on text, as one function of C gives back characters another reads; this
  is what goes wrong there (a digit before a '.', a list in blanks).  Floats are cut to
  halves, a map of equal keys keeps the first, the buffer in which a binary grows has no
  size, no text has a back quote.
- A list of exactly `MAX_STRING_LEN` smalls passes the test of `enif_get_string`
  (`cnif.c:919`), which then stores a 0 one place behind the buffer of
  `enif_io_write_list`.  `Writer` prints what no term is printed as (`Overruns`), so that
  such a list among the files would break `ImplementsForms`; there is none.
- `Reader` keeps to what a caller must do: the callback is set before the first scan
  (`enif_io_alloc` leaves it as `malloc` found it), a scan is asked for again only after
  the callback stopped the last one, and no two frames share an output but stdout.  From
  the push of one frame more than `ENIF_IO_MAX_DEPTH`, which `enif_io_push` does not
  refuse, the behaviour is undefined and is not followed (`outside`).

## 3. Runs that pass

| Run | Module | Bounds | Shows |
|---|---|---|---|
| `lhash` | `MCLHash` | eight keys, segments of two buckets, threshold 1 | `Placed`, `Interned`, `Backed`, `Counted` and `ImplementsKeyTable`, the refinement of `KeyTable`, over several splits, merges and segment boundaries |
| `heap` | `MCCnifHeap` | three addresses, fragments of two words, requests of one and two words, two marks | `TermsIntact`, `TopInLast`, `MarksReachable`, `NoFragmentLeaks` |
| `copies` | `MCCopies` | every term of up to four objects of chosen kinds | the three copies: `SameTerm`, `Returns`; the struct and the flat copy: `FillsSize`; the struct copy: `LogRepairs`, `CopiesOnce`; the recursive copy: `TakesFlatSize` |
| `maps` | `MCMaps` | arrays of up to five of four keys under the order, of up to three of three keys under each of the 729 reflexive comparisons; maps of up to four pairs | the sort: `StaysInRange`, `PairsKept`, `Terminates`; from the sort to the map: `MakesPromised`; the calls on a map: `AnswersLatest`, `ChangesOneKey`, `WalkVisitsAll` |
| `values` | `MCValues` | comparison: words of six bits, ints of four, every triple of 70 terms; integers and bignums: words of three bits, ints of two, two digits in the struct, buffers of one to three digits, seven numbers to begin with; two structs, three blocks, two terms of up to two bytes, 16 iolists | `RoundTrip`, `OrdersTame`, `IdentifiesTame`; `AddSubExact`, `BitsExact`, `NumberRoundTrip`; `OwnsItsBytes`, `IolistExact` |
| `io` | `MCReader` | words of 12 bits, buffers of 3 to 9 characters or terms, a stack of three, four pushes, 32 files | `ImplementsForms`, the refinement of `FormStream`; `ClosesOnce`, `LineTracks`; before the first step, that the scanner satisfies `ScansAsWritten` on these files |

Why the bounds are enough to be of interest.  *Hash table*: the hash values agree in
their low bits and differ higher up, and two keys collide whatever the mask is, so that
splits move some objects and leave others, buckets with several objects are merged, and
new segments are entered again and again; `MCLHash` stops erasing once `nslots` is below
0, because the drift of section 4 would go on for ever; the theorems have no such bound.
Each key has two object names, since a fresh object may differ from the one erased.
*Heap*: a request of a fragment's size takes a fragment of twice that size, so that both
branches of the size, a fit, a misfit with a rest, a mark on an empty heap, in the last
and in an older fragment and a rewind over two fragments all occur.  *Copies*: shared
heads, shared tails, improper tails, tuples in lists and lists in tuples, objects
without terms in them; maps and sub binaries are among the samples and end the loops
early, but not the recursive copy.  *Maps*: five places suffice for ranges of one, two
and three terms on both sides with equal keys in each; the binary search over four keys
takes both turns.  A comparison answers the same each time it is asked; one that does
not, as by looking at what changes meanwhile, is not among them.  *Comparison*: with
four bits an int overflows as with 32, and -32 is the least int64.  *Integers*: words,
cells and ints have two boundaries each, none of them shared, and every integer is
made.  *Bignums*: the given numbers have one, two and three digits; their results are
operands again and run through all numbers of three digits, so that carries and borrows
run over none, one and all of the higher digits.  A buffer is asked for with fewer
digits than the struct has, with as many and with more, so that operands longer than it
are refused, written into the spare digits of the struct, and written where there is no
memory.  *Binaries*: with two structs one can be released, made or overwritten while the
other shows the same term.  *Reader*: each limit of a buffer has a text on both sides of
it; every term of `Terms` is printed by `Writer` and read by `Scanner`; four pushes on a
stack of three reach the frame too many, and a file opened in a file opened by the
callback.

Fairness.  `FlatCopy`, `StructCopy`, `RecursiveCopy` and `QuickSort` are single calls of sequential C
functions: nothing else runs, so weak fairness of a turn (of `Sort` in `SortedMap`) says
only that the call goes on until it returns.  A program is not obliged to make another
call, and the other modules have no fairness.  That a scan returns is not checked: it
takes a callback that stops opening files.

What is excluded, because it is known to be wrong and no line of the repository says
otherwise, so that it is no run of its own:

- `AnswersLatest` speaks of maps whose keys are still in order (`misplaced`): `key_index`
  leaves in its index the place it looked at last, not the one where the key belongs, and
  a put of a key greater than the one there puts it one place too early.  A map built that
  way answers wrongly.  `ChangesOneKey` holds of such maps too.
- `OrdersTame` and `IdentifiesTame` speak of terms in which differences of integers fit in
  an int and in which there are no maps; section 4 has what happens beyond.
- `MakeInt64` follows the C expression: both bounds of the test for a small are unsigned,
  no int64 lies between them, and every integer made as a signed one becomes a bignum.
  `RoundTrip` and `IdentifiesTame` hold all the same, but functions that ask `IS_SMALL`
  (strings, iolists) refuse such an integer.  In the iolists of the run
  bytes are smalls, as `enif_make_uint64` makes them.
- `AddSubExact` leaves out operands of which one has the sign a computation gives (1) and
  the other that of a header (`BIG_SIGN_BIT`), which `cnif_big.h:19` gives as the sign of
  both, and operands with leading zeros.
- `BitsExact` leaves out (`Outside`) the negative results of one digit, for which `btrail`
  reads a digit never set, and the results -B^k, whose carry it loses; borrows that run
  past the shorter operand; and `bxor` of two negatives of which the first is longer.
  The digits may be more than `asize`, if the struct has them, although `cnif_big.h:20` says
  "allocated size (>=size)".  Minus zero, which `neg` and `bnot` make of 0, is no operand of it, and nothing is said
  of `bnot` of numbers that are not negative, which is their negation.
- `OwnsItsBytes` ends with a realloc to 0 bytes, which frees the block and keeps the
  pointer (section 4, `reader_test_file`, is what that leads to).
- `IolistExact` says that bytes come in order for iolists whose inner lists begin with the
  first byte or end with the last, and have no binary as their tail: otherwise the place
  is counted twice, and the list is refused or the bytes come elsewhere.  That something
  that is no byte, list or binary is refused holds for all.  A sub binary is always empty,
  because a local variable hides the size; `MakeSubBinary` follows the code.
- `LineTracks` leaves out texts with a newline in quotes, which is not counted.
- What is written is not always read back.  A float that is whole is written without a
  point and read as an integer.  A list of smalls and other terms is written as the string
  of its smalls (`enif_get_string` passes over the others).  Quotes and back slashes in
  strings and names are not escaped.  A name of `MAX_ATOM_LEN` characters is written
  without quotes and refused, and so is an integer beyond int64.  The files of run `io`
  have each of these with what the scanner makes of it (`Lost`, `Unreadable`); all other
  terms of the run come back as they were.
- `16#1f.` is a form by the grammar (`cnif_io.c:84`, `:151`) and refused, as `parse_number`
  takes the '.' behind a number with a base for that of a float.  The run has it as an
  error the code reports (`Ungrammatical`).
- What the scanner gives no error for (a variable, a character it does not know, the end
  of the text in a form) ends the file it stands in.  `FormStream` says so (`quiet`).

Some properties speak for others that would repeat them: `AnswersLatest` compares counts
with what was put; `SameTerm`, of each copy, says that the three return the same tree;
`MakesPromised` says that the sort orders the keys, leaves each once and loses none.

## 4. Runs that find a disagreement

| Run | Says | Does |
|---|---|---|
| `lhash_slots` | `cnif_lhash.h:37`: `nslots` is the "Total number of slots" | `shrink` lowers it for segments that were never allocated |
| `struct_copy_map` | `cnif_copy.c:373-374`: "repair the original using a log" | a map or a sub binary ends the call with 0 before the repair |
| `copy_sort` | `cnif_sort.c:87`: "first partition quick sort and move to destination" | some arrays lose a term: the source is read again where an exchange has been |
| `compare_wide` | `cnif.c:1452`: "compare =:=" | integers that differ by a multiple of the range of an int are identical |
| `map_put_empty` | `cnif_term.h:182`: `keys` is a "tuple" | a put into an empty map stores the value there |
| `reader_test_file` | `test.txt:16` has the form `<<>>.`, and `cnif_io.c:96,108` the grammar for it | the buffer is reallocated to 0 bytes, which frees it, and released again |

`copy_sort` says nothing of partitions that leave the array: those end in `Outside`.  No
function of the library sorts into other arrays; `enif_make_map_from_arrays` passes the
same arrays twice and gets the sort in place.

## 5. Proofs

Assumptions are those named in the modules: `LHashAssumption` (sizes are positive numbers,
an index table of one segment is made longer,
`Hash` maps keys to numbers, the threshold is a number), `HeapAssumption` (no address is
NULL, fragments and requests have a positive size, `MaxMarks` is a number),
`QuickSortAssumption` (the arrays are functions on `0 .. n - 1`, a comparison answers 0 for
a term and itself), `SortedMapAssumption` (keys are numbers, as keys of a map are terms that
`enif_compare` orders; the bounds are numbers), `ReaderAssumption` (the stack has a place,
files are sequences, and those a callback opens are files), `BinariesAssumption` (bytes and
the bounds are numbers) and `CopyAssumption` (every term to copy is `WellFormed`: its
pointers lead to whole objects inside the memory and not in circles, objects do not overlap,
and have a header, terms and raw words where such an object has them), `IntTermAssumption`
(words, cells and ints have an even number of values, cells fewer than words, ints not
more) and `MadeTermsAssumption` (the integers terms are made of are int64 and uint64).  TLC
evaluates them on every run of the module.  The theorems of `BigArith` assume
`BigArithConstants` (buffers and the struct have a digit, what a digit that was not set holds is a digit, and
so is what the C operators make of two), which TLC evaluates in `MCValues`.  `ReaderImplementsForms` names one more: the scanner satisfies
`ScansAsWritten`, which TLC evaluates on the files of `io` (`ScannerScansAsWritten`).

`LHash_proofs`, for every set of keys, hash function, segment size and threshold:
`LHashTypeCorrect`, `LHashPlacement`, `LHashInterning`, `LHashBacking`, `LHashCounting` and
`LHashImplementsKeyTable`.  None of the invariants is inductive alone.  `IInv` adds to
them:

- the mask is `SEGSZ * 2^k - 1`, said without powers: `szm + 1` is in `Sizes`, the least
  set with `SEGSZ` in it that doubling does not leave.  Without it, halving the mask in
  `shrink` could round, and a merge would not undo a split;
- `nactive = szm + 1 + p` with `p <= szm`;
- the allocated segments are an initial run, which covers the buckets in use, and `nslots`
  never runs ahead of it;
- they are all in the index table (`Indexed`): `lhash_free` walks `nsegs` segments, and one
  that was added after `nslots` had drifted must not be behind them;
- `PlacedIn`, `LHashPlacement` said of any chains and objects: that a bucket holds exactly
  the objects `HASH` sends there.  So the buckets out of use are empty, and a new segment
  may be laid over an old one, as happens after `nslots` has drifted, without losing an
  object.

`Put` splits at most one bucket and `Erase` merges at most one; both cases come down to
arithmetic lemmas on `HashIx` (a split moves exactly the objects whose hash has the larger
of the two possible remainders, a merge brings back exactly those).  The refinement follows
from `IInv`: what a search finds is unchanged by a resize, for every key but the one put or
erased.

`CnifHeap_proofs`, for every set of addresses, size of fragments and of requests and any
number of marks: `HeapTermsIntact`, `HeapTopInLast`, `HeapMarksReachable` and
`HeapNoFragmentLeaks`.  The invariant `HeapIInv` is `HeapTyped`, the three properties of
blocks and fragments, and two facts about marks.  `Marked`: a usable mark was begun at a
place `p` of the chain that is still there; what was handed out before it lies in the
first `p` fragments, in the `p`-th below the mark, and what came after lies above.
`Nested`: a younger mark is not below an older one.  `MarksReachable` alone is not
inductive: it says that the fragment of a mark is in the chain, but not which fragments
hold the blocks that a rewind must keep, nor that rewinding one mark leaves the older ones
where they were.

`CopyLoop_proofs`, for every set of well-formed terms: `FlatCopyFills`, what `flat_size`
counts by recursion is what the loop appends, no word more or less; `FlatSameTerm`, what is
returned is the same term and no word of it leads back to the source; and
`FlatCopyLeavesSource`.  First come the lemmas about `FlatSize`.  It is a recursive function
over the words of a term, so it has to be shown that its equation has a solution
(`AllMade`: a function that is right for pointers up to some depth is made right one level
further) and that its values are numbers (`SizesAreNumbers`, by the least depth of a pointer
for which they are not); then the size of a pointer is the number of words of its object and
the sizes of these words (`Summed`).  `Pending(s, m, a, b, n)` says that the words from `a`
to `b` are words of the term `s`, that `flat_size` makes `n` of them together, and that a
header among them has its words there.  A turn that scans no pointer leaves `n` as it is
(`PendingStep`, `PendingSkip`); one that scans a pointer takes off what it counts and adds
what the words of its object count, so that `n` falls by the words appended
(`PendingPointer`).  The invariant `FlatIInv` is therefore `to + n = to0 + size` for what is
left between `from` and `to`; where nothing is left, `n` is 0 and the chunk is full.

That the copy is the same term goes by where its words come from.  `Tracks` says that there
is a map `org` from the words of the copy to those of the source: a word not yet scanned is
the one it comes from; a scanned one is that word too or, if it was a pointer, leads to
where the whole object of that pointer was copied to (`Image`, `CopyAt`).  A turn that
appends an object extends `org` by its words (`TracksAppend`), and the others leave it as
it is.  What remains is about terms only.  `Unfold` is a recursive function, so the tree
of the copy, too, has to exist, which is shown by building it from that of the source
(`CopyTreesExist`); and it is the only one (`CopiesHaveTrees`): a pointer of least depth
whose copy had another tree would have a field for which this is so.

`StructCopy_proofs`, for the same terms: `StructCopyFits` (the copy fits in the words
`flat_size` counted and the log in twice as many), `StructSameTerm`, `StructLogRepairs` (at any moment the
words of the source that differ are logged, each once, with what they were) and
`StructSourceRepaired` (once a copy is returned, no word of the source differs).  The
invariant `StructIInv` has two halves that need each other.  `LogInv` adds to `LogRepairs`
that the words of the copy not yet scanned are words of the source (`Unscanned`), so that a
pointer found there is one of the source's objects; and that each logged place holds a
pointer into the copy with the tag of the pointers to that object (`Points`).  So a pointer
that does not look forwarded leads to an object that is not logged, and, as objects do not
overlap, none of whose words was overwritten: it is logged once and with its own word, if
there is room for it.  `Fits` says that there is: `to + n <= to0 + size`, where a pointer to
an object already copied lowers `n` and appends nothing; but an object counts for what
`flat_size` counted only because it is as it was.  `Tracks` is here said with the objects
that are logged (`Logged`): the first word of each, in the source, is the pointer to where
it was copied.  So a pointer that looks forwarded may be replaced by that word, if it leads
to a logged object (`ForwardedLogged`): an object that is not logged has its own first word,
and no word of the source leads into the copy.  `StructKept` is what is left of this when
the loop is through; the repair changes no word of the copy.

`StructCopiesOnce` says that the struct copy has every object of the term once: it has as
many words as the objects that the term leads to have together, and these are the words its
own objects have.  `CopiedOnce`, a part of `Fits`, says that the words of the copy are
covered by the copies of the logged objects, that these are objects the term leads to, and
that the pointers still to be scanned lead to such.  At the end of the loop the map `org`
is therefore one to one (two words from one word would lie in copies of one logged object,
and the log has an object once), and as every field of a copied object leads to a copied
one, all objects of the term are copied (`OnceEnds`).  The rest is counting.  `Reach` is a
recursive function; it is the least set that has the term and what its pointers lead to
(`ReachIsBelow`), in the source by the depth of its pointers and in the copy by the depth
of those they were copied from (`CopyRanked`).  `SharedSize` adds up the words of a set of
objects in the order CHOOSE takes them; as objects do not overlap, that is the number of
their words (`SharedCount`), of which `org` gives the same number in the source and in the
copy (`OnceCounts`).

`CopyLoop_proofs` again, for the same terms: `RecursiveCopyTakesFlatSize` and
`RecursiveSameTerm`.  The recursive copy asks for no size, and its objects lie in the heap in
the order they are met, so neither `Pending` nor the scan of `Tracks` is of use; what takes
their place is the stack of the calls under way.  `Calls`, the invariant while there are any,
has three parts.  `Frames`: every call but the innermost waits at a word that is a pointer.
`Origins`: every word of the copy comes from a word of the term, as in the flat copy, save
the words that a call has still to write (`Open`), which say nothing; and every call will
answer with the copy of what it was called for (`Asked`), even when it is at a later cell of
that list.  `Owing`: what the calls have still to take, each
word they have not copied counted with what `flat_size` counts for it (`Rest`, `Waiting`), and
what was taken make up `FlatSize` of the term.  A call puts on the stack what its pointer was
owed for (`WordCalled`), the next cell of a list replaces its predecessor at the same price
(`CellFollowed`), a return closes one word (`CallReturns`); so nothing is owed when the
outermost call returns (`LastReturn`), and what is owed is never less than nothing
(`NeverMore`).  At that moment no word is open and `Origins` says what `Tracks` says of a copy
that is through: that it is the same term is then the lemma of the flat copy
(`SameReturned`).

`SortedMap_proofs`, of the sort, for every array and every reflexive comparison: `SortStaysInRange`
and `SortKeepsPairs`.  `SortIInv` says why the unguarded loops stop: in the first turn the
pivot itself is ahead of both indices, in later turns a term that an exchange has put
there; and an exchange moves a pair as a whole.  For every comparison that is an order of
the keys, `SortAnswersAscending`: the keys answered ascend, each once, and none is lost.
Its invariant `OrderIInv` adds that the ranges still to sort lie apart; that two places
that no range holds both are already in order, whatever is done inside the ranges, because
a partition has parted what it left on its two sides; and what of the result `uremove_aux`
has written when it is at a place.

And of the maps, for every set of keys and values and arrays of any length:
`MapIsPromised` (the map made has the keys given, ascending and each once, and each with a
value that was given for it: of a key given twice one is dropped), `MapAnswersLatest`,
`OneKeyChanges` and `WalkIsComplete`.  The first lemmas are about `key_index`: for keys that
ascend the search answers the place of the key, and otherwise that it is not there
(`KeyIndexFinds`).  The search is a recursive function, which in TLA+ is a CHOOSE, so it has
to be shown that some function satisfies its equation at all (`SearchExists`); this, and what
the search answers, goes by the least number of places for which it fails (`LeastOf`), as the
induction theorems of the library are out of the provers' reach.  `MapsIInv` has `OrderIInv`
until a map is made; then that the keys and the values are sequences of one length; that
while no key was misplaced the keys ascend and the pairs are those put in; and that the
places an iterator has passed, seen from the end it came from, were visited.  `OneKeyChanges`
needs none of the order: put and remove shift keys and values alike, so every pair but one
stays together.  `MapIsPromised` compares numbers of keys, for which it maps the places of
the result one to one to the keys given.

`Reader_proofs`, for any files, scanner and depth of the stack: `ReaderClosesOnce`, and for
every scanner that satisfies `ScansAsWritten`, `ReaderImplementsForms`, the refinement of
`FormStream`.  `ScansAsWritten` is the contract between the loop and the functions `parse_*`:
from the stream as it is after `k` forms of a file (`Place`), a scan answers the next form
and leaves the stream as it is after `k + 1`, or says that there is none, or fails, as the
text has it.  `StreamIInv`, for the closing, says that streams are numbered as they were
pushed, that the frames' streams are distinct and are those that are open.  `FormIInv`, for
the refinement, says of each frame that its stream is where the forms delivered from it
have led (`Reached`), and which of the loop's decisions is still to be taken.  Neither
needs the other frames to stand still: a callback that opens and reads a file moves the
frames above, and only those.

`Binaries_proofs`, for any structs, iolists and bytes: `BytesOwned`.  The invariant
`BytesIInv` is the property as it has to be for a step: a struct with a block of its own has
a live one (`Placed`), no two have the same and every live block is somebody's
(`OwnerInv`), the bytes a struct shows stand in front of its data, and are all of them if
it shows a term (`Shows`), and a part is a part of a heap binary, not of a part, and empty
(`TermsInv`).  Each action is a case of one lemma (`Stepped`): a call on one struct keeps
the invariant if it frees no block of another and leaves each live block an owner.  After a
realloc to 0 the other half of the invariant holds, `Bad`: a struct that lost its block
keeps the pointer through every call a caller may still make.

`Numbers_proofs`, of `BigArith` for digits of any base, a buffer of any allocated
size and any operands, longer ones too: `AddSubIsExact` and `NumbersComeBack`.  The base is a number and not a power of 2,
and the number that digits stand for is said from the highest one on, `u[i] + Base * from[i + 1]`
(`From`): the provers have no powers.  A turn of `add3` is exact with the carries it takes
and leaves (`CarryFacts`): it finds the carry by two comparisons, of which only one can come
out true, so that the next turn again takes 0 or 1; so is one of `sub3` (`BorrowFacts`).
Hence digits and carries of a whole loop are those of a sum (`ChainCarry`), and the number of
the sum is the sum of the numbers, but for the carry out of the highest digit (`AddsNumbers`,
from the highest digit down).  In a difference that carry is 0 because
the first operand is the greater (`BorrowEnds`), and that is what `comp` finds out, if there
are no leading zeros (`CompFacts`).  A sum that is refused has an operand longer than
the buffer, or carries into a digit the buffer has not, and that carry alone makes it
`OutOfPlace` or more (`SumOutOfPlace`).
That the functions over places exist at all (`From`, `Turns`) is shown first, as for
`FlatSize`.  The invariant `NumbersInv` is that every call, the bitwise ones with digits
that were never set included, leaves digits and a sign in the buffer.  `NumbersComeBack`
then goes by the three sizes of a number (`NumberTerm`): a number of one digit comes back
through `enif_make_int64` or `enif_make_uint64`, any other as it was.

And of `MadeTerms`: `IntegersComeBack`.  `GivenInv` is that the last term answers the number
it was made of (`Answers`), by the tag of the term (`SmallAnswers`, `PosAnswers`,
`NegAnswers`); the narrower types ask the wider ones (`NarrowAnswers`).  A step of `Compare`
is one of `MadeTerms` that leaves `junk` alone.

Only model-checked: liveness (`Returns`, `Terminates`), and what is defined with RECURSIVE
operators, which the provers cannot use: the comparison (`OrdersTame`, `IdentifiesTame`),
the bytes of iolists (`IolistExact`), the line of the reader (`LineTracks`) and that its
scanner satisfies `ScansAsWritten`.  So is `BitsExact`: two's complement is defined by the
bits of module `Bitwise`, which is one of these; of the bitwise functions it is proved only
that they leave digits.

## 6. Not modelled

- References, functions, ports and pids, which the library has tags for and cannot make.
- The 32-bit branches of the integer functions, which name variables that do not exist.
- The text `cnif_big_write` prints of a bignum that is no int64, beyond its digits.
- Where the digits of a number are stored, and what `enif_release_number` gives back.
- Reference counts of refc binaries, which the copies raise and nothing lowers; the
  library makes no refc binaries.
- The selectors of lists and tuples, which read a word, and the encodings of atoms.
- The errors and the buffers of the C streams behind `cnif_stdio.c`.
- The test programs `cnif_test.c` and `cnif_test_big.c`; the file one of them reads is run
  `reader_test_file`.
- Failing allocation.

## 7. Plan

Done, in this order: `KeyTable` and `LHash` with its proofs; `CnifHeap`; `TermHeap` with
the three copies; `QuickSort` with its proofs and `CopySort`; `FlatMap`; `IntTerm` and
`Compare`; `TermOrder`, `BigArith` and `Binaries`; `Scanner`, `Writer`, `FormStream` and
`Reader`; `SortedMap`; the proofs of `CnifHeap` and of the log of `StructCopy`; those of
`SortedMap`, `Reader` and `Binaries`, and those of the two copies without a stack: that they
stay in what `flat_size` counted and return the same term, the struct copy with every object
once; the recursive copy as a stack of calls, and that it does the same; the sums,
differences and ways into terms of `BigArith` and `IntTerm` for every base.

Next:

1. That a scan returns when the callback opens a bounded number of files, and every turn
   reads on or closes a frame.
2. Failing allocation in the hash table and the heap.
