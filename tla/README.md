# tencryption: TLA+ models and proofs

tencryption is a library preloaded into Android processes. It interposes the
libc file calls and keeps the files of a protected "domain" encrypted on disk,
without the application noticing. This directory models the parts of it that
keep state or run concurrently, checks them with TLC on small instances, and
proves some of the results with TLAPS for every instance.

## 1. The system

| component | code | state | operations |
|---|---|---|---|
| encrypted file format | `ports/crypto.c`, `ports/crypto.h` | bytes of a file: a header of `FILE_HEADER_POLL_SIZE` bytes, then 16-byte blocks of AES cipher text, an incomplete last block in plain text | `file_header_init`, `is_encrypted_by_*`, `aes_encrypt_128bit`, `aes_decrypt_128bit` |
| interposed file calls | `ports/linker.c:301-854` | the kernel's descriptors and offsets, streams, the bytes on disk | `open read write close lseek lseek64 dup pread pwrite mmap stat lstat fstat fread` |
| rebuild of plain files | `ports/linker.c:40-299` | "`<path>.s`", four threads with offset and remaining size each | `rebuild_file_struct`, `pthread_rfs_run` |
| list of open files | `ports/util.c:288-353` | `file_info_list`, a doubly linked ring without a lock | `file_info_list_add`, `_query_by_fd`, `_remove_by_fd` |
| encryption policy | `ports/util.c:80-286` | Android system properties and a configuration file, set by other processes | `is_trust_process`, `get_domain_state`, `get_personal_state`, `get_security_state` |
| file type tables | `ports/ftype.c`, `init/ftype.c` | none | `get_tid_by_path`, `is_special_type_by_tid`, `getfid` |
| cmccd daemon | `daemon/cmccd.c` | a local socket; mode and owner of the files below `/data/enterprise` | the socket loop of the parent, the `nftw` walk of the child |
| loader and USB state | `ports/util.c`, `init/init.c` | a flag, a sysfs file | `update_linker_running_state`, ... |
| init, usb, user, crypto libraries | `init/ usb/ user/ crypto/` | none | getters |

**How they interact.** The application calls `open`. When the policy says that
encryption is on and the name is of a supported type, `open` looks at the header
of the file. A new file gets a header; an encrypted one is recorded in
`file_info_list`; a plain one is closed, rebuilt (in place up to four pages,
otherwise by four threads into "`<path>.s`", renamed at the end), opened again and
recorded. `read`, `lseek` and `mmap` translate a descriptor that is recorded or
whose file does not look plain; `write` translates every descriptor, and reads the
block it starts in through a second descriptor, opened by the *recorded* name.
`close` removes the record. The policy is asked again in every call. The daemon
shares nothing with the layer but the files.

**What is hard.** (PROJECT.json lists each hazard at its line.)

- window arithmetic: heads and tails of blocks at any alignment, the end of the
  file, a descriptor standing inside the header;
- sequences of legal calls: `O_TRUNC` on an encrypted file, `O_APPEND`, `dup` then
  `close` (which rewinds the shared offset), negative offsets, policy switched off
  between `open` and `close`;
- a full descriptor table, which makes the header look-up answer "plain";
- threads: the rebuild's four threads; callers on one descriptor, whose calls are
  three to five system calls each; the unlocked list;
- processes: several that open one plain file, each of which may rebuild it; one that
  is killed and leaves "`<path>.s`";
- failures the code goes on after: thread creation, the opens of a thread, its reads
  and writes, the write of the header, rename; descriptors a thread does not close;
- numbers: `int` offsets of the rebuild, a `signed` or `unsigned` char in a request,
  domain numbers found as digits in a text;
- settings that change between two reads of one policy question;
- a silent client, a request that comes in pieces, files that change during a walk.

**What makes each component correct.** The format: decryption undoes encryption,
and the header is never lost by accident. The calls: the application sees an
ordinary file of plain bytes. The rebuild: the new file holds every byte at its
place, the old one is there until the new one is complete, the call returns, and
several processes that open one file do not lose its text. The list: exactly one
entry for a tracked descriptor, with the right name; no pointer into freed memory.
The policy: the answer was right at some moment of the call. The types: a path has
the type of the name it ends in. The daemon: it lives, serves every client, and the
files end with the right mode and owner.

## 2. Modules

| module | what it is |
|---|---|
| `SecureFile` | the on-disk format and its pure operations, `pread`/`pwrite` on byte sequences |
| `Linker` | one action per interposed call, over a kernel descriptor table, the list and the files; extends `SecureFile` |
| `PlainFiles` | abstract specification: ordinary files, as an application expects them |
| `LinkerContract` | the mapping from `Linker` to `PlainFiles` |
| `LinkerSteps` | `read`, `write` and `lseek` of several threads, one action per system call, with kills; shown to be `Linker`'s steps when calls do not overlap |
| `StreamRead` | `fread` on a stream the application also seeks on; extends `SecureFile` |
| `Rebuild` | `rebuild_file_struct` and its threads, one action per step between shared accesses, with faults, a crash and `int` arithmetic |
| `OpenRace` | `open` with its rebuild, by several processes on one file, one action per system call, with kills |
| `InfoList` | the list of `util.c` as a ring of nodes, one action per access another thread can see |
| `Policy` | `is_trust_process` and `get_domain_state`, one action per read, with others changing the settings |
| `FileType` | the look-ups of the two type tables |
| `Daemon` | both processes of cmccd, its clients, and whoever changes the files |
| `MCLinker`, `MCTyped`, `MCLinkerSteps`, `MCRebuild`, `MCOpenRace`, `MCInfoList`, `MCPolicy`, `MCDaemon` | instances for TLC; `MCTyped` composes `Linker` with `FileType` and puts `StreamRead` beside them |
| `SecureFileProofs`, `LinkerProofs`, `LinkerStepsProofs`, `RebuildProofs`, `OpenRaceProofs`, `InfoListProofs`, `PolicyProofs`, `DaemonProofs` | theorems and proofs about the module of that name; those of `LinkerContract` and `StreamRead` are in `LinkerProofs`, those of `FileType` in `PolicyProofs` |

Operators whose name ends in `Mut` are mutants: each changes the operator of the
same name as a plausible bug would, and PROJECT.json names the property it breaks.

### 2.1 SecureFile and Linker

*Data.* A byte is a `Cell`. AES is a constant permutation of blocks, `Encrypt`, with
inverse `Decrypt`. The header is a constant sequence `HeaderCells`, a whole number of
blocks long; its first cell stands for the signature and its last for
`kernel.file_type`, the two things the code looks at. `is_encrypted_by_file_header`
has the code's three answers: no signature, `FILE_TYPE_RIGHTS`, and a signature with
something else in `file_type` (a cut-off header).

*Correspondence of state.* `disk`, `exists`: the files. `fdt`, `ofd`: the kernel's
descriptor table and open file descriptions, which `dup` shares. `file_info_list`:
the list in `util.c`, without the header copy, which nothing reads. `protected`: the
conjunction `is_trust_process() != 0 && get_domain_state() != 0` every call starts
with. `leftover`: the names for which "`<path>.s`" exists.

*Correspondence of actions.* `open` splits into the five ways the code succeeds
(`OpenRaw`, `OpenNew`, `OpenNewSpecial`, `OpenSealed`, `OpenPlain`); `OpenNew` includes
the failing case in which the header cannot be written through a read-only
descriptor: the entry is removed by number, the file stays behind empty. `read`
moves the kernel offset; what it delivers is `ReadData`, with the three-part buffer of
the code (`Decrypted`). `write` is `Written`: prefix, encryption, the two kernel writes
in order. `pwrite` is untranslated in both branches of the code, and is so here.
`mmap` changes the file only for `MAP_SHARED`, since it decrypts the mapping in place.
A mapping without `PROT_READ` (lines 780, 797) is the kernel's own and shows the header:
making one is no step, and what the application stores through it is not represented,
so that `HeaderLostOnlyBelow` speaks of calls only. Mappings begin at offset 0.
`stat`, `fstat` and the value of `lseek` are operators. A call that fails without effect
is a stuttering step. `pread` changes nothing and is handed to the kernel.

*Abstractions.* One call at a time (`LinkerSteps` has several threads). Only
regular files. The application does not rename or unlink files, and names are not
relative, so a recorded name stays good. Descriptor 0 is not used (the code treats
it as a failure). The rebuild within `open` is the in-place form, as one step; `Rebuild`
and `OpenRace` have the detailed one. `open(O_RDONLY|O_TRUNC)`, undefined by the manual, is excluded
by assumption. `is_support_file_type_by_path` and `..._special_...` are not defined in
the repository: the constants `Supported` and `Special` stand for them, and `MCTyped`
takes them to be the look-up of `ports/ftype.c` (`FileType`). `leftover` does not
change: the in-place rebuild makes no "`<path>.s`".

### 2.2 PlainFiles and LinkerContract

`PlainFiles` says what the layer promises when it is used as intended (no `O_TRUNC`,
`O_APPEND`, `dup`, `pwrite`, shared mapping, no empty or unsupported plain file, no
negative distance of `lseek`, a descriptor to spare, encryption on). `IntendedUse` says
this of the constants; `MCTyped` has TLC evaluate it for the instance, and it is the
hypothesis of the theorems `NeverLetsGo` and `PromiseKept`. Reads and seeks are those of
a plain file. A `write` is exact when it begins on a block boundary within the file, or
in the plain tail, and ends on a block boundary, in the plain tail or behind the end;
any other write leaves the right length and is contained in the blocks it touches.
This weaker clause is what the code does: it rewrites the head of the first block but
not the rest of the last.
The mapping: plain contents = `PlainView(disk[p])`, handle offset = kernel offset minus
header.

### 2.3 Rebuild

Each thread is a program counter with the local variables `offset` and `bsize` of
`pthread_rfs_run`. A step is one access to something shared: creating "`<path>.s`" and
setting its size, writing the header, leaving the spin loop, opening the plain file,
opening the copy, copying one page, copying the rest. Cells carry the position of the
plain cell they come from and whether they were encrypted, so a misplaced, missing or
overwritten cell shows.

`Faults` are failures after which the code goes on: a thread not created (or without
memory for its path, which comes to the same), "`<path>.s`" not created, its `ftruncate`
failing, its header not written or cut short, a thread's open, `pread` or `pwrite`
failing, `pwrite` storing less than it is given, rename failing, a short in-place write,
and a crash. Nobody looks at the results of the `pread` and `pwrite` of a copying thread
(lines 120, 131, 142, 151) nor of the header's (82). `spare` counts the descriptors the
process has left: a thread that opens the plain file but not the copy returns with the
first open (108-112), and the check in the spin loop needs one too, since
`is_encrypted_by_path` takes a file it cannot open for one without a header. `MaxFaults`
bounds the failures of one rebuild, and `Faults` says for each size which there may be.

What a thread is told about the file is an `int` (lines 46-51), which wraps at `IntLimit`
(`AsInt`), as do the sums made with it; `off_t` and `size_t` are wide enough.
`FILE_HEADER_POLL_SIZE` is a `sizeof` (`ports/crypto.h:35`), so the size given to
`ftruncate` is not cut at an `int`; a negative `tsize` makes it fail or gives a shorter
file. A negative position makes `pread` and `pwrite` fail.

*Abstractions.* The plain file does not change meanwhile and no other thread of the
process takes or gives back descriptors. A `pread` of a regular file reads all there is or
fails. The last cell of the header stands for `kernel.file_type`, so a header cut short is
none.

### 2.4 LinkerSteps

The threads of one process on one sealed file. Every action is one system call of
`read`, `write` or `lseek`: `pc` is the place in the call, `offset`, `arg` and `buf` its
local variables. `write` is four of them: ask for the offset; read the head of the block
through a second descriptor and encrypt; put the head back with `pwrite`; write the
data, to wherever the descriptor stands by then. `read` is: ask for the offset; skip the
header if the descriptor is in it; read the head, the data and the tail. `Crash` kills
the process between two of them. A `Setup` says which thread uses which descriptor,
which threads write, and where each descriptor stands when it is opened.

The histories say who interferes: `touch` are the blocks a write in progress may
change, `spoiled` those about which nothing is promised (two writes overlapped on
them, a write stood on no good boundary, lost its place, or was cut off), `clean`
whether the read of a thread was left alone. `plain` is what the completed writes
make up. `Whole` maps the state between calls to `Linker`.

*Abstractions.* The descriptors are recorded and stay open, the file stays sealed, a
descriptor is left for the second open. The encryption policy is on. `MaxLen` bounds the
files there are at the start (`StepsAssumption`) and what the calls may make of them.

### 2.5 StreamRead

`fread` is one action: it moves the stream with `fseek` and reads three pieces. The
stream's buffer cannot be told from the file as long as nobody else writes it. `fseek`
by the application is not interposed, so that a position below the header counts from
the start of the text and one behind it from the start of the stored file; `began` is
where in the text the reading then begins. `result` is what a call delivers. The value
it returns is left out: where it translates, `fread` returns the number of bytes and not
of items (line 853), which is `Len(result)`.

### 2.6 OpenRace

Processes that share nothing but the file system. `call[p]` is the call of `open` of
process `p`: its place and the locals the code keeps over system calls (`fs`, the result
of `access`; `header`; `fd`; `size`; `recorded`, the result of the rebuild). `worker[p]` are
the threads of its rebuild. Files are inodes, so that a descriptor can outlive the name;
`path` and `secure` are the directory entries. A page is known by the page of text it
holds and by how often it has been encrypted, which shows a second encryption.
`Leave` closes the file or kills the process at any place, `Outsider` creates a plain
file, `Store` writes through a descriptor that was returned. `write` encrypts
whatever it is given (lines 640-663), also for a descriptor of a plain file, such as
`open` returns for an empty file that exists or beside a leftover "`<path>.s`": the page
then stands as cipher text in a file without a header, is read raw, and is encrypted once
more when the file is next rebuilt. `text` is what the file reads as: the page, or its
cipher text in this case.

The histories are the conditions under which something is promised: `clash` (a file
was rebuilt or given a header out of turn: it got a header since the call looked, or
another process is rebuilding it, about to give it a header, or holds it open as a plain
file), `late` (the opener found the "`<path>.s`" of a rebuild in progress and got the plain
file), `unrenamed` (the rename failed), `strayed` (something was written through such a
descriptor).

*Abstractions.* Sizes are whole pages, and the threads' opens succeed (`Rebuild` has
the rest). Headers are one value; they differ only in the name of the process.

### 2.7 InfoList

Nodes are numbers, `next` and `prev` the links, `used` the allocated ones. `list_add_tail`
and `list_remove` are those of Android's cutils, which the repository takes from the
platform; they are the external part. An addition is three visible steps (`add_link`,
`add_publish`, `add_tail`), a removal a walk, two steps of unlinking and the `free`. A
thread that follows `NULL` or a pointer into freed memory is put into `wild` and nothing
more happens: that is undefined behaviour. The threads use the list as `open`, `read` and
`close` do: nobody works on a descriptor another thread is just opening or closing.

### 2.8 Policy and FileType

`Policy` is one question, asked by one process: `is_trust_process` reads the current
domain, `get_domain_state` reads it again, then the personal property, then the managed
domain, then the configuration file. Others change any of them in between. The
personal property is a text (`Text`, digits and marks), since the code searches it for the
digits of the domain number; the others are values. Domain and state numbers may have
any number of digits. `get_personal_state` is 1 for every state but 0, which is all that
its callers ask. `truths` collects the answers that were right at some moment of the call.

*Abstractions.* Numbers are not negative, fit an `int`, and the text fits the 92 bytes of a
property (`PROP_VALUE_MAX`), as those the system sets do.

In `FileType` a path is a sequence of pieces as fine as the table needs. Both look-ups
are operators over any table, with the searches for the *first* occurrence that the code
makes. `asked` runs through all paths of up to `MaxPieces` pieces. `TableAssumption`, that
no name of the table ends in another or in ".s" and no number is given twice, holds of
the table in `ports/ftype.c` and of the one in `init/ftype.c`.

### 2.9 Daemon

The parent is the loop of `main`: listen, accept, one `read`, `handle_request`, close. A
request is a command and a text, a sequence of digits, commas and a NUL. Any part of it
may arrive with the one `read`; behind it the uninitialised buffer holds `Junk`, a
nondeterministic choice. The text up to the first NUL is taken apart with `strtok`, and
the server dies of `atoi(NULL)` when there is no second token. `CharSigned` says whether
`char` is signed: the command byte 0x81 is never recognised where it is. The child is
`nftw` with `restorecon`: chmod and chown are two steps, and `Meddle` makes, changes and
removes files at any moment.

## 3. Runs

| run | instance | what it shows |
|---|---|---|
| `contract` | 1 file, 3 descriptors of which 2 in use, block 3, header 3, up to 8 cells; every path of up to 6 pieces; streams on 17 encrypted files of up to 8 cells of text and 2 plain ones, read by 1..5 cells, with 2 seeks to anywhere | `KeepsPromise`: the layer implements `PlainFiles`, also with two descriptors used in turn. `AlwaysTranslated`: nothing falls out of translation. `ReadExact`. `TypeIsEnding`, `TablesAgree`: what the two type look-ups answer. `ReadsOnText`, `Drained`: calls of `fread`, one after the other, deliver the text |
| `anyuse` | 1 file, 2 descriptors (the table can be full), up to 6 cells, `O_TRUNC`, `O_APPEND`, write-only, read-only with `O_CREAT`, `dup`, `pwrite`, shared mappings, negative seeks, leftover "`<path>.s`" | what survives any use: `TypeOK`, `TrackingExact`, `ReadExact` on sealed files, `SizesAgree`, `HeaderLostOnlyBelow` |
| `toggle` | 2 files, one of them of the special type, 2 descriptors, encryption switched at any moment | `TrackingKept`: calls made while encryption is on do not make a true list wrong |
| `getfid_claim` | the paths of `contract` | violated: see Findings |
| `rebuild` | 3 threads, pages of 4 cells, blocks of 2, every size 1..36, sizes around `IntLimit` (48); for the sizes 9, 13, 15, 16 and 18 up to 3 failures of any kind, with 7 descriptors, or 1 to 3 | `TypeOK`; `RebuiltExact` for every interleaving, but for the misplaced ends and what an `int` cannot address: what a failing call costs stays in the share of its thread; `OriginalKept`; `Returns`, if thread 0 has made the header and there was a descriptor for each thread |
| `rebuild_claim` | 4 threads, pages of 8 cells, sizes 40 and 41 | violated: see Findings |
| `steps` | 2 threads, with a descriptor each, a shared one, or one writing and one reading with `O_APPEND`; 4 calls | `DamageContained`: which blocks can be damaged. `ReadsExact`: when a read is right. `StepsAreCalls`, `ReadsAsWhole`: without overlap the steps are those of `Linker` |
| `list` | 2 threads, 3 descriptors, 3 nodes; 4 calls, or 7 on 2 nodes while changes take turns | `ListIsSequence`, `QueryAnswers`: without overlapping changes it is the sequence of `Linker`. `NoWildPointer`, `AddsAreHarmless`: what it takes for memory to be misused. `CallsEnd`: while changes take turns no walk is endless |
| `open` | 3 processes, 2 threads each, plain files of 0, 2 and 3 pages, 4 opens, 1 write, a failing rename | `TextKept`, `ViewKept`, `DescriptorIsFile`: nothing is lost while no file is rebuilt out of turn, and what is written to a file that stayed plain reads as its cipher text for everybody. `OpenReturns` |
| `open_claim` | 2 processes, plain files of 1 and 3 pages | violated: see Findings |
| `policy` | a user's process, the media server and another system process; domains 0, 10 and 110, up to two entries for 1, 10 and 110, one of them with the state 10; 2 changes during the call | `PersonalExact`, `AnswerWasTrue` |
| `daemon` | 2 clients, one of which may stay silent, 5 requests, 3 kinds of junk, 2 files, 2 failures, 3 changes | `WholeRequestServed`, `ClientsServed`, `RestoredForGood` |

**Bounds, and why they are enough.**

- Blocks of three cells have a start, a middle and an end; with offsets and counts
  up to `MaxLen` every alignment of both window ends occurs, and files of header plus
  up to five cells hold an incomplete block, a complete one, and both.
- In `contract`'s cipher every cell of the cipher text depends on every cell of the
  block (`MCEncrypt`), so a block decrypted from mixed parts is seen to be wrong.
- Two descriptors are the fewest that share a file, a description (`dup`) or leave
  the table full; the list has at most three entries (`MaxInfo`), one more than there
  can be true ones.
- `contract` (`MCTyped`): four names with both kinds of common beginning (".doc" and
  ".docx", ".mp4" and ".mp4.tmp"); six pieces (`MaxPieces`) hold a name twice, and a longer one behind a
  shorter one. `MaxPos` ends the reading of a stream two blocks behind the longest file.
  The three parts of the instance share no variable, so each takes steps only while the
  others have not begun.
- `rebuild`: three threads are a first, a last and one between, which is all the code
  tells apart. 1..36 cells runs from the in-place sizes (up to 12) to shares of three
  pages. From six pages on, the rounded shares of all but the last never exceed the size,
  so the last thread always has a share and no new case appears. `IntLimit` of 48 cells
  stands for 2^31: the rebuilt file crosses it from 45 cells on, the original from 48, and
  with 63 the last thread's offset. With 142 cells the shares themselves reach it, all but
  that of the last thread, with 145 all of them, and with 301 all wrap to a small positive
  number, from which a thread counts what it has to do (`Lost`).
- `rebuild`, the sizes for which calls fail: one rebuilt in place, one whose end is misplaced, one
  whose end falls into the share of the last thread, one of whole pages and one with a tail
  in the last share. Three failures (`MaxFaults`) let two threads fail and something else
  besides. Two descriptors for each thread and one for a check are enough for all; with
  1 to 3 threads fail for want of one, and three are the fewest for which `Returns` holds.
- `rebuild_claim`: four threads, as in the code (`THREADS_COUNT`).
- `steps`: `MaxCalls` of 4 lets a write overlap one call, and another call see what is
  left. The payloads are less than a block, a block, and two in part; `MaxLen` of 12
  is the header and three blocks.
- `list`: two additions, a removal and a search are the fewest with which the wrong
  link back that two overlapping additions leave is followed (`RacedCalls` 4); and
  the third node is what an addition needs to find the last node freed (`add_publish`).
- `list`, `CallsEnd`: a walk goes round for ever only after a search was left standing on a node
  that was taken out and used again, while another node pointed to it. With changes that
  overlap this takes six calls (two additions, a removal of the first beside the second,
  an addition that gets the free node, a search that stands on it, the removal of what
  points to it); `MaxCalls` 7 is one call more. The constraint `RacedBound` cuts off, after
  four calls, what follows an overlap, where `CallsEnd` is true by its condition, and what
  uses the third node, which such a walk does not need.
- `open`: three processes, so that one comes late to a rebuild while another holds the
  file; sizes of none, of the in-place form and of the threads' form. `MaxOpens` 4 gives
  one process a second call after the others. The constraint `InTurn` cuts off what
  follows a rebuild out of turn: every property of the run is true of such states by
  its condition, `OpenReturns` included, since `clash` stays true.
- `policy`: `MaxWrites` of 2 is one more than the property allows for.
- `daemon`: the bounds on failures and changes make them stop in the end, as a
  property about what is reached when they do requires. The two processes share
  nothing, so the constraint `OneAtATime` looks at clients when `fork` has failed and at
  files when it has not; it cuts off only steps no fairness demands. Texts are far
  shorter than the 256 bytes of the package.

`CHECK_DEADLOCK FALSE` is set where the system really stops: the runs of `Rebuild` (the function has
returned, the process was killed, or the threads wait for a header or a descriptor that
does not come: the code spins, the model waits), `list`, `steps`, `open`, `policy` and
the streams of `contract` (all calls the bounds allow are made, or the process was killed
or followed a wild pointer), and `daemon` (server dead and no child). The runs `anyuse`
and `toggle` of `Linker` are checked for deadlock.

**Fairness.** Weak fairness for what the operating system runs: in `Rebuild` the calling
thread and each copying thread, in `InfoList` each thread inside a call, in `OpenRace` each
process inside `open` and each of its threads, in `Daemon` both processes. None of them
waits for a lock. The runs that check no liveness assume no fairness. Nothing obliges a
process to begin a call, a client to connect, others to change anything, or a fault to
happen. The spin loops need only that the header stays
once it is written. In `Daemon` the clients that are not `Silent` say something or leave;
of the silent one nothing is assumed.

**Findings.** Three runs are expected to be violated, each by what the code says of
itself.

`rebuild_claim`: `open` logs "rebuild file struct, success"
(`ports/linker.c:508`) though the end of the file was lost. Shares are rounded up to
whole pages, so the file can end within the share of the last thread but one. That
thread's loop reads a short page, does not advance its offset (line 121) and writes
the page where the *previous* one belongs (line 131; the advance also accounts for the
header). With four threads and 4096-byte pages this hits the sizes 16388-24575 bytes
except 20480, and 32772-36863. `RebuiltExact` states exactly which cells are affected,
`GoodSize` which sizes are not.

`open_claim`: `open` logs the same success when two processes have rebuilt one file at the
same time. Both have found no header (lines 440-464) and no "`<path>.s`" (503) before
either wrote anything, and no lock is taken. A file of up to four pages is then
encrypted twice, behind two headers; the threads of a larger one read or write what the
other process is replacing. `TextKept` says that this is the only way in which opening
can change the text, apart from writes to a copy that is being replaced.

`getfid_claim`: `getfid` looks for the ending of a path with `strchr`, which finds the first
dot (`init/ftype.c:86`), and compares all that follows; the comment above it
(`init/ftype.c:85`) describes the last. A path with an earlier dot has no type for it:
`TablesAgree` says that these are the only paths for which it differs from the look-up of
`ports/ftype.c`.

Three more things are stated as conditions of properties rather than as findings. A
user's process may be trusted under one domain and given the state of another when the
domain is switched between two reads (`AnswerWasTrue`). A domain's digits are found in
longer numbers and in states (`PersonalExact` says what that makes of a text: in
"110:1,10:0" domain 10 gets the state of domain 110). And a search that overlaps a
removal may follow a freed node; once two changes of the list have overlapped any call
may, or may go round for ever (`NoWildPointer`, `CallsEnd`).

## 4. Proofs

Checked by `tlapm`. The assumptions are the named `ASSUME`s of the modules:
`LayoutAssumption`, `HeaderAssumption`, `CipherAssumption` (blocks, a header of whole
blocks, a permutation of blocks), `LinkerAssumption`, `StepsAssumption`,
`StreamReadAssumption`, `RebuildAssumption`, `OpenRaceAssumption`, `InfoListAssumption`, `PolicyAssumption`,
`FileTypeAssumption`, `TableAssumption`, `DaemonAssumption`. TLC evaluates them on the
runs. No theorem has a further hypothesis, except `ListTrue` (encryption is never
switched off) and the two about the intended use. The bounds of the runs (`MaxLen`,
`MaxCalls` and so on) are arbitrary numbers in the theorems.

| theorem | states |
|---|---|
| `DecryptEncrypt` | `aes_decrypt(aes_encrypt(s)) = s` for every buffer, the incomplete block included |
| `SealedFormExact` | a rebuilt small file is sealed and shows what it held |
| `CollectedExact` | the head, data and tail `read` and `fread` put together, decrypted, are the window of the decrypted file |
| `TypeCorrect` | `Spec => []TypeOK` (in `Linker`) |
| `ListKeptTrue` | `Spec => TrackingKept` |
| `ListTrue` | `~Toggles => (Spec => []TrackingExact)` |
| `HeaderSafe` | `Spec => HeaderLostOnlyBelow` |
| `ReadsPlainText` | `Spec => []ReadExact` |
| `SizesTrue` | `Spec => []SizesAgree` |
| `NeverLetsGo` | `IntendedUse => (Spec => []AlwaysTranslated)` |
| `PromiseKept` | `IntendedUse => (Spec => KeepsPromise)`: `Linker` implements `PlainFiles` |
| `ReadsRight` | `Spec => ReadsExact` (in `LinkerSteps`) |
| `DamageStays` | `Spec => []DamageContained` |
| `ReadsWhole` | `Spec => ReadsAsWhole` |
| `StepsMakeCalls` | `Spec => StepsAreCalls`: `LinkerSteps` implements `Linker` while calls do not overlap |
| `ReadsText`, `ReadsAll` | `StreamSpec => []ReadsOnText`, `StreamSpec => []Drained` (in `StreamRead`) |
| `OriginalSafe`, `TypesRight`, `RebuildsRight` | `Spec => []OriginalKept`, `[]TypeOK`, `[]RebuiltExact` (in `Rebuild`) |
| `DescriptorStays`, `TextStays`, `ViewStays` | `Spec => []DescriptorIsFile`, `[]TextKept`, `[]ViewKept` (in `OpenRace`) |
| `AddsSafe` | `Spec => []AddsAreHarmless` (in `InfoList`) |
| `ListInOnePiece`, `PointersSafe`, `SearchesRight` | `Spec => []ListIsSequence`, `[]NoWildPointer`, `QueryAnswers` |
| `AnswerRight`, `EntriesUnderstood` | `Spec => AnswerWasTrue`, `Spec => []PersonalExact` (in `Policy`) |
| `TypeIsRight`, `LookUpsAgree` | `[]TypeIsEnding`, `[]TablesAgree` (in `FileType`) |
| `RequestServed` | `Spec => []WholeRequestServed` (in `Daemon`) |

### 4.1 The format, and reading

Everything that is read through the layer rests on `CollectedExact`: the three windows
the code reads, from the beginning of the first touched block, are one window of the
stored file, and the end of it is either the end of a block or the end of the file, so
that decrypting the buffer alone treats an incomplete block as decrypting the whole
file does. `ReadsPlainText` is that lemma for the single step of `Linker`. For `fread` the
invariant is `Delivered`: what has been delivered since the last `fseek` is the text
from there to where the stream stands, wherever in the header it began.

### 4.2 Linker

`TypeOK` is inductive: it contains that open descriptors lead to existing files. The
lemma `KernelOpenKeeps` says what a kernel open leaves alone, and is shared by the five
ways of `open`. `TrackingExact` is not inductive, because `close` with encryption off
leaves its entry behind; the invariant behind `ListTrue` is `TypeOK /\ TrackingExact /\
protected`, and `ListKeptTrue` is its inductive step, which holds also when the switch is
used. It rests on `AddKeepsTrue` (a free number gets one entry), `RemoveKeepsTrue` (close
removes the one entry) and `SameListTrue`. `HeaderSafe` rests on `OverlaySealed` (a write
behind the header keeps it) and `BlockBehindHeader`: a position behind the header lies in
a block behind the header because the header is a whole number of blocks, so the prefix
that `write` puts back does not reach into it.

`AlwaysTranslated` alone is not inductive either. That `open` finds the header needs a
descriptor to spare and no empty files; that `close` lets go of one descriptor only
needs the list to be true; that nobody is led below the header needs descriptions that
are not shared. The invariant is `Promised == TypeOK /\ TrackingExact /\ AsIntended /\
AlwaysTranslated`. `PromiseKept` is proved from it action by action: the five ways of
`open` are `Open` of a handle or nothing at all, `read` and `lseek` move the handle by the same
distance, and `write` is `Write`. The last is the long one: `BodyWritten` says what the two
kernel writes make of the plain contents, exactly when the boundaries are good and
within the touched blocks otherwise, and `FileWritten` carries it to the file.

### 4.3 LinkerSteps

Three invariants for four properties, each checked on the way to a proof that speaks of
the calls only.

- `ReadsRight`: as long as nobody has interfered, the descriptor stands where the read
  began and the pieces in its buffer are what the file holds there *now* (`Collecting`). A
  step of another thread keeps that, because a write changes only the blocks in its
  `touch` and marks the reads of these as disturbed.
- `DamageStays`: `DamageInv` says of every block not given up that it is `Right` if no write
  touches it; if one does, what that write has yet to do about it is right: either it covers
  the block, which nobody has changed so far, or it writes a part of it, and then the
  block is not complete in the file and what the thread holds in `buf` is its head
  (`InPart`). That two writes in progress share only blocks given up is part of it
  (`Exclusive`).
- `ReadsWhole` and `StepsMakeCalls`: `InProgress` says how far a lone call has come from the
  file and the offsets it began with, so that its last step is the step of `Linker`, and
  all others are invisible in `Whole`.

### 4.4 Rebuild

`OriginalSafe` needs only that the size does not change and that nothing but the join
writes to the name. `RebuildsRight` and `TypesRight` hold for every size, page, block,
number of threads from three on, and limit of `int` that is whole pages. Their invariant
`IInv` has two halves.

- What is *not wrong*: `Sound` says of every cell of "`<path>.s`" that it is the right one,
  not yet written, or in the misplaced end of a file whose size is not good. It holds of
  every thread, also of one whose offset or share has wrapped: whatever a thread reads at
  an offset of whole pages it stores a page further on, where it belongs (`StoredRight`,
  with `SameBlocks` for the last incomplete block), or nowhere, if that is beyond an `int`
  (`NextPlace`); and a short read before the end happens only when the size is not good
  (`OneRound`, `StoredBad`). So threads never have to be shown to stay in their shares:
  wherever they go, they do no harm.
- What is *there*: `Working` says how far each thread is. One that copies has stored
  everything from its start to where it would be if all pages had been complete
  (`Reached`), and its offset is that place or, when that is no `int`, negative
  (`Copying`); one that has ended has stored its share (`Copied`, from `PagesStored`). That
  no thread's work is undone is `Grows`: once a cell is stored it stays, since thread 0
  creates the file before anybody copies (`HeaderFirst`).

A write that fails or falls short stores nothing or a beginning of what it was given
(`PwriteStores`), which is harmless in the same way, and `failed` says whose call it was:
what is there is promised of threads without a failure of their own (`Unharmed`). Nobody
copies before the header is whole, so that no failure before lets a thread out of its
wait, and from then on the size is that given to `ftruncate`, unless that failed
(`HeaderFirst`).

At the join every cell has an owner (`Owner`), who has ended or is in `failed`, and the two
halves meet in `CopyExact`. The proof corrected the property. `RebuiltExact` used to promise
the share of every thread created, and that promise is not kept for shares that an `int`
cannot hold. Sizes that show it have been in the run `rebuild` since (142, 145 and 301), and
`Lost` names such shares. In return the property says now of every cell, the lost ones
included, that it is right, a hole or misplaced.

### 4.5 OpenRace

Both invariants hold as long as there is no `clash`, for any number of processes, threads
and pages. `Process` needs no assumption, not even that it is finite.

- `Control`: who may be where when something is under the two names. A "`<path>.s`" lies
  beside a plain file and nobody holds it (`SecureAside`); a process that rebuilds is alone,
  and whoever else has the file open came late (`Alone`); a call that has found the file
  unheaded and is about to give it a header still has the file under the path (`HasFile`);
  a recorded descriptor means a headed file, unless the rename failed (`RecordedHeaded`);
  the first thread makes the copy and its header before the others leave their wait
  (`Stages`). None of these is inductive alone: the rename is harmless because of `Alone`,
  `Alone` stays true because of what a call knows from its `access` and its header check
  (`CallKnows`), and that because of `SecureAside`. `DescriptorIsFile` is a part of it.
- `PlainFiles`: what a descriptor leads to that was not recorded has no header, and nobody
  is about to give it one. Without it a page written through such a descriptor, at the
  beginning of the file, could take the place of a header.
- `Content`, while no page has strayed: the file reads as the text, a small rebuild holds
  the text in its buffer, and each thread of a large one has copied its share up to its
  offset, encrypted once (`Copied`, `Place`), so that at the join the shares make up the file.
  A caller that came late has the plain file, which is the text until somebody writes
  (`LateReads`). `TextKept` follows, and `ViewKept` with `Control`: what the descriptor was
  recorded as (`Translated`) is what the file is.

A step is one process's, so each action's proof says what becomes of that process and
of the two names; `StepKept` (control) and its counterpart for the data derive from it
that all other processes keep their parts.

### 4.6 The list, the policy, the types, the daemon

*InfoList.* Before the first removal the invariant is `Harmless`: whatever can be reached
from the head or a walk has been given its link forward. For calls that take turns it is
`Ring` (the links are the sequence of entries, forwards, and backwards but for the one node
a change has in hand), `Apart` (calls are about different descriptors) and `Quiet` (an
undisturbed search overlaps no removal). `NoWildPointer` is a part of it.

*Policy.* The property speaks of the step that answers; what makes it true is a fact of
every moment before: the answer to which the rest of the call would lead if nothing
changed any more (`Outcome`) has been right already. A step of the call keeps that
answer. That it survives the first change needs that until then everything read still
holds (`ReadHolds`).

`PersonalExact` speaks of the text of the entries, which two recursive functions put together,
one for the digits of a number and one for the entries. The inductions are made with the
least number for which the claim would be wrong (`LeastOf`, from the library's `WFMin`).
This way each recursion is shown to define a function (`DigitsUpTo`, `TextUpTo`), a number to
have digits that are all 0 only for 0 (`DigitsAre`), and the text to be `Readable`: the entries
stand one behind the other, each with the digits of its domain, a colon and those of its
state, and there are no digits besides. A needle of digits can stand only within one number
(`MatchWithin`), since every number ends at a colon, a comma or the end. So the first place
where it is found lies in the first entry that has it, in the domain if it is there
(`FirstHolding`), and from there `sscanf` reads the state (`FromDomain`), or nothing
(`FromState`).

*FileType.* Both look-ups are the first place and the first entry; `LeastOf` (a non-empty
set of positive numbers up to a bound has a least one) makes them exist, and what has to be
shown is that a path that ends in a name holds it first there exactly when it holds it
once, and that no other name can fit.

*Daemon.* What the server has made of the package still belongs to the request
(`FromRequest`), whatever lay in the buffer: the text of a whole request has a NUL, so
`UpToNUL` cuts the rest off.

The inductive invariants were checked by TLC, as invariants of the instances of section 3,
before they were proved; `WholeInv` was not, only what follows from it (`StepsAreCalls`,
`ReadsAsWhole`).

### 4.7 Model-checked only

Every safety property of the passing runs, state or action, and both refinements are
proved. What stays with TLC is liveness: `Returns`, `CallsEnd`, `OpenReturns`,
`ClientsServed` and `RestoredForGood` need fairness and `ENABLED`, which are out of the
prover's reach. The three runs that expect a violation each show a disagreement and leave
nothing to prove.

## 5. Not modelled, and why

- Loader and USB state: their only effect is to make every call fail, and their
  writers are not called in the repository.
- The init, usb, user and crypto libraries: stateless getters and empty constructors
  without callers. Build files and the test program: no behaviour of the layer.
- `file_info_list_deinit` and `is_security_directory` are called nowhere;
  `is_support_file_type_by_path` and its companion are not defined.
- A configuration file without a colon, which makes `strtok` return `NULL`: nothing in
  the repository says what such a file may hold. `Policy` has well-formed ones only.
- Descriptors of pipes and sockets, which `write` translates too.
- A build in which `off_t` has 32 bits: `Rebuild` has the `int`s of the code and a wide
  `off_t`.
- In the daemon, the signal handler and the timer, which are commented out or never
  installed.
- AES: an arbitrary permutation of blocks. The fields of the header that no code reads.

## 6. Plan

Done: all modules of section 2, and a proof of every safety property of the runs.

Possible next, most important first:

1. `OpenRace` with sizes that are no whole pages, as `Rebuild` has them, and with threads
   that fail to open the file.
2. The composition of `Policy` with `LinkerSteps`, so that protection may change while a
   call is under way; today `Linker` has it change between calls.
