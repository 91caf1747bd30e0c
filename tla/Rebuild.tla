------------------------------ MODULE Rebuild -------------------------------
(***************************************************************************)
(* rebuild_file_struct (ports/linker.c): a plain file becomes an encrypted *)
(* one.  A file of at most THREADS_COUNT pages is overwritten in place.  A *)
(* larger one is copied by THREADS_COUNT threads into "<path>.s", which is *)
(* then renamed over it.  Every thread waits, spinning, until thread 0 has *)
(* put a header into "<path>.s".                                           *)
(*                                                                         *)
(* A stored cell is known by the plain cell it was made from and whether   *)
(* that was encrypted, so that a misplaced, missing or overwritten cell    *)
(* can be told.  Faults are the failures of system calls that the code     *)
(* goes on after; a thread also fails when the process has no descriptor   *)
(* left.  What the threads are told about the file is of type int, which a *)
(* large file does not fit; off_t and size_t are wide enough.              *)
(***************************************************************************)
EXTENDS Integers, FiniteSets

CONSTANTS
  THREADS_COUNT,
  Page,      \* 4096: the copy buffer, and FILE_HEADER_POLL_SIZE
  Block,     \* AES_BLOCK_SIZE
  IntLimit,  \* 2^31: one more than the largest int
  Sizes,     \* sizes of the file to be rebuilt
  Faults,    \* for each size the faults there may be
  MaxFaults, \* bound: threads and kinds of faults in one rebuild
  Spares     \* for each size the descriptors the process may have left

\* "create": a thread, "header": "<path>.s" or its header, "size": the ftruncate
\* of "<path>.s", "open", "read", "write": calls of a copying thread (or of the
\* rebuild in place), "short": the write of a rebuild in place.
Kind == {"create", "header", "size", "open", "read", "write", "rename", "short", "crash"}

ASSUME RebuildAssumption ==
  /\ THREADS_COUNT \in Nat /\ THREADS_COUNT >= 3
  /\ Page \in Nat \ {0} /\ Block \in Nat \ {0} /\ Page % Block = 0
  /\ IntLimit \in Nat \ {0} /\ IntLimit % Page = 0
  /\ Sizes \subseteq Nat \ {0}
  /\ Faults \in [Sizes -> SUBSET Kind]
  /\ Spares \in [Sizes -> SUBSET Nat]

Thread == 0..(THREADS_COUNT - 1)
Last == THREADS_COUNT - 1

VARIABLES
  tsize,   \* the size of the plain file, as open found it
  file,    \* the cells found under the path
  secure,  \* the cells of "<path>.s"; no cells when there is no such file
  main,    \* the calling thread: "call", "create", "join", "done", "crashed"
  result,  \* what rebuild_file_struct returns
  pc,      \* where each thread is
  offset,  \* local variable of pthread_rfs_run
  bsize,   \* local variable of pthread_rfs_run
  spare,   \* descriptors the process has left
  failed   \* history: the faults there were, as <<kind, thread>>

vars == <<tsize, file, secure, main, result, pc, offset, bsize, spare, failed>>

-----------------------------------------------------------------------------
(* Cells and files.                                                        *)

Hole == [from |-> -1, enc |-> FALSE]
Head == [from |-> -1, enc |-> TRUE]
Copy(k, enc) == [from |-> k, enc |-> enc]

\* A file of n cells, numbered from 0.
Cells(n) == 0..(n - 1)
Original == [k \in Cells(tsize) |-> Copy(k, FALSE)]
NoFile == [k \in {} |-> Hole]

\* Encryption of n cells stops at the last complete block.
InBlock(k, n) == k < n - (n % Block)

\* What the rebuilt file has to be.
Rebuilt == [k \in Cells(tsize + Page) |->
              IF k < Page THEN Head ELSE Copy(k - Page, InBlock(k - Page, tsize))]

Min2(a, b) == IF a <= b THEN a ELSE b

\* The number as an int.
AsInt(n) == ((n + IntLimit) % (2 * IntLimit)) - IntLimit

\* is_encrypted_by_path(path) == FILE_TYPE_RIGHTS
Headed == /\ Cells(Page) \subseteq DOMAIN secure
          /\ \A k \in Cells(Page) : secure[k] = Head

\* Mutant: shares are not rounded up to whole pages.
AverageMut == tsize \div THREADS_COUNT

\* The share of a thread: size / THREADS_COUNT rounded up to whole pages.
Average ==
  LET average == tsize \div THREADS_COUNT
  IN  average + ((Page - (average % Page)) % Page)

\* args[i].bsize: what the last thread has left to do may be negative.
Share(t) == IF t < Last THEN Average ELSE tsize - Average * t

\* Mutant: a full page is assumed.
CountMut(at) == Page

\* pread(ofd, buff, 4096, at): how many cells there are to read; -1 for a negative
\* position, which is an error.
Count(at) == IF at < 0 THEN -1 ELSE IF at >= tsize THEN 0 ELSE Min2(Page, tsize - at)

\* "<path>.s" when n of the count encrypted cells read at "from" have been written
\* at "to"; nothing is written at a negative position.
Stored(from, count, n, to) ==
  [k \in DOMAIN secure \cup Cells(IF to >= 0 /\ n > 0 THEN to + n ELSE 0) |->
     IF to >= 0 /\ to <= k /\ k < to + n
     THEN Copy(from + (k - to), InBlock(k - to, count))
     ELSE IF k \in DOMAIN secure THEN secure[k] ELSE Hole]

WithHeader(n) ==
  [k \in DOMAIN secure \cup Cells(n) |-> IF k < n THEN Head ELSE secure[k]]

Note(kind, t) == failed' = failed \cup {<<kind, t>>}
MayFail(kind) == kind \in Faults[tsize] /\ Cardinality(failed) < MaxFaults
Fault(kind, t) == MayFail(kind) /\ Note(kind, t)

\* open gives a descriptor, or it fails, as it must when none is left.
Granted == spare > 0 /\ spare' = spare - 1
Refused(kind, t) == (spare = 0 \/ MayFail(kind)) /\ Note(kind, t) /\ UNCHANGED spare

-----------------------------------------------------------------------------
(* The calling thread.                                                     *)

\* The whole small file is read, encrypted and written back with one pwrite,
\* which may be cut short: the function then returns 0.
RebuildSmall ==
  /\ main = "call" /\ tsize <= Page * THREADS_COUNT
  /\ main' = "done"
  /\ \/ spare > 0 /\ file' = Rebuilt /\ result' = 1 /\ UNCHANGED <<spare, failed>>
     \/ /\ spare > 0 /\ Fault("short", 0) /\ result' = 0 /\ UNCHANGED spare
        /\ \E n \in Cells(tsize + Page) :
             file' = [k \in Cells(IF n > tsize THEN n ELSE tsize) |->
                        IF k < n THEN Rebuilt[k] ELSE Original[k]]
     \/ spare > 0 /\ Fault("read", 0) /\ result' = 0 /\ UNCHANGED <<file, spare>>
     \/ Refused("open", 0) /\ result' = 0 /\ UNCHANGED file
  /\ UNCHANGED <<tsize, secure, pc, offset, bsize>>

StartThreads ==
  /\ main = "call" /\ tsize > Page * THREADS_COUNT
  /\ main' = "create"
  /\ UNCHANGED <<tsize, file, secure, result, pc, offset, bsize, spare, failed>>

\* One round of the loop over pthread_create, which goes on after a failure.
CreateThread(t) ==
  /\ main = "create" /\ pc[t] = "unborn"
  /\ \A u \in Thread : u < t => pc[u] # "unborn"
  /\ main' = IF t = Last THEN "join" ELSE main
  /\ \/ /\ pc' = [pc EXCEPT ![t] = "begin"]
        /\ UNCHANGED failed
     \/ /\ Fault("create", t)
        /\ pc' = [pc EXCEPT ![t] = "absent"]
  /\ offset' = [offset EXCEPT ![t] = AsInt(Average * t)]
  /\ bsize' = [bsize EXCEPT ![t] = AsInt(Share(t))]
  /\ UNCHANGED <<tsize, file, secure, result, spare>>

\* Only the path returned by the last thread counts.  A rename that fails is
\* not noticed.
JoinThreads ==
  /\ main = "join"
  /\ \A t \in Thread : pc[t] \in {"absent", "null", "path"}
  /\ main' = "done"
  /\ IF \E t \in Thread : pc[t] = "path"
     THEN /\ result' = 1
          /\ \/ file' = secure /\ secure' = NoFile /\ UNCHANGED failed
             \/ Fault("rename", Last) /\ UNCHANGED <<file, secure>>
     ELSE result' = 0 /\ UNCHANGED <<file, secure, failed>>
  /\ UNCHANGED <<tsize, pc, offset, bsize, spare>>

-----------------------------------------------------------------------------
(* pthread_rfs_run.                                                        *)

Goto(t, from, to) == pc[t] = from /\ pc' = [pc EXCEPT ![t] = to]

\* Mutant: the plain file is removed instead.
CreateSecureMut ==
  /\ Goto(0, "begin", "header") /\ Granted
  /\ secure' = [k \in Cells(tsize + Page) |-> Hole]
  /\ file' = NoFile
  /\ UNCHANGED <<tsize, main, result, offset, bsize, failed>>

\* Thread 0 removes "<path>.s", creates it and sets its size, as far as the size
\* is no negative number.  When it cannot create the file, it goes to wait like
\* the others.
CreateSecure ==
  /\ \/ /\ Goto(0, "begin", "header") /\ Granted
        /\ \/ secure' = [k \in Cells(AsInt(tsize) + Page) |-> Hole] /\ UNCHANGED failed
           \/ secure' = NoFile /\ Fault("size", 0)
     \/ Goto(0, "begin", "wait") /\ Refused("header", 0) /\ secure' = NoFile
  /\ UNCHANGED <<tsize, file, main, result, offset, bsize>>

\* Mutant: the header is not written.
WriteHeaderMut ==
  /\ Goto(0, "header", "wait") /\ spare' = spare + 1
  /\ UNCHANGED <<tsize, file, secure, main, result, offset, bsize, failed>>

\* The result of the pwrite is not looked at.  A header cut short is none: what
\* tells a header, kernel.file_type, is at its end.
WriteHeader ==
  /\ Goto(0, "header", "wait") /\ spare' = spare + 1
  /\ \/ secure' = WithHeader(Page) /\ UNCHANGED failed
     \/ Fault("header", 0) /\ \E n \in Cells(Page) : secure' = WithHeader(n)
  /\ UNCHANGED <<tsize, file, main, result, offset, bsize>>

SkipHeader(t) ==
  /\ t # 0 /\ Goto(t, "begin", "wait")
  /\ UNCHANGED <<tsize, file, secure, main, result, offset, bsize, spare, failed>>

\* Mutant: the threads do not wait for the header.
LeaveLoopMut(t) ==
  /\ spare > 0 /\ Goto(t, "wait", "old")
  /\ UNCHANGED <<tsize, file, secure, main, result, offset, bsize, spare, failed>>

\* The spinning loop ends.  The check opens "<path>.s" for a moment, and takes it
\* for a file without a header when it has no descriptor for that.
LeaveLoop(t) ==
  /\ Headed /\ spare > 0 /\ Goto(t, "wait", "old")
  /\ UNCHANGED <<tsize, file, secure, main, result, offset, bsize, spare, failed>>

\* The plain file is opened, then "<path>.s".  When the second open fails, the
\* first descriptor is not closed.
Open(t, from, to) ==
  /\ \/ Goto(t, from, to) /\ Granted /\ UNCHANGED failed
     \/ Goto(t, from, "null") /\ Refused("open", t)
  /\ UNCHANGED <<tsize, file, secure, main, result, offset, bsize>>

\* linker_pwrite(nfd, buff, count, to), whose result is not looked at: it may
\* store less than it is given.
Pwrite(t, from, count, to) ==
  \/ secure' = Stored(from, count, count, to) /\ UNCHANGED failed
  \/ Fault("write", t) /\ \E n \in Cells(count) : secure' = Stored(from, count, n, to)

\* pread fails, which is not noticed: the offset stays, and the pwrite of -1 bytes
\* fails too.
ReadFails(t) == Fault("read", t) /\ UNCHANGED <<offset, secure>>

\* One page: the offset moves on before the page is written, which accounts
\* for the header; after a short read it does not move.
CopyPage(t) ==
  /\ pc[t] = "copy" /\ bsize[t] >= Page
  /\ bsize' = [bsize EXCEPT ![t] = @ - Page]
  /\ \/ LET count == Count(offset[t])
            to    == IF count = Page THEN AsInt(offset[t] + count) ELSE offset[t]
        IN  /\ offset' = [offset EXCEPT ![t] = to]
            /\ Pwrite(t, offset[t], count, to)
     \/ ReadFails(t)
  /\ UNCHANGED <<tsize, file, main, result, pc, spare>>

\* What the last thread has left of the file, less than a page.
CopyTail(t) ==
  LET count == Count(offset[t])
  IN  \/ /\ count > 0
         /\ offset' = [offset EXCEPT ![t] = AsInt(@ + Page)]
         /\ Pwrite(t, offset[t], count, AsInt(offset[t] + Page))
      \/ count <= 0 /\ UNCHANGED <<offset, secure, failed>>
      \/ ReadFails(t)

\* The loop is done: the last thread copies the rest.  Both files are closed.
CopyRest(t) ==
  /\ bsize[t] < Page /\ spare' = spare + 2
  /\ \/ t = Last /\ Goto(t, "copy", "path") /\ CopyTail(t)
     \/ t # Last /\ Goto(t, "copy", "null") /\ UNCHANGED <<offset, secure, failed>>
  /\ UNCHANGED <<tsize, file, main, result, bsize>>

OpenBoth(t) == Open(t, "old", "new") \/ Open(t, "new", "copy")
Run(t) == SkipHeader(t) \/ LeaveLoop(t) \/ OpenBoth(t) \/ CopyPage(t) \/ CopyRest(t)
Run0 == CreateSecure \/ WriteHeader \/ Run(0)

\* The process is killed: none of its threads does anything more.
Crash ==
  /\ main \notin {"done", "crashed"} /\ Fault("crash", 0)
  /\ main' = "crashed"
  /\ pc' = [t \in Thread |-> "absent"]
  /\ UNCHANGED <<tsize, file, secure, result, offset, bsize, spare>>

-----------------------------------------------------------------------------
Init ==
  /\ tsize \in Sizes
  /\ file = Original
  /\ secure = NoFile
  /\ main = "call"
  /\ result = 0
  /\ pc = [t \in Thread |-> "unborn"]
  /\ offset = [t \in Thread |-> 0]
  /\ bsize = [t \in Thread |-> 0]
  /\ spare \in Spares[tsize]
  /\ failed = {}

Main == RebuildSmall \/ StartThreads \/ (\E t \in Thread : CreateThread(t)) \/ JoinThreads

Next == Main \/ CreateSecure \/ WriteHeader \/ (\E t \in Thread : Run(t)) \/ Crash

Spec == Init /\ [][Next]_vars

\* The operating system runs every thread that is not blocked.
FairSpec == Spec /\ WF_vars(Main) /\ WF_vars(Run0)
                 /\ \A t \in Thread \ {0} : WF_vars(Run(t))

-----------------------------------------------------------------------------
(* Properties.                                                             *)

\* Every variable holds a value of its kind; no write goes beyond the size that
\* "<path>.s" was given when it was created, or beyond what an int can say.
TypeOK ==
  /\ tsize \in Sizes
  /\ \A k \in DOMAIN file : file[k] \in [from : -1..(tsize - 1), enc : BOOLEAN]
  /\ \E n \in 0..(tsize + Page) :
       DOMAIN secure = Cells(n) /\ (n <= IntLimit \/ n = AsInt(tsize) + Page)
  /\ \A k \in DOMAIN secure : secure[k] \in [from : -1..(tsize - 1), enc : BOOLEAN]
  /\ main \in {"call", "create", "join", "done", "crashed"}
  /\ result \in {0, 1}
  /\ pc \in [Thread -> {"unborn", "absent", "begin", "header", "wait", "old", "new",
                        "copy", "null", "path"}]
  /\ offset \in [Thread -> (-IntLimit)..(IntLimit - 1)]
  /\ bsize \in [Thread -> (-IntLimit)..(IntLimit - 1)]
  /\ spare \in Nat
  /\ failed \subseteq Kind \X Thread

\* The threads cover the file without a short read before its end.
GoodSize == tsize % Page = 0 \/ Average * Last <= tsize \/ tsize <= Page * THREADS_COUNT

\* Cells a size that is not good costs: those after the last complete page,
\* and the page before it, which they are written over.
BadTail(k) == ~ GoodSize /\ k >= tsize - (tsize % Page) - Page

\* Cells of a thread that was never created, could not open its files, has failed
\* to read or write a page, or has to copy more than an int can say.
Lost(k) == \E t \in Thread :
             /\ \/ {<<"create", t>>, <<"open", t>>, <<"read", t>>, <<"write", t>>} \cap failed # {}
                \/ Share(t) >= IntLimit
             /\ Average * t <= k /\ (t < Last => k < Average * (t + 1))

\* When the rebuilt file takes the place of the plain one, each plain cell is at
\* its place and encrypted, unless a call of the thread in charge of it failed
\* (which is noticed only when the last thread cannot open its files), or it has a
\* share that no int can hold, the size is one of those for which the code copies
\* the end of the file to the wrong place, or its place is one that an int cannot
\* hold.  Whichever way the threads interleave, whatever fails and wherever an
\* overflow makes them copy, no thread harms the cells of another: what is not
\* right was never written.
RebuiltExact ==
  (result = 1 /\ \A t \in Thread : <<"rename", t>> \notin failed) =>
    /\ DOMAIN file \subseteq DOMAIN Rebuilt
    /\ (tsize + Page < IntLimit /\ <<"size", 0>> \notin failed) => DOMAIN file = DOMAIN Rebuilt
    /\ \A k \in DOMAIN file :
         file[k] \in {Rebuilt[k], Hole} \/ (k >= Page /\ BadTail(k - Page))
    /\ \A k \in Cells(Min2(tsize + Page, IntLimit)) :
         \/ k >= Page /\ (BadTail(k - Page) \/ Lost(k - Page))
         \/ k \in DOMAIN file /\ file[k] = Rebuilt[k]

\* A large file is never seen half rebuilt, whatever fails and whenever the
\* process is killed: the name leads to the plain file until all threads are
\* done, and an unsuccessful rebuild leaves the plain file.
OriginalKept ==
  tsize > Page * THREADS_COUNT =>
    file = Original \/ (main = "done" /\ result = 1)

\* rebuild_file_struct returns, as long as thread 0 is created and gives "<path>.s"
\* a header, and the process begins with a descriptor for each thread: then nobody
\* waits for a header that will not come, nor for descriptors lost by threads that
\* could open one file only.
HeaderWillCome == <<"create", 0>> \notin failed /\ <<"header", 0>> \notin failed
Returns ==
  spare >= THREADS_COUNT => <>(main \in {"done", "crashed"} \/ ~ HeaderWillCome)

\* What the log message of open says when the function has returned 1, "rebuild
\* file struct, success" (ports/linker.c:508): the file is rebuilt.
SuccessIsRebuilt == result = 1 => file = Rebuilt
=============================================================================
