------------------------------ MODULE OpenRace ------------------------------
(***************************************************************************)
(* open of ports/linker.c by processes that share nothing but the file     *)
(* system.  The call looks at the path (access), at the header, opens the  *)
(* file, looks for "<path>.s" and, when the file is plain, rebuilds it:    *)
(* each of these finds the path as others have left it.  One step is one   *)
(* system call; all but rename and what finds no file succeed (Rebuild.tla *)
(* is about the others).  A process may be killed at any time.             *)
(*                                                                         *)
(* Files are sequences of pages; a page is known by the page of the text   *)
(* it holds and by how many times it has been encrypted.  Sizes are whole  *)
(* pages.                                                                  *)
(* Headers differ in the name of the process only, and are one value here. *)
(***************************************************************************)
EXTENDS Integers, Sequences

CONSTANTS
  Process,
  THREADS_COUNT,
  Sizes,       \* pages of the plain file there may be at the start
  MaxOpens,    \* bound: calls of open
  MaxStores,   \* bound: pages written by the callers
  RenameFails  \* whether rename may fail

ASSUME OpenRaceAssumption ==
  /\ THREADS_COUNT \in Nat /\ THREADS_COUNT >= 2
  /\ Sizes \subseteq Nat /\ {MaxOpens, MaxStores} \subseteq Nat
  /\ RenameFails \in BOOLEAN

Worker == 0..(THREADS_COUNT - 1)
Last == THREADS_COUNT - 1
None == 0

VARIABLES
  data,      \* the files there have been, by inode
  path,      \* the inode the path leads to, or None
  secure,    \* the inode "<path>.s" leads to, or None
  call,      \* each process's call of open: its place and local variables
  worker,    \* the threads of its rebuild_file_struct
  opens,
  stores,
  text,      \* history: what the file has to read as
  late,      \* history: "<path>.s" was found while another process was rebuilding
  unrenamed, \* history: the rename failed
  strayed,   \* history: a page was written through a late or unrenamed descriptor
  clash      \* history: a file was rebuilt, or given a header, out of turn

disk == <<data, path, secure>>
history == <<text, late, unrenamed, strayed, clash>>
vars == <<disk, call, worker, opens, stores, history>>

-----------------------------------------------------------------------------
(* Pages and files.                                                        *)

Page(k) == [from |-> k, enc |-> 0]
Header == Page(-1)
Hole == Page(-2)
Stored == 100   \* the pages the callers write are numbered from here

Layers(s, n) == [i \in DOMAIN s |-> [s[i] EXCEPT !.enc = @ + n]]
Encrypted(s) == Layers(s, 1)
Decrypted(s) == Layers(s, -1)

\* is_encrypted_by_path(...) == FILE_TYPE_RIGHTS
Headed(s) == s # <<>> /\ s[1] = Header

\* pwrite of the pages new from page i on.
Put(s, i, new) ==
  LET end == i + Len(new) - 1
  IN  [k \in 1..(IF end > Len(s) THEN end ELSE Len(s)) |->
         IF k \in i..end THEN new[k - i + 1] ELSE IF k <= Len(s) THEN s[k] ELSE Hole]

Plain(s) == Decrypted(Tail(s))

\* What the next call of open finds under the path.
Reads == IF path = None THEN <<>>
         ELSE IF Headed(data[path]) THEN Plain(data[path]) ELSE data[path]

-----------------------------------------------------------------------------
(* Processes.                                                              *)

At(p, place) == call[p].pc = place
Idle == [pc |-> "idle", creat |-> FALSE, fs |-> FALSE, header |-> FALSE, fd |-> None,
         recorded |-> FALSE, size |-> 0, buffer |-> <<>>]
Returned(fd, recorded) == [Idle EXCEPT !.pc = "done", !.fd = fd, !.recorded = recorded]
NoWorker == [pc |-> "none", ofd |-> None, nfd |-> None, offset |-> 0, bsize |-> 0]

Done(p) == At(p, "done")
Rebuilding(p) == \/ call[p].pc \in {"size", "small_open", "small_read", "small_write", "join"}
                 \/ At(p, "reopen") /\ ~ call[p].recorded
Creating(p) == ~ call[p].fs /\ call[p].pc \in {"open", "new"}
Translated(p) == call[p].recorded \/ Headed(data[call[p].fd])
Others(p) == Process \ {p}

\* What the caller reads through its descriptor.
View(p) == IF Translated(p) THEN Plain(data[call[p].fd]) ELSE data[call[p].fd]

-----------------------------------------------------------------------------
(* open.                                                                   *)

Open(p, creat) ==
  /\ At(p, "idle") /\ opens < MaxOpens /\ opens' = opens + 1
  /\ call' = [call EXCEPT ![p] = [Idle EXCEPT !.pc = "access", !.creat = creat]]
  /\ late' = [late EXCEPT ![p] = FALSE] /\ unrenamed' = [unrenamed EXCEPT ![p] = FALSE]
  /\ UNCHANGED <<disk, worker, stores, text, strayed, clash>>

access_path(p) ==
  /\ At(p, "access")
  /\ call' = [call EXCEPT ![p].fs = (path # None),
                          ![p].pc = IF path # None THEN "check" ELSE "open"]
  /\ UNCHANGED <<disk, worker, opens, stores, history>>

check_header(p) ==
  /\ At(p, "check")
  /\ call' = [call EXCEPT ![p].header = Headed(data[path]), ![p].pc = "open"]
  /\ UNCHANGED <<disk, worker, opens, stores, history>>

\* The open that the caller asked for; it may create the file.
linker_open(p) ==
  /\ At(p, "open")
  /\ IF path = None /\ ~ call[p].creat
     THEN call' = [call EXCEPT ![p] = Idle] /\ UNCHANGED <<data, path>>
     ELSE /\ IF path = None
             THEN data' = Append(data, <<>>) /\ path' = Len(data')
             ELSE UNCHANGED <<data, path>>
          /\ call' = [call EXCEPT ![p] =
               IF @.fs /\ @.header THEN Returned(path', TRUE)
               ELSE [Idle EXCEPT !.pc = IF call[p].fs THEN "secure" ELSE "new", !.fd = path']]
  /\ UNCHANGED <<secure, worker, opens, stores, history>>

\* Mutant: the header is written behind what is there.
write_headerMut(p) ==
  /\ At(p, "new")
  /\ data' = [data EXCEPT ![call[p].fd] = Append(@, Header)]
  /\ call' = [call EXCEPT ![p] = Returned(@.fd, TRUE)]
  /\ clash' = (clash \/ ~ (data[call[p].fd] = <<>> \/ Headed(data[call[p].fd])))
  /\ UNCHANGED <<path, secure, worker, opens, stores, text, late, unrenamed, strayed>>

\* The path was free when the call looked: what is opened is taken for new.
write_header(p) ==
  LET file == data[call[p].fd]
  IN  /\ At(p, "new")
      /\ data' = [data EXCEPT ![call[p].fd] = Put(file, 1, <<Header>>)]
      /\ call' = [call EXCEPT ![p] = Returned(@.fd, TRUE)]
      /\ clash' = (clash \/ ~ (file = <<>> \/ Headed(file)))
      /\ UNCHANGED <<path, secure, worker, opens, stores, text, late, unrenamed, strayed>>

\* Mutant: "<path>.s" is not looked for.
access_secureMut(p) ==
  /\ At(p, "secure")
  /\ call' = [call EXCEPT ![p].pc = "size", ![p].fd = None]
  /\ late' = [late EXCEPT ![p] = secure # None /\ \E q \in Others(p) : Rebuilding(q)]
  /\ clash' = (clash \/ (secure = None /\ (Headed(data[path]) \/
                 \E q \in Others(p) : Rebuilding(q) \/ Creating(q) \/ (Done(q) /\ ~ Translated(q)))))
  /\ UNCHANGED <<disk, worker, opens, stores, text, unrenamed, strayed>>

\* A plain file is rebuilt, unless there is a "<path>.s".  It is out of turn if
\* the file has got a header since the call looked, or if another process is
\* rebuilding it, about to give it a header, or has it open as a plain file.
access_secure(p) ==
  /\ At(p, "secure")
  /\ \/ /\ secure # None /\ call' = [call EXCEPT ![p] = Returned(@.fd, FALSE)]
        /\ late' = [late EXCEPT ![p] = \E q \in Others(p) : Rebuilding(q)]
        /\ UNCHANGED clash
     \/ /\ secure = None
        /\ call' = [call EXCEPT ![p].pc = "size", ![p].fd = None]
        /\ clash' = (clash \/ Headed(data[path]) \/
             \E q \in Others(p) : Rebuilding(q) \/ Creating(q) \/ (Done(q) /\ ~ Translated(q)))
        /\ UNCHANGED late
  /\ UNCHANGED <<disk, worker, opens, stores, text, unrenamed, strayed>>

\* Mutant: the descriptor of the plain file is given back.
reopenMut(p) ==
  /\ At(p, "reopen")
  /\ call' = [call EXCEPT ![p] = Returned(1, @.recorded)]
  /\ UNCHANGED <<disk, worker, opens, stores, history>>

\* The rebuilt file is opened and recorded, one that was not is just opened.
reopen(p) ==
  /\ At(p, "reopen")
  /\ call' = [call EXCEPT ![p] = Returned(path, @.recorded)]
  /\ UNCHANGED <<disk, worker, opens, stores, history>>

-----------------------------------------------------------------------------
(* rebuild_file_struct.  Its result becomes call[p].recorded.              *)

Average(n) == (n + THREADS_COUNT - 1) \div THREADS_COUNT
Started(n) == [w \in Worker |->
  [NoWorker EXCEPT !.pc = IF w = 0 THEN "remove" ELSE "wait",
                   !.offset = Average(n) * w,
                   !.bsize = IF w < Last THEN Average(n) ELSE n - Average(n) * w]]

file_size(p) ==
  LET n == Len(data[path])
      place == IF n = 0 THEN "reopen" ELSE IF n <= THREADS_COUNT THEN "small_open" ELSE "join"
  IN  /\ At(p, "size")
      /\ call' = [call EXCEPT ![p].size = n, ![p].pc = place]
      /\ worker' = IF place = "join" THEN [worker EXCEPT ![p] = Started(n)] ELSE worker
      /\ UNCHANGED <<disk, opens, stores, history>>

small_open(p) ==
  /\ At(p, "small_open")
  /\ call' = [call EXCEPT ![p].fd = path, ![p].pc = "small_read"]
  /\ UNCHANGED <<disk, worker, opens, stores, history>>

small_read(p) ==
  LET file == data[call[p].fd]
  IN  /\ At(p, "small_read")
      /\ call' = [call EXCEPT ![p].pc = IF Len(file) < call[p].size THEN "reopen" ELSE "small_write",
                              ![p].buffer = SubSeq(file, 1, call[p].size)]
      /\ UNCHANGED <<disk, worker, opens, stores, history>>

small_write(p) ==
  /\ At(p, "small_write")
  /\ data' = [data EXCEPT ![call[p].fd] = Put(@, 1, <<Header>> \o Encrypted(call[p].buffer))]
  /\ call' = [call EXCEPT ![p].pc = "reopen", ![p].recorded = TRUE, ![p].buffer = <<>>]
  /\ UNCHANGED <<path, secure, worker, opens, stores, history>>

\* When the threads have ended, "<path>.s" is renamed if one of them returned its
\* name.  Whether rename succeeds is not looked at.
join_rename(p) ==
  /\ At(p, "join")
  /\ \A w \in Worker : worker[p][w].pc \in {"null", "path"}
  /\ LET result == \E w \in Worker : worker[p][w].pc = "path"
     IN  /\ call' = [call EXCEPT ![p].recorded = result, ![p].pc = "reopen"]
         /\ \/ /\ result /\ secure # None
               /\ path' = secure /\ secure' = None /\ UNCHANGED unrenamed
            \/ /\ result => secure = None
               /\ UNCHANGED <<path, secure, unrenamed>>
            \/ /\ result /\ secure # None /\ RenameFails
               /\ unrenamed' = [unrenamed EXCEPT ![p] = TRUE] /\ UNCHANGED <<path, secure>>
  /\ worker' = [worker EXCEPT ![p] = [w \in Worker |-> NoWorker]]
  /\ UNCHANGED <<data, opens, stores, text, late, strayed, clash>>

-----------------------------------------------------------------------------
(* pthread_rfs_run.                                                        *)

WAt(p, w, place) == At(p, "join") /\ worker[p][w].pc = place
WMove(p, w, place) == worker' = [worker EXCEPT ![p][w].pc = place]

secure_remove(p) ==
  /\ WAt(p, 0, "remove") /\ WMove(p, 0, "create")
  /\ secure' = None
  /\ UNCHANGED <<data, path, call, opens, stores, history>>

\* Another process may have made a "<path>.s" since: it is emptied.
secure_create(p) ==
  /\ WAt(p, 0, "create")
  /\ IF secure = None
     THEN data' = Append(data, <<>>) /\ secure' = Len(data')
     ELSE data' = [data EXCEPT ![secure] = <<>>] /\ UNCHANGED secure
  /\ worker' = [worker EXCEPT ![p][0].pc = "size", ![p][0].nfd = secure']
  /\ UNCHANGED <<path, call, opens, stores, history>>

\* ftruncate
secure_size(p) ==
  /\ WAt(p, 0, "size") /\ WMove(p, 0, "header")
  /\ data' = [data EXCEPT ![worker[p][0].nfd] =
                [k \in 1..(call[p].size + 1) |-> IF k <= Len(@) THEN @[k] ELSE Hole]]
  /\ UNCHANGED <<path, secure, call, opens, stores, history>>

\* Mutant: the header is not written.
secure_headerMut(p) ==
  /\ WAt(p, 0, "header") /\ WMove(p, 0, "wait")
  /\ UNCHANGED <<disk, call, opens, stores, history>>

secure_header(p) ==
  /\ WAt(p, 0, "header") /\ WMove(p, 0, "wait")
  /\ data' = [data EXCEPT ![worker[p][0].nfd] = Put(@, 1, <<Header>>)]
  /\ UNCHANGED <<path, secure, call, opens, stores, history>>

\* The spinning loop is left when the file under the name has a header.
spin(p, w) ==
  /\ WAt(p, w, "wait") /\ WMove(p, w, "again")
  /\ secure # None /\ Headed(data[secure])
  /\ UNCHANGED <<disk, call, opens, stores, history>>

\* If it is gone by now nothing is copied, and its name is returned.
look_again(p, w) ==
  /\ WAt(p, w, "again") /\ WMove(p, w, IF secure # None THEN "open_old" ELSE "path")
  /\ UNCHANGED <<disk, call, opens, stores, history>>

open_old(p, w) ==
  /\ WAt(p, w, "open_old")
  /\ worker' = [worker EXCEPT ![p][w].pc = "open_new", ![p][w].ofd = path]
  /\ UNCHANGED <<disk, call, opens, stores, history>>

open_new(p, w) ==
  /\ WAt(p, w, "open_new")
  /\ worker' = [worker EXCEPT ![p][w].pc = IF secure # None THEN "copy" ELSE "null",
                              ![p][w].nfd = secure]
  /\ UNCHANGED <<disk, call, opens, stores, history>>

\* The page at the offset goes one page further on, behind the header.
CopiedPage(me) ==
  LET old == data[me.ofd]
  IN  IF me.offset < Len(old)
      THEN [data EXCEPT ![me.nfd] = Put(@, me.offset + 2, Encrypted(<<old[me.offset + 1]>>))]
      ELSE data

copy_page(p, w) ==
  LET me == worker[p][w]
  IN  /\ WAt(p, w, "copy") /\ me.bsize >= 1
      /\ data' = CopiedPage(me)
      /\ worker' = [worker EXCEPT ![p][w].bsize = @ - 1,
                                  ![p][w].offset = IF @ < Len(data[me.ofd]) THEN @ + 1 ELSE @]
      /\ UNCHANGED <<path, secure, call, opens, stores, history>>

\* The last thread tries one page more.
copy_rest(p, w) ==
  LET me == worker[p][w]
  IN  /\ WAt(p, w, "copy") /\ me.bsize < 1
      /\ WMove(p, w, IF w = Last THEN "path" ELSE "null")
      /\ data' = IF w = Last THEN CopiedPage(me) ELSE data
      /\ UNCHANGED <<path, secure, call, opens, stores, history>>

-----------------------------------------------------------------------------
(* What the callers do with their descriptors, and what may befall them.   *)

\* The first page is written.  write encrypts whatever descriptor it is given; that
\* of a plain file, which is not recorded, stands at the beginning of the file.
\* The file there reads as the cipher text from then on.
Store(p) ==
  /\ Done(p) /\ stores < MaxStores /\ stores' = stores + 1
  /\ LET new == <<Page(Stored + stores)>>
         me  == call[p]
     IN  /\ data' = [data EXCEPT ![me.fd] = Put(@, IF me.recorded THEN 2 ELSE 1, Encrypted(new))]
         /\ text' = Put(text, 1, IF me.recorded THEN new ELSE Encrypted(new))
  /\ strayed' = (strayed \/ late[p] \/ unrenamed[p])
  /\ UNCHANGED <<path, secure, call, worker, opens, late, unrenamed, clash>>

\* close, or the process is killed: its threads end with it.
Leave(p) ==
  /\ ~ At(p, "idle")
  /\ call' = [call EXCEPT ![p] = Idle]
  /\ worker' = [worker EXCEPT ![p] = [w \in Worker |-> NoWorker]]
  /\ UNCHANGED <<disk, opens, stores, history>>

\* A process that is not subject to encryption makes the file.
Outsider ==
  /\ path = None /\ opens > 0
  /\ text' = <<Page(1), Page(2)>>
  /\ data' = Append(data, text') /\ path' = Len(data')
  /\ UNCHANGED <<secure, call, worker, opens, stores, late, unrenamed, strayed, clash>>

-----------------------------------------------------------------------------
Init ==
  /\ text \in {[k \in 1..n |-> Page(k)] : n \in Sizes}
  /\ \/ data = <<text>> /\ path = 1
     \/ text = <<>> /\ data = <<>> /\ path = None
  /\ secure = None
  /\ call = [p \in Process |-> Idle]
  /\ worker = [p \in Process |-> [w \in Worker |-> NoWorker]]
  /\ opens = 0 /\ stores = 0
  /\ late = [p \in Process |-> FALSE]
  /\ unrenamed = late
  /\ strayed = FALSE /\ clash = FALSE

Main(p) ==
  \/ access_path(p) \/ check_header(p) \/ linker_open(p) \/ write_header(p)
  \/ access_secure(p) \/ file_size(p) \/ small_open(p) \/ small_read(p)
  \/ small_write(p) \/ join_rename(p) \/ reopen(p)

First(p) == secure_remove(p) \/ secure_create(p) \/ secure_size(p) \/ secure_header(p)
Run(p, w) == \/ spin(p, w) \/ look_again(p, w) \/ open_old(p, w) \/ open_new(p, w)
             \/ copy_page(p, w) \/ copy_rest(p, w)

Next ==
  \/ \E p \in Process :
       \/ \E creat \in BOOLEAN : Open(p, creat)
       \/ Main(p) \/ First(p) \/ (\E w \in Worker : Run(p, w))
       \/ Store(p) \/ Leave(p)
  \/ Outsider

Spec == Init /\ [][Next]_vars

\* Every process and every thread that is not blocked is run.
FairSpec == Spec /\ \A p \in Process :
                      WF_vars(Main(p)) /\ WF_vars(First(p)) /\ \A w \in Worker : WF_vars(Run(p, w))

-----------------------------------------------------------------------------
(* Properties.                                                             *)

\* Nothing the processes do to open the file, nor their being killed at any
\* moment, nor a "<path>.s" left behind or a rename that fails, changes what the
\* file reads as, which is what the callers have put into it: the pages they wrote,
\* or the cipher text of those written to a file that was still plain.  Excepted is
\* a file that is rebuilt or headed out of turn, and one that a caller has written
\* to as a copy that is being replaced.
TextKept == ~ clash /\ ~ strayed => Reads = text

\* A caller reads the text of the file through the descriptor it got, whatever the
\* others do to open it and whatever is written to it, through a descriptor of
\* the plain file or of the encrypted one; a caller that came late reads the text
\* as it was when it came.
ViewKept ==
  \A p \in Process :
    (Done(p) /\ ~ clash /\ ~ strayed /\ ~ unrenamed[p] /\ (late[p] => stores = 0)) =>
      View(p) = text

\* The descriptor a caller got is one of the file under the path and stays so,
\* whoever else opens it: what it writes is not lost to the others.
DescriptorIsFile ==
  \A p \in Process : (Done(p) /\ ~ clash /\ ~ late[p]) => call[p].fd = path

\* Every call of open ends: no thread waits for a header that does not come,
\* unless files are rebuilt out of turn.
OpenReturns ==
  \A p \in Process : (~ Done(p) /\ ~ At(p, "idle")) ~> (Done(p) \/ At(p, "idle") \/ clash)

\* What the log of open says after a rebuild, "rebuild file struct, success"
\* (ports/linker.c:508): the file is the text, encrypted once behind one header.
SuccessIsSealedOnce ==
  \A p \in Process : (At(p, "reopen") /\ call[p].recorded) =>
                       data[path] = <<Header>> \o Encrypted(text)
=============================================================================
