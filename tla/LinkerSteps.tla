---------------------------- MODULE LinkerSteps -----------------------------
(***************************************************************************)
(* read, write and lseek of ports/linker.c taken apart into their system   *)
(* calls, for several threads of one process on one encrypted file.  The   *)
(* threads have descriptors of their own or share one (setup); all are     *)
(* recorded in file_info_list, and a spare descriptor is there for the     *)
(* second open of write.  The kernel carries out one system call at a      *)
(* time; between two of them any other thread may run, or the process may  *)
(* be killed.                                                              *)
(***************************************************************************)
EXTENDS SecureFile, FiniteSets

CONSTANTS
  Thread,    \* threads of the process
  NumDesc,   \* open descriptors, numbered from 1
  Setups,    \* for each thread its descriptor, the threads that write, and the
             \* kernel offset each descriptor is opened with
  Bodies,    \* plain contents the file may begin with
  Payloads,  \* buffers passed to write
  ReadSizes, \* counts passed to read
  Seeks,     \* <<offset, whence>> passed to lseek
  MaxLen,    \* bound: cells in the file
  MaxCalls   \* bound: calls made by all threads together

Desc == 1..NumDesc

ASSUME StepsAssumption ==
  /\ NumDesc \in Nat \ {0}
  /\ Setups \subseteq [desc : [Thread -> Desc], writers : SUBSET Thread,
                      start : [Desc -> {0, FILE_HEADER_POLL_SIZE}]]
  /\ \A s \in Setups : \A t \in s.writers : s.start[s.desc[t]] = FILE_HEADER_POLL_SIZE
  /\ Bodies \subseteq Seq(Cell) /\ Payloads \subseteq Seq(Cell) \ {<<>>}
  /\ \A b \in Bodies : FILE_HEADER_POLL_SIZE + Len(b) <= MaxLen
  /\ ReadSizes \subseteq Nat \ {0} /\ Seeks \subseteq Nat \X {"SET", "CUR", "END"}
  /\ MaxLen \in Nat /\ MaxCalls \in Nat

VARIABLES
  setup,   \* how the threads use their descriptors; it does not change
  bytes,   \* the file
  pos,     \* the kernel offset of each descriptor
  pc,      \* the next system call of each thread
  offset,  \* local variable of read and write
  arg,     \* the buffer to be written, or the number of cells to be read
  buf,     \* write: temp; read: the pieces collected so far
  got,     \* what the last read of each thread delivered
  calls,   \* how many calls have been made
  whole,   \* history: no two calls have overlapped, and none was cut off
  before,  \* history: bytes and pos when the last call began
  plain,   \* history: the plain contents the completed writes make up
  touch,   \* history: the blocks the write in progress may change
  spoiled, \* history: blocks the code does not promise anything about
  clean    \* history: nobody has interfered with the read in progress

vars == <<setup, bytes, pos, pc, offset, arg, buf, got, calls,
          whole, before, plain, touch, spoiled, clean>>
started == <<setup, calls, whole, before>>

H == FILE_HEADER_POLL_SIZE

DescOf(t) == setup.desc[t]
At(t) == pos[DescOf(t)]
Seek(t, to) == pos' = [pos EXCEPT ![DescOf(t)] = to]
Step(t, from, to) == pc[t] = from /\ pc' = [pc EXCEPT ![t] = to]

Lead(t) == offset[t] % Block

-----------------------------------------------------------------------------
(* What may go wrong, block by block.  Blocks are numbered from the start  *)
(* of the file.                                                            *)

BlocksOf(from, end) == {k \div Block : k \in from..(end - 1)}

\* A write from "from" to "end" changes these blocks: when it starts behind the
\* end of the file, the incomplete block there becomes part of a hole.
Touched(from, end) == BlocksOf(Smaller(from, Len(bytes)), end)

\* The first block is known completely to write, and the last one is written
\* completely or ends the file.
TailStart == Len(bytes) - (Len(bytes) % Block)
Good(from, end) == /\ from <= Len(bytes) /\ (from % Block = 0 \/ TailStart <= from)
                   /\ end % Block = 0 \/ TailStart < end

OthersTouch(t) == UNION {touch[u] : u \in Thread \ {t}}

\* Blocks written completely by a write from "from" to "end".
Full(from, end) == {b \in BlocksOf(from, end) : from <= b * Block /\ (b + 1) * Block <= end}

CellAt(s, k) == IF k \in DOMAIN s THEN <<s[k]>> ELSE <<>>
BlocksOfRead(u) == BlocksOf(offset[u] - Lead(u), offset[u] + arg[u] + 1)

\* Another thread's system call leaves the read of u alone: the offset has not
\* been moved from where u found it, and the blocks u needs are the same.
Undisturbed(u) ==
  /\ pc[u] \in {"r_skip", "r_head", "r_data"} => pos'[DescOf(u)] = At(u)
  /\ pc[u] \in {"r_skip", "r_head", "r_data", "r_tail"} =>
       \A k \in 1..MaxLen : (k - 1) \div Block \in BlocksOfRead(u) =>
                              CellAt(bytes, k) = CellAt(bytes', k)

FreshRead(t) == clean' = [u \in Thread |-> u = t \/ (clean[u] /\ Undisturbed(u))]
StillClean(t) == clean' = [u \in Thread |-> clean[u] /\ (u = t \/ Undisturbed(u))]

-----------------------------------------------------------------------------
(* Every call begins by asking the kernel for the offset.                  *)

Idle == \A t \in Thread : pc[t] \in {"idle", "dead"}

Begin(t) ==
  /\ calls < MaxCalls /\ calls' = calls + 1
  /\ whole' = (whole /\ Idle)
  /\ before' = IF whole' THEN <<bytes, pos>> ELSE <<>>
  /\ UNCHANGED <<setup, bytes, got, plain>>

-----------------------------------------------------------------------------
(* write                                                                   *)

write_offset(t, d) ==
  /\ t \in setup.writers /\ Step(t, "idle", "w_open") /\ Begin(t)
  /\ At(t) + Len(d) <= MaxLen
  /\ offset' = [offset EXCEPT ![t] = At(t)]
  /\ arg' = [arg EXCEPT ![t] = d]
  /\ LET end   == At(t) + Len(d)
         mine  == Touched(At(t), end)
     IN  /\ touch' = [touch EXCEPT ![t] = mine]
         /\ spoiled' = spoiled \cup (mine \cap OthersTouch(t))
                               \cup (IF Good(At(t), end) THEN {} ELSE mine)
  /\ UNCHANGED <<pos, buf>> /\ StillClean(t)

\* Mutant: the prefix is read from the offset on, not from the block's start.
write_openMut(t) ==
  /\ Step(t, "w_open", "w_head")
  /\ buf' = [buf EXCEPT ![t] =
               aes_encrypt(Overlay(Zeros(Lead(t)), 0,
                                   Window(bytes, offset[t], Lead(t))) \o arg[t])]
  /\ UNCHANGED <<bytes, pos, offset, arg, got, started, plain, touch, spoiled>>
  /\ StillClean(t)

\* The file is opened once more, by its recorded name, and the head of the first
\* block is read through that descriptor.
write_open(t) ==
  /\ Step(t, "w_open", "w_head")
  /\ buf' = [buf EXCEPT ![t] =
               aes_encrypt(Overlay(Zeros(Lead(t)), 0,
                                   Window(bytes, offset[t] - Lead(t), Lead(t))) \o arg[t])]
  /\ UNCHANGED <<bytes, pos, offset, arg, got, started, plain, touch, spoiled>>
  /\ StillClean(t)

\* Mutant: the head goes where the data should.
write_headMut(t) ==
  /\ Step(t, "w_head", "w_data")
  /\ bytes' = Overlay(bytes, offset[t], SubSeq(buf[t], 1, Lead(t)))
  /\ UNCHANGED <<pos, offset, arg, buf, got, started, plain, touch, spoiled>>
  /\ StillClean(t)

write_head(t) ==
  /\ Step(t, "w_head", "w_data")
  /\ bytes' = Overlay(bytes, offset[t] - Lead(t), SubSeq(buf[t], 1, Lead(t)))
  /\ UNCHANGED <<pos, offset, arg, buf, got, started, plain, touch, spoiled>>
  /\ StillClean(t)

\* The data goes to wherever the descriptor stands by now.
write_data(t) ==
  LET end == At(t) + Len(arg[t])
  IN  /\ Step(t, "w_data", "idle")
      /\ end <= MaxLen
      /\ bytes' = Overlay(bytes, At(t), SubSeq(buf[t], Lead(t) + 1, Len(buf[t])))
      /\ Seek(t, end)
      /\ plain' = Overlay(plain, At(t) - H, arg[t])
      /\ spoiled' = IF At(t) = offset[t]
                    THEN spoiled \ (Full(At(t), end) \ OthersTouch(t))
                    ELSE spoiled \cup touch[t] \cup Touched(At(t), end)
      /\ touch' = [touch EXCEPT ![t] = {}]
      /\ buf' = [buf EXCEPT ![t] = <<>>]
      /\ UNCHANGED <<offset, arg, got, started>>
      /\ StillClean(t)

-----------------------------------------------------------------------------
(* read                                                                    *)

read_offset(t, n) ==
  /\ Step(t, "idle", IF At(t) < H THEN "r_skip" ELSE "r_head") /\ Begin(t)
  /\ offset' = [offset EXCEPT ![t] = IF At(t) < H THEN At(t) + H ELSE At(t)]
  /\ arg' = [arg EXCEPT ![t] = n]
  /\ UNCHANGED <<pos, buf, touch, spoiled>> /\ FreshRead(t)

read_skip(t) ==
  /\ Step(t, "r_skip", "r_head")
  /\ Seek(t, H)
  /\ UNCHANGED <<bytes, offset, arg, buf, got, started, plain, touch, spoiled>>
  /\ StillClean(t)

\* One piece more in the buffer of t.
Collect(t, piece) == buf' = [buf EXCEPT ![t] = Append(@, piece)]

read_head(t) ==
  /\ Step(t, "r_head", "r_data")
  /\ Collect(t, Window(bytes, offset[t] - Lead(t), Lead(t)))
  /\ UNCHANGED <<bytes, pos, offset, arg, got, started, plain, touch, spoiled>>
  /\ StillClean(t)

read_data(t) ==
  /\ Step(t, "r_data", "r_tail")
  /\ LET piece == Window(bytes, At(t), arg[t])
     IN  Collect(t, piece) /\ Seek(t, At(t) + Len(piece))
  /\ UNCHANGED <<bytes, offset, arg, got, started, plain, touch, spoiled>>
  /\ StillClean(t)

\* Mutant: the rest of the block is taken from where the descriptor stands.
TailFromMut(t) == At(t)
TailFrom(t) == offset[t] + arg[t]

\* Mutant: the position in the last block instead of what is missing from it.
TailCountMut(t) == (arg[t] + offset[t]) % Block
TailCount(t) == Block - ((arg[t] + offset[t]) % Block)

read_tail(t) ==
  /\ Step(t, "r_tail", "idle")
  /\ LET tail == Window(bytes, TailFrom(t), TailCount(t))
     IN  got' = [got EXCEPT ![t] =
                   Collected(Lead(t), arg[t], buf[t][1], buf[t][2], tail)]
  /\ buf' = [buf EXCEPT ![t] = <<>>]
  /\ UNCHANGED <<bytes, pos, offset, arg, started, plain, touch, spoiled>>
  /\ StillClean(t)

-----------------------------------------------------------------------------
(* lseek is a single system call.  Nobody seeks into the header.           *)

SeekTarget(t, off, whence) ==
  CASE whence = "SET" -> off + H
    [] whence = "CUR" -> At(t) + off
    [] whence = "END" -> Len(bytes) + off

lseek(t, off, whence) ==
  /\ pc[t] = "idle" /\ Begin(t)
  /\ At(t) >= H /\ SeekTarget(t, off, whence) <= MaxLen
  /\ Seek(t, SeekTarget(t, off, whence))
  /\ UNCHANGED <<pc, offset, arg, buf, touch, spoiled>>
  /\ StillClean(t)

\* The process is killed between two system calls.
Crash ==
  /\ \E t \in Thread : pc[t] # "dead"
  /\ pc' = [t \in Thread |-> "dead"]
  /\ whole' = (whole /\ Idle)
  /\ spoiled' = spoiled \cup UNION {touch[t] : t \in Thread}
  /\ touch' = [t \in Thread |-> {}]
  /\ buf' = [t \in Thread |-> <<>>]
  /\ UNCHANGED <<setup, bytes, pos, offset, arg, got, calls, before, plain, clean>>

-----------------------------------------------------------------------------
Init ==
  /\ setup \in Setups
  /\ plain \in Bodies
  /\ bytes = SealedForm(plain)
  /\ pos = setup.start
  /\ pc = [t \in Thread |-> "idle"]
  /\ offset = [t \in Thread |-> 0]
  /\ arg = [t \in Thread |-> 0]
  /\ buf = [t \in Thread |-> <<>>]
  /\ got = [t \in Thread |-> <<>>]
  /\ calls = 0
  /\ whole = TRUE
  /\ before = <<bytes, pos>>
  /\ touch = [t \in Thread |-> {}]
  /\ spoiled = {}
  /\ clean = [t \in Thread |-> TRUE]

Next ==
  \/ \E t \in Thread :
       \/ \E d \in Payloads : write_offset(t, d)
       \/ write_open(t) \/ write_head(t) \/ write_data(t)
       \/ \E n \in ReadSizes : read_offset(t, n)
       \/ read_skip(t) \/ read_head(t) \/ read_data(t) \/ read_tail(t)
       \/ \E s \in Seeks : lseek(t, s[1], s[2])
  \/ Crash

Spec == Init /\ [][Next]_vars

-----------------------------------------------------------------------------
(* Properties.                                                             *)

\* Whatever mixture of calls overlaps, and whenever the process is killed, a
\* block shows the plain cells that the completed writes put there, unless two
\* writes that touched it overlapped, the one that touched it did not stand on
\* good boundaries, lost its place to another thread or is not finished.
\* In particular no call damages a block that it does not touch, and a write
\* of the whole block makes it good again.
DamageContained ==
  LET view == PlainView(bytes)
  IN  \A k \in 1..(MaxLen - H) :
        (H + k - 1) \div Block \in spoiled \cup UNION {touch[t] : t \in Thread}
        \/ CellAt(view, k) = CellAt(plain, k)

\* A read delivers the plain cells at the offset it found, as the file holds
\* them when it returns, unless another thread moved the descriptor before the
\* data was read or changed one of the blocks concerned during the call.
ReadsExact ==
  [][\A t \in Thread :
       (pc[t] = "r_tail" /\ pc'[t] = "idle" /\ clean[t]) =>
         got'[t] = Window(PlainView(bytes), offset[t] - H, arg[t])]_vars

-----------------------------------------------------------------------------
(* The system calls of a call, when no calls overlap, add up to the single *)
(* step that Linker.tla takes for it.                                      *)

AtRest(t) == pc[t] \in {"idle", "dead"}
Seen == IF Idle \/ ~ whole THEN <<bytes, pos>> ELSE before

Whole == INSTANCE Linker WITH
  Path <- {"file"}, NoPath <- "none", Supported <- {"file"}, Special <- {},
  Fd <- 1..(NumDesc + 1), MaxOpen <- NumDesc, MaxInfo <- NumDesc,
  PlainFiles0 <- {}, Leftovers <- {}, Flags <- {}, RawWrites <- {},
  SharedMaps <- FALSE, Dups <- FALSE, Toggles <- FALSE,
  disk <- [p \in {"file"} |-> Seen[1]],
  exists <- {"file"}, leftover <- {}, protected <- TRUE,
  fdt <- [fd \in 1..(NumDesc + 1) |-> IF fd \in Desc THEN fd ELSE 0],
  ofd <- [o \in 1..(NumDesc + 1) |->
            IF o \in Desc
            THEN [path |-> "file", pos |-> Seen[2][o], acc |-> "rw", app |-> FALSE]
            ELSE [path |-> "none", pos |-> 0, acc |-> "r", app |-> FALSE]],
  file_info_list <- [i \in Desc |-> [fd |-> i, path |-> "file"]]

StepsAreCalls == [][whole' => Whole!Next]_(Whole!vars)

\* ... and a read returns what Linker.tla says it delivers.
ReadsAsWhole ==
  [][\A t \in Thread :
       (whole /\ pc[t] = "r_tail" /\ pc'[t] = "idle") =>
         got'[t] = Whole!ReadData(DescOf(t), arg[t])]_vars
=============================================================================
