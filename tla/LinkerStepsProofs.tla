------------------------- MODULE LinkerStepsProofs --------------------------
(***************************************************************************)
(* Theorems about LinkerSteps for any number of threads and descriptors,   *)
(* every header, block size and cipher, and any buffers, counts and files. *)
(***************************************************************************)
EXTENDS LinkerSteps, SecureFileProofs

WritePlaces == {"w_open", "w_head", "w_data"}
ReadPlaces == {"r_skip", "r_head", "r_data", "r_tail"}

\* What a thread needs in the middle of a call; one that writes does so behind the
\* header.
InCall(t) ==
  /\ t \in setup.writers => At(t) >= H
  /\ pc[t] \in WritePlaces =>
       /\ t \in setup.writers /\ offset[t] >= H
       /\ arg[t] \in Seq(Cell) /\ arg[t] # <<>> /\ offset[t] + Len(arg[t]) <= MaxLen
  /\ pc[t] \in {"w_head", "w_data"} =>
       buf[t] \in Seq(Cell) /\ Len(buf[t]) = Lead(t) + Len(arg[t])
  /\ pc[t] \in ReadPlaces => offset[t] >= H /\ arg[t] \in Nat \ {0}
  /\ pc[t] \in {"r_head", "r_data"} => At(t) >= H
  /\ pc[t] \in {"idle", "r_skip", "r_head"} => buf[t] = <<>>
  /\ pc[t] = "r_data" => \E p \in Seq(Cell) : buf[t] = <<p>>
  /\ pc[t] = "r_tail" => \E p, q \in Seq(Cell) : buf[t] = <<p, q>>

\* The file is sealed and stays in its bound; a descriptor stands at 0, where an
\* open for appending leaves it, or behind the header.
TypeOK ==
  /\ setup \in Setups
  /\ bytes \in Seq(Cell) /\ Sealed(bytes) /\ Len(bytes) <= MaxLen
  /\ pos \in [Desc -> Nat]
  /\ \A d \in Desc : pos[d] = 0 \/ pos[d] >= H
  /\ pc \in [Thread -> {"idle", "dead"} \cup WritePlaces \cup ReadPlaces]
  /\ offset \in [Thread -> Nat]
  /\ DOMAIN arg = Thread /\ DOMAIN buf = Thread /\ DOMAIN got = Thread
  /\ clean \in [Thread -> BOOLEAN]
  /\ \A t \in Thread : InCall(t)

-----------------------------------------------------------------------------
(* Types.                                                                  *)

\* The header is a number of blocks, and the file a sequence within its bound.
LEMMA Sizes ==
  /\ H \in Nat \ {0} /\ H % Block = 0 /\ Block \in Nat \ {0} /\ MaxLen \in Nat
  /\ \A b \in Bodies : b \in Seq(Cell) /\ H + Len(b) <= MaxLen
  BY HeaderSize, LayoutAssumption, StepsAssumption DEF H

\* The place of a thread's descriptor.
LEMMA Place ==
  ASSUME TypeOK, NEW t \in Thread
  PROVE  /\ DescOf(t) \in Desc /\ At(t) \in Nat
         /\ offset[t] \in Nat /\ Lead(t) \in 0..(Block - 1)
         /\ offset[t] - Lead(t) \in Nat
         /\ offset[t] >= H => offset[t] - Lead(t) >= H
<1>1. setup.desc \in [Thread -> Desc] BY StepsAssumption DEF TypeOK
<1>2. DescOf(t) \in Desc /\ At(t) \in Nat BY <1>1 DEF DescOf, At, TypeOK
<1>3. offset[t] \in Nat BY DEF TypeOK
<1>4. /\ Lead(t) \in 0..(Block - 1) /\ offset[t] - Lead(t) \in Nat
  BY <1>3, BlockEnds DEF Lead
<1>5. offset[t] >= H => H <= Complete(offset[t])
  BY <1>3, Sizes, CompleteBounds
<1> QED BY <1>2, <1>3, <1>4, <1>5 DEF Complete, Lead

\* A piece more in a buffer.
LEMMA Appended ==
  ASSUME NEW S, NEW s \in Seq(S), NEW w \in S
  PROVE  /\ Append(s, w) \in Seq(S) /\ Len(Append(s, w)) = Len(s) + 1
         /\ \A i \in 1..Len(s) : Append(s, w)[i] = s[i]
         /\ Append(s, w)[Len(s) + 1] = w
  BY AppendProperties

\* Two pieces in a buffer.
LEMMA AppendPair ==
  ASSUME NEW S, NEW p \in S, NEW w \in S
  PROVE  Append(<<p>>, w) = <<p, w>>
<1>1. <<p>> \in Seq(S) /\ Len(<<p>>) = 1 /\ <<p>>[1] = p OBVIOUS
<1>2. <<p, w>> \in Seq(S) /\ Len(<<p, w>>) = 2 /\ <<p, w>>[1] = p /\ <<p, w>>[2] = w OBVIOUS
<1> DEFINE s == <<p>>
           r == <<p, w>>
<1>3. s \in Seq(S) /\ Len(s) = 1 /\ s[1] = p BY <1>1
<1>4. r \in Seq(S) /\ Len(r) = 2 /\ r[1] = p /\ r[2] = w BY <1>2
<1> HIDE DEF s, r
<1>5. Append(s, w) \in Seq(S) /\ Len(Append(s, w)) = 2 /\ Append(s,w)[1] = p /\ Append(s,w)[2] = w
  <2>1. /\ Append(s, w) \in Seq(S) /\ Len(Append(s, w)) = Len(s) + 1
        /\ \A i \in 1..Len(s) : Append(s, w)[i] = s[i]
        /\ Append(s, w)[Len(s) + 1] = w
    BY <1>3, Appended
  <2>2. Len(s) + 1 = 2 /\ 1 \in 1..Len(s) BY <1>3
  <2> QED BY <1>3, <2>1, <2>2, Zenon
<1>6. \A i \in 1..2 : Append(s, w)[i] = r[i] BY <1>4, <1>5
<1>7. Append(s, w) = r BY <1>4, <1>5, <1>6, SeqEqual
<1> QED BY <1>7 DEF s, r

\* The types at the beginning.
LEMMA InitType == Init => TypeOK
<1> SUFFICES ASSUME Init PROVE TypeOK OBVIOUS
<1>1. plain \in Seq(Cell) /\ H + Len(plain) <= MaxLen BY Sizes DEF Init
<1>2. aes_encrypt(plain) \in Seq(Cell) /\ Len(aes_encrypt(plain)) = Len(plain)
  BY <1>1, CryptType
<1>3. bytes \in Seq(Cell) /\ Len(bytes) = H + Len(plain)
  BY <1>1, <1>2, HeaderSize, ConcatProperties DEF Init, SealedForm, H, FILE_HEADER_POLL_SIZE
<1>4. Sealed(bytes) BY <1>1, SealedFormExact DEF Init
<1>5. /\ setup \in Setups /\ setup.start \in [Desc -> {0, H}]
      /\ setup.desc \in [Thread -> Desc]
      /\ \A t \in setup.writers : setup.start[setup.desc[t]] = H
  BY StepsAssumption DEF Init, H
<1>6. pos \in [Desc -> Nat] /\ \A d \in Desc : pos[d] = 0 \/ pos[d] >= H
  <2>1. pos \in [Desc -> {0, H}] /\ H \in Nat BY <1>5, Sizes DEF Init
  <2> QED BY <2>1
<1>7. \A t \in Thread : t \in setup.writers => At(t) >= H
  BY <1>5, Sizes DEF Init, At, DescOf
<1> QED BY <1>1, <1>3, <1>4, <1>5, <1>6, <1>7 DEF Init, TypeOK, InCall, WritePlaces, ReadPlaces

\* A write behind the header keeps the file sealed and in its bound.
LEMMA SealedKept ==
  ASSUME TypeOK, NEW at \in Nat, NEW d \in Seq(Cell), at >= H, at + Len(d) <= MaxLen
  PROVE  LET s == Overlay(bytes, at, d)
         IN  s \in Seq(Cell) /\ Sealed(s) /\ Len(s) <= MaxLen /\ Len(bytes) <= Len(s)
<1> DEFINE s == Overlay(bytes, at, d)
<1>1. /\ bytes \in Seq(Cell) /\ Sealed(bytes) /\ Len(bytes) <= MaxLen BY DEF TypeOK
<1>2. /\ s \in Seq(Cell)
      /\ d = <<>> => Len(s) = Len(bytes)
      /\ d # <<>> => Len(s) = Larger(Len(bytes), at + Len(d))
  BY <1>1, OverlayType
<1>3. Len(s) <= MaxLen /\ Len(bytes) <= Len(s) BY <1>1, <1>2 DEF Larger
<1>4. Len(bytes) >= H BY <1>1 DEF Sealed, is_encrypted_by_file_header, H
<1>5. \A k \in 1..H : s[k] = bytes[k]
  BY <1>1, <1>4, OverlayBefore, Sizes
<1> HIDE DEF s
<1>6. Sealed(s) BY <1>1, <1>2, <1>3, <1>5, SealedByHeader DEF H
<1> QED BY <1>2, <1>3, <1>6 DEF s

\* A call moves its descriptor to behind the header, and no other one.
LEMMA Moved ==
  ASSUME TypeOK, NEW t \in Thread, NEW to \in Nat, to >= H, Seek(t, to)
  PROVE  /\ pos' \in [Desc -> Nat] /\ pos'[DescOf(t)] = to
         /\ \A d \in Desc : pos'[d] = pos[d] \/ pos'[d] >= H
         /\ \A d \in Desc : pos'[d] = 0 \/ pos'[d] >= H
         /\ \A d \in Desc : d # DescOf(t) => pos'[d] = pos[d]
<1>1. DescOf(t) \in Desc BY Place
<1>2. /\ pos \in [Desc -> Nat] /\ pos' = [pos EXCEPT ![DescOf(t)] = to]
      /\ \A d \in Desc : pos[d] = 0 \/ pos[d] >= H
  BY DEF TypeOK, Seek
<1> QED BY <1>1, <1>2

\* A thread that has no part in a step keeps what it needs.
LEMMA InCallKept ==
  ASSUME TypeOK, NEW u \in Thread, setup' = setup,
         \A d \in Desc : pos'[d] = pos[d] \/ pos'[d] >= H,
         pc'[u] = pc[u], offset'[u] = offset[u], arg'[u] = arg[u], buf'[u] = buf[u]
  PROVE  InCall(u)'
<1>1. InCall(u) BY DEF TypeOK
<1>2. DescOf(u) \in Desc /\ DescOf(u)' = DescOf(u) BY Place DEF DescOf
<1>3. At(u)' = At(u) \/ At(u)' >= H BY <1>2 DEF At
<1>4. Lead(u)' = Lead(u) BY DEF Lead
<1> QED BY <1>1, <1>3, <1>4 DEF InCall

\* A step of one thread leaves what the others have in hand alone.
Alone(t) ==
  /\ setup' = setup
  /\ pc' \in [Thread -> {"idle", "dead"} \cup WritePlaces \cup ReadPlaces]
  /\ offset' \in [Thread -> Nat]
  /\ DOMAIN arg' = Thread /\ DOMAIN buf' = Thread /\ DOMAIN got' = Thread
  /\ \A u \in Thread \ {t} : /\ pc'[u] = pc[u] /\ offset'[u] = offset[u]
                             /\ arg'[u] = arg[u] /\ buf'[u] = buf[u]

WriteStep(t) ==
  \/ \E d \in Payloads : write_offset(t, d)
  \/ write_open(t) \/ write_head(t) \/ write_data(t)

ReadStep(t) ==
  \/ \E n \in ReadSizes : read_offset(t, n)
  \/ read_skip(t) \/ read_head(t) \/ read_data(t) \/ read_tail(t)

SeekStep(t) == \E s \in Seeks : lseek(t, s[1], s[2])

\* What the steps of a write leave to the other threads.
LEMMA WriteAlone == ASSUME TypeOK, NEW t \in Thread, WriteStep(t) PROVE Alone(t)
<1>1. ASSUME NEW d \in Payloads, write_offset(t, d) PROVE Alone(t)
  BY <1>1, Place DEF write_offset, Begin, Step, Alone, TypeOK, WritePlaces
<1>2. ASSUME write_open(t) PROVE Alone(t)
  BY <1>2 DEF write_open, started, Step, Alone, TypeOK, WritePlaces
<1>3. ASSUME write_head(t) PROVE Alone(t)
  BY <1>3 DEF write_head, started, Step, Alone, TypeOK, WritePlaces
<1>4. ASSUME write_data(t) PROVE Alone(t)
  BY <1>4 DEF write_data, started, Step, Alone, TypeOK, WritePlaces
<1> QED BY <1>1, <1>2, <1>3, <1>4 DEF WriteStep

\* The same of a read.
LEMMA ReadAlone == ASSUME TypeOK, NEW t \in Thread, ReadStep(t) PROVE Alone(t)
<1>1. ASSUME NEW n \in ReadSizes, read_offset(t, n) PROVE Alone(t)
  <2>1. (IF At(t) < H THEN At(t) + H ELSE At(t)) \in Nat BY Place, Sizes
  <2>2. /\ offset' \in [Thread -> Nat]
        /\ \A u \in Thread \ {t} : offset'[u] = offset[u]
    BY <1>1, <2>1 DEF read_offset, TypeOK
  <2> QED BY <1>1, <2>2 DEF read_offset, Begin, Step, Alone, TypeOK, ReadPlaces
<1>2. ASSUME read_skip(t) PROVE Alone(t)
  BY <1>2 DEF read_skip, started, Step, Alone, TypeOK, ReadPlaces
<1>3. ASSUME read_head(t) PROVE Alone(t)
  BY <1>3 DEF read_head, started, Collect, Step, Alone, TypeOK, ReadPlaces
<1>4. ASSUME read_data(t) PROVE Alone(t)
  BY <1>4 DEF read_data, started, Collect, Step, Alone, TypeOK, ReadPlaces
<1>5. ASSUME read_tail(t) PROVE Alone(t)
  BY <1>5 DEF read_tail, started, Step, Alone, TypeOK, ReadPlaces
<1> QED BY <1>1, <1>2, <1>3, <1>4, <1>5 DEF ReadStep

\* The same of lseek.
LEMMA SeekAlone == ASSUME TypeOK, NEW t \in Thread, SeekStep(t) PROVE Alone(t)
  BY DEF SeekStep, lseek, Begin, Alone, TypeOK

\* What is enough for the types to be kept by the step of a thread.
LEMMA TypeFrom ==
  ASSUME TypeOK, NEW t \in Thread, Alone(t), InCall(t)',
         bytes' \in Seq(Cell), Sealed(bytes'), Len(bytes') <= MaxLen,
         pos' \in [Desc -> Nat],
         \A d \in Desc : pos'[d] = pos[d] \/ pos'[d] >= H,
         clean' \in [Thread -> BOOLEAN]
  PROVE  TypeOK'
<1>1. \A u \in Thread : InCall(u)'
  <2> SUFFICES ASSUME NEW u \in Thread, u # t PROVE InCall(u)' OBVIOUS
  <2>1. /\ setup' = setup /\ pc'[u] = pc[u] /\ offset'[u] = offset[u]
        /\ arg'[u] = arg[u] /\ buf'[u] = buf[u]
    BY DEF Alone
  <2> QED BY <2>1, InCallKept
<1>2. \A d \in Desc : pos'[d] = 0 \/ pos'[d] >= H BY DEF TypeOK
<1> QED BY <1>1, <1>2 DEF Alone, TypeOK

\* The two pieces of the buffer that write hands to the kernel.
LEMMA HeadType ==
  ASSUME TypeOK, NEW t \in Thread, pc[t] \in {"w_head", "w_data"}
  PROVE  LET d == SubSeq(buf[t], 1, Lead(t)) IN
         /\ d \in Seq(Cell) /\ Len(d) = Lead(t)
         /\ \A k \in 1..Lead(t) : d[k] = buf[t][k]
<1>1. /\ buf[t] \in Seq(Cell) /\ Len(buf[t]) = Lead(t) + Len(arg[t]) /\ arg[t] \in Seq(Cell)
  BY DEF TypeOK, InCall, WritePlaces
<1>2. Len(arg[t]) \in Nat /\ Len(buf[t]) \in Nat /\ Lead(t) \in Nat /\ Lead(t) <= Len(buf[t])
  <2>1. Len(arg[t]) \in Nat /\ Lead(t) \in Nat BY <1>1, Place, Sizes, LenProperties
  <2> QED BY <1>1, <2>1
<1>3. \A i \in 1..Lead(t) : buf[t][i] \in Cell BY <1>1, <1>2
<1> QED BY <1>1, <1>2, <1>3, SubSeqProperties

\* The part of the buffer behind the head.
LEMMA DataType ==
  ASSUME TypeOK, NEW t \in Thread, pc[t] \in {"w_head", "w_data"}
  PROVE  LET d == SubSeq(buf[t], Lead(t) + 1, Len(buf[t])) IN
         /\ d \in Seq(Cell) /\ Len(d) = Len(arg[t])
         /\ \A k \in 1..Len(arg[t]) : d[k] = buf[t][Lead(t) + k]
<1> DEFINE d == SubSeq(buf[t], Lead(t) + 1, Len(buf[t]))
           m == Lead(t)
           n == Len(buf[t])
           c == Len(arg[t])
<1>1. buf[t] \in Seq(Cell) /\ n = m + c /\ arg[t] \in Seq(Cell)
  BY DEF TypeOK, InCall, WritePlaces
<1>2. c \in Nat /\ m \in Nat BY <1>1, Place, Sizes, LenProperties
<1>3. \A i \in (m + 1)..n : buf[t][i] \in Cell BY <1>1, <1>2
<1> HIDE DEF m, n, c
<1>4. n \in Nat /\ m + 1 \in Nat /\ (m + 1 <= n => n - (m + 1) + 1 = c)
      /\ (~ (m + 1 <= n) => c = 0)
  BY <1>1, <1>2
<1> DEFINE e == SubSeq(buf[t], m + 1, n)
<1>5. /\ e \in Seq(Cell)
      /\ Len(e) = IF m + 1 <= n THEN n - (m + 1) + 1 ELSE 0
      /\ \A k \in 1..(n - (m + 1) + 1) : e[k] = buf[t][(m + 1) + k - 1]
  BY <1>3, <1>4, SubSeqProperties
<1> HIDE DEF e
<1>6. Len(e) = c BY <1>4, <1>5
<1>7. ASSUME NEW k \in 1..c PROVE e[k] = buf[t][m + k]
  <2>1. k \in 1..(n - (m + 1) + 1) /\ (m + 1) + k - 1 = m + k BY <1>2, <1>4
  <2> QED BY <1>5, <2>1
<1> QED BY <1>5, <1>6, <1>7 DEF e, m, n, c

\* Each system call keeps the types.
LEMMA WriteType == ASSUME TypeOK, NEW t \in Thread, WriteStep(t) PROVE TypeOK'
<1>1. Alone(t) BY WriteAlone
<1>2. InCall(t) /\ At(t) \in Nat /\ DescOf(t) \in Desc /\ offset[t] \in Nat
      /\ Lead(t) \in 0..(Block - 1) /\ offset[t] - Lead(t) \in Nat
  BY Place DEF TypeOK
<1>3. clean' \in [Thread -> BOOLEAN]
  <2>1. StillClean(t)
    BY DEF WriteStep, write_offset, write_open, write_head, write_data
  <2> QED BY <2>1 DEF StillClean, TypeOK
<1>4. ASSUME NEW d \in Payloads, write_offset(t, d) PROVE TypeOK'
  <2>1. d \in Seq(Cell) /\ d # <<>> BY StepsAssumption
  <2>2. /\ pc'[t] = "w_open" /\ arg'[t] = d /\ offset'[t] = At(t) /\ t \in setup.writers
        /\ UNCHANGED <<setup, bytes, pos>> /\ At(t) + Len(d) <= MaxLen /\ buf'[t] = buf[t]
    BY <1>4 DEF write_offset, Begin, Step, TypeOK
  <2>3. At(t)' = At(t) BY <2>2 DEF At, DescOf
  <2>4. InCall(t)'
    BY <1>2, <2>1, <2>2, <2>3 DEF InCall, WritePlaces, ReadPlaces
  <2> QED BY <1>1, <1>3, <2>2, <2>4, TypeFrom DEF TypeOK
<1>5. ASSUME write_open(t) PROVE TypeOK'
  <2> DEFINE head == Overlay(Zeros(Lead(t)), 0, Window(bytes, offset[t] - Lead(t), Lead(t)))
  <2>1. /\ pc[t] = "w_open" /\ pc'[t] = "w_head" /\ arg'[t] = arg[t] /\ offset'[t] = offset[t]
        /\ UNCHANGED <<setup, bytes, pos>> /\ buf'[t] = aes_encrypt(head \o arg[t])
    BY <1>5 DEF write_open, started, Step, TypeOK
  <2>2. head \in Seq(Cell) /\ Len(head) = Lead(t)
    <3> DEFINE w == Window(bytes, offset[t] - Lead(t), Lead(t))
               z == Zeros(Lead(t))
    <3>1. Lead(t) \in Nat BY <1>2, Sizes
    <3>2. w \in Seq(Cell) /\ Len(w) \in 0..Lead(t) BY <1>2, <3>1, WindowType DEF TypeOK
    <3>3. z \in Seq(Cell) /\ Len(z) = Lead(t) BY <3>1, ZerosType
    <3> HIDE DEF w, z
    <3>4. 0 + Len(w) <= Len(z) BY <3>1, <3>2, <3>3
    <3>5. Overlay(z, 0, w) \in Seq(Cell) /\ Len(Overlay(z, 0, w)) = Len(z)
      BY <3>2, <3>3, <3>4, OverlayInside
    <3> QED BY <3>3, <3>5 DEF w, z
  <2>3. arg[t] \in Seq(Cell) BY <1>2, <2>1 DEF InCall, WritePlaces
  <2> HIDE DEF head
  <2>4. head \o arg[t] \in Seq(Cell) /\ Len(head \o arg[t]) = Lead(t) + Len(arg[t])
    <3> DEFINE d == arg[t]
    <3>1. d \in Seq(Cell) BY <2>3
    <3> HIDE DEF d
    <3>2. head \o d \in Seq(Cell) /\ Len(head \o d) = Len(head) + Len(d)
      BY <2>2, <3>1, ConcatProperties
    <3> QED BY <2>2, <3>2 DEF d
  <2>5. buf'[t] \in Seq(Cell) /\ Len(buf'[t]) = Lead(t) + Len(arg[t])
    BY <2>1, <2>4, CryptType
  <2>6. At(t)' = At(t) /\ Lead(t)' = Lead(t) BY <2>1 DEF At, DescOf, Lead
  <2>7. InCall(t)'
    BY <1>2, <2>1, <2>5, <2>6 DEF InCall, WritePlaces, ReadPlaces
  <2> QED BY <1>1, <1>3, <2>1, <2>7, TypeFrom DEF TypeOK
<1>6. ASSUME write_head(t) PROVE TypeOK'
  <2> DEFINE d == SubSeq(buf[t], 1, Lead(t))
  <2>1. /\ pc[t] = "w_head" /\ pc'[t] = "w_data" /\ arg'[t] = arg[t] /\ offset'[t] = offset[t]
        /\ UNCHANGED <<setup, pos>> /\ buf'[t] = buf[t]
        /\ bytes' = Overlay(bytes, offset[t] - Lead(t), d)
    BY <1>6 DEF write_head, started, Step, TypeOK
  <2>2. /\ buf[t] \in Seq(Cell) /\ Len(buf[t]) = Lead(t) + Len(arg[t])
        /\ arg[t] \in Seq(Cell) /\ offset[t] >= H /\ offset[t] + Len(arg[t]) <= MaxLen
    BY <1>2, <2>1 DEF InCall, WritePlaces
  <2>3. d \in Seq(Cell) /\ Len(d) = Lead(t) BY <2>1, HeadType
  <2>4. offset[t] - Lead(t) >= H BY <2>2, Place
  <2>5. offset[t] - Lead(t) + Len(d) <= MaxLen
    <3>1. /\ offset[t] \in Nat /\ Lead(t) \in Nat /\ MaxLen \in Nat /\ Len(arg[t]) \in Nat
      BY <1>2, <2>2, Sizes, LenProperties
    <3> QED BY <2>2, <2>3, <3>1
  <2>6. bytes' \in Seq(Cell) /\ Sealed(bytes') /\ Len(bytes') <= MaxLen
    BY <1>2, <2>1, <2>3, <2>4, <2>5, SealedKept
  <2>7. At(t)' = At(t) /\ Lead(t)' = Lead(t) BY <2>1 DEF At, DescOf, Lead
  <2>8. InCall(t)'
    BY <1>2, <2>1, <2>7 DEF InCall, WritePlaces, ReadPlaces
  <2> QED BY <1>1, <1>3, <2>1, <2>6, <2>8, TypeFrom DEF TypeOK
<1>7. ASSUME write_data(t) PROVE TypeOK'
  <2> DEFINE d == SubSeq(buf[t], Lead(t) + 1, Len(buf[t]))
             end == At(t) + Len(arg[t])
  <2>1. /\ pc[t] = "w_data" /\ pc'[t] = "idle" /\ arg'[t] = arg[t] /\ offset'[t] = offset[t]
        /\ UNCHANGED setup /\ buf'[t] = <<>> /\ Seek(t, end) /\ end <= MaxLen
        /\ bytes' = Overlay(bytes, At(t), d)
    BY <1>7 DEF write_data, started, Step, TypeOK
  <2>2. /\ buf[t] \in Seq(Cell) /\ Len(buf[t]) = Lead(t) + Len(arg[t])
        /\ arg[t] \in Seq(Cell) /\ t \in setup.writers /\ At(t) >= H
    BY <1>2, <2>1 DEF InCall, WritePlaces
  <2>3. d \in Seq(Cell) /\ Len(d) = Len(arg[t]) BY <2>1, DataType
  <2>4. bytes' \in Seq(Cell) /\ Sealed(bytes') /\ Len(bytes') <= MaxLen
    BY <1>2, <2>1, <2>2, <2>3, SealedKept
  <2>5. end \in Nat /\ end >= H
    <3>1. At(t) \in Nat /\ H \in Nat /\ Len(arg[t]) \in Nat BY <1>2, <2>2, Sizes, LenProperties
    <3> QED BY <2>2, <3>1
  <2>6. /\ pos' \in [Desc -> Nat] /\ pos'[DescOf(t)] = end
        /\ \A f \in Desc : pos'[f] = pos[f] \/ pos'[f] >= H
    BY <2>1, <2>5, Moved
  <2>7. At(t)' >= H BY <2>1, <2>5, <2>6 DEF At, DescOf
  <2>8. InCall(t)'
    BY <2>1, <2>7 DEF InCall, WritePlaces, ReadPlaces
  <2> QED BY <1>1, <1>3, <2>4, <2>6, <2>8, TypeFrom DEF TypeOK
<1> QED BY <1>4, <1>5, <1>6, <1>7 DEF WriteStep

\* The types, step by step.
LEMMA ReadType == ASSUME TypeOK, NEW t \in Thread, ReadStep(t) PROVE TypeOK'
<1>1. Alone(t) BY ReadAlone
<1>2. InCall(t) /\ At(t) \in Nat /\ DescOf(t) \in Desc /\ offset[t] \in Nat
      /\ Lead(t) \in 0..(Block - 1) /\ offset[t] - Lead(t) \in Nat /\ Lead(t) \in Nat
      /\ (At(t) = 0 \/ At(t) >= H)
  <2>1. Lead(t) \in Nat BY Place, Sizes
  <2> QED BY Place, <2>1 DEF TypeOK, At
<1>3. clean' \in [Thread -> BOOLEAN] /\ UNCHANGED bytes
  <2>1. (FreshRead(t) \/ StillClean(t)) /\ UNCHANGED bytes
    BY DEF ReadStep, read_offset, read_skip, read_head, read_data, read_tail, Begin
  <2> QED BY <2>1 DEF StillClean, FreshRead, TypeOK
<1>4. ASSUME NEW n \in ReadSizes, read_offset(t, n) PROVE TypeOK'
  <2>1. n \in Nat \ {0} BY StepsAssumption
  <2>2. /\ pc'[t] \in {"r_skip", "r_head"} /\ arg'[t] = n
        /\ offset'[t] = (IF At(t) < H THEN At(t) + H ELSE At(t))
        /\ UNCHANGED <<setup, pos>> /\ buf'[t] = buf[t] /\ pc[t] = "idle"
    BY <1>4 DEF read_offset, Begin, Step, TypeOK
  <2>3. offset'[t] >= H BY <1>2, <2>2, Sizes
  <2>6. pc'[t] = "r_head" => At(t) >= H
    BY <1>4, <2>2, <1>2, Sizes DEF read_offset, Step, TypeOK
  <2>4. At(t)' = At(t) BY <2>2 DEF At, DescOf
  <2>5. InCall(t)'
    BY <1>2, <2>6, <2>1, <2>2, <2>3, <2>4 DEF InCall, WritePlaces, ReadPlaces
  <2> QED BY <1>1, <1>3, <2>2, <2>5, TypeFrom DEF TypeOK
<1>5. ASSUME read_skip(t) PROVE TypeOK'
  <2>1. /\ pc[t] = "r_skip" /\ pc'[t] = "r_head" /\ arg'[t] = arg[t] /\ offset'[t] = offset[t]
        /\ UNCHANGED setup /\ buf'[t] = buf[t] /\ Seek(t, H)
    BY <1>5 DEF read_skip, started, Step, TypeOK
  <2>2. /\ pos' \in [Desc -> Nat] /\ pos'[DescOf(t)] = H
        /\ \A f \in Desc : pos'[f] = pos[f] \/ pos'[f] >= H
    BY <2>1, Sizes, Moved
  <2>3. At(t)' >= H BY <2>1, <2>2, Sizes DEF At, DescOf
  <2>4. InCall(t)' BY <1>2, <2>1, <2>3 DEF InCall, WritePlaces, ReadPlaces
  <2> QED BY <1>1, <1>3, <2>2, <2>4, TypeFrom DEF TypeOK
<1>6. ASSUME read_head(t) PROVE TypeOK'
  <2> DEFINE w == Window(bytes, offset[t] - Lead(t), Lead(t))
  <2>1. /\ pc[t] = "r_head" /\ pc'[t] = "r_data" /\ arg'[t] = arg[t] /\ offset'[t] = offset[t]
        /\ UNCHANGED <<setup, pos>> /\ buf'[t] = Append(buf[t], w)
    BY <1>6 DEF read_head, Collect, started, Step, TypeOK
  <2>2. w \in Seq(Cell) BY <1>2, WindowType DEF TypeOK
  <2>3. buf'[t] = <<w>>
    <3>1. buf[t] = <<>> BY <1>2, <2>1 DEF InCall
    <3> HIDE DEF w
    <3> QED BY <2>1, <3>1
  <2>4. At(t)' = At(t) BY <2>1 DEF At, DescOf
  <2>5. InCall(t)' BY <1>2, <2>1, <2>2, <2>3, <2>4 DEF InCall, WritePlaces, ReadPlaces
  <2> QED BY <1>1, <1>3, <2>1, <2>5, TypeFrom DEF TypeOK
<1>7. ASSUME read_data(t) PROVE TypeOK'
  <2> DEFINE w == Window(bytes, At(t), arg[t])
  <2>1. /\ pc[t] = "r_data" /\ pc'[t] = "r_tail" /\ arg'[t] = arg[t] /\ offset'[t] = offset[t]
        /\ UNCHANGED setup /\ buf'[t] = Append(buf[t], w) /\ Seek(t, At(t) + Len(w))
    BY <1>7 DEF read_data, Collect, started, Step, TypeOK
  <2>2. w \in Seq(Cell) /\ Len(w) \in Nat
    BY <1>2, <2>1, WindowType DEF TypeOK, InCall, ReadPlaces
  <2>3. PICK p \in Seq(Cell) : buf[t] = <<p>> BY <1>2, <2>1 DEF InCall
  <2> HIDE DEF w
  <2>4. buf'[t] = <<p, w>>
    <3>1. buf'[t] = Append(<<p>>, w) BY <2>1, <2>3
    <3>2. Append(<<p>>, w) = <<p, w>> BY <2>2, AppendPair
    <3> QED BY <3>1, <3>2
  <2>5. /\ \A f \in Desc : pos'[f] = pos[f] \/ pos'[f] >= H
        /\ pos' \in [Desc -> Nat]
        /\ t \in setup.writers => pos'[DescOf(t)] >= H
    <3>1. At(t) + Len(w) \in Nat /\ At(t) + Len(w) >= H
      BY <1>2, <2>1, <2>2, Sizes DEF InCall
    <3>2. DescOf(t) \in Desc BY Place
    <3> QED BY <2>1, <3>1, <3>2, Moved
  <2>6. t \in setup.writers => At(t)' >= H BY <2>1, <2>5 DEF At, DescOf
  <2>7. InCall(t)' BY <1>2, <2>1, <2>2, <2>4, <2>3, <2>6 DEF InCall, WritePlaces, ReadPlaces
  <2> QED BY <1>1, <1>3, <2>5, <2>7, TypeFrom DEF TypeOK
<1>8. ASSUME read_tail(t) PROVE TypeOK'
  <2>1. /\ pc[t] = "r_tail" /\ pc'[t] = "idle" /\ arg'[t] = arg[t] /\ offset'[t] = offset[t]
        /\ UNCHANGED <<setup, pos>> /\ buf'[t] = <<>>
    BY <1>8 DEF read_tail, started, Step, TypeOK
  <2>2. At(t)' = At(t) BY <2>1 DEF At, DescOf
  <2>3. InCall(t)' BY <1>2, <2>1, <2>2 DEF InCall, WritePlaces, ReadPlaces
  <2> QED BY <1>1, <1>3, <2>1, <2>3, TypeFrom DEF TypeOK
<1> QED BY <1>4, <1>5, <1>6, <1>7, <1>8 DEF ReadStep

\* lseek does not go into the header.
LEMMA SeekType == ASSUME TypeOK, NEW t \in Thread, SeekStep(t) PROVE TypeOK'
<1>1. Alone(t) BY SeekAlone
<1>2. PICK s \in Seeks : lseek(t, s[1], s[2]) BY DEF SeekStep
<1>3. s[1] \in Nat /\ s[2] \in {"SET", "CUR", "END"} BY StepsAssumption
<1> DEFINE to == SeekTarget(t, s[1], s[2])
<1>4. /\ pc[t] = "idle" /\ Seek(t, to) /\ At(t) >= H
      /\ UNCHANGED <<setup, bytes, pc, offset, arg, buf>> /\ StillClean(t)
  BY <1>2 DEF lseek, Begin
<1>5. to \in Nat /\ to >= H
  <2>1. At(t) \in Nat /\ H \in Nat BY Place, Sizes
  <2>2. Len(bytes) \in Nat /\ Len(bytes) >= H
    BY DEF TypeOK, Sealed, is_encrypted_by_file_header, H
  <2> QED BY <1>3, <1>4, <2>1, <2>2 DEF SeekTarget
<1> HIDE DEF to
<1>6. DescOf(t) \in Desc /\ InCall(t) BY Place DEF TypeOK
<1>7. /\ pos' \in [Desc -> Nat] /\ pos'[DescOf(t)] = to
      /\ \A f \in Desc : pos'[f] = pos[f] \/ pos'[f] >= H
  BY <1>4, <1>5, Moved
<1>8. At(t)' >= H BY <1>4, <1>5, <1>7 DEF At, DescOf
<1>9. InCall(t)' BY <1>4, <1>6, <1>8 DEF InCall, WritePlaces, ReadPlaces
<1>10. clean' \in [Thread -> BOOLEAN] BY <1>4 DEF StillClean, TypeOK
<1> QED BY <1>1, <1>4, <1>7, <1>9, <1>10, TypeFrom DEF TypeOK

\* The kernel keeps the file when the process is killed.
LEMMA CrashType == ASSUME TypeOK, Crash PROVE TypeOK'
<1>1. /\ UNCHANGED <<setup, bytes, pos, offset, arg, got, clean>>
      /\ pc' = [t \in Thread |-> "dead"] /\ buf' = [t \in Thread |-> <<>>]
  BY DEF Crash
<1>2. ASSUME NEW t \in Thread PROVE InCall(t)'
  <2>1. InCall(t) /\ At(t)' = At(t) BY <1>1 DEF TypeOK, At, DescOf
  <2> QED BY <1>1, <2>1 DEF InCall, WritePlaces, ReadPlaces
<1> QED BY <1>1, <1>2 DEF TypeOK

\* Every step keeps the types.
LEMMA TypeStep == TypeOK /\ [Next]_vars => TypeOK'
<1> SUFFICES ASSUME TypeOK, [Next]_vars PROVE TypeOK' OBVIOUS
<1>1. CASE UNCHANGED vars
  <2>1. ASSUME NEW t \in Thread PROVE InCall(t)'
    <3>1. InCall(t) BY DEF TypeOK
    <3> QED BY <1>1, <3>1 DEF vars, started, InCall, At, DescOf, Lead
  <2> QED BY <1>1, <2>1 DEF vars, started, TypeOK
<1>2. CASE Crash BY <1>2, CrashType
<1>3. ASSUME NEW t \in Thread, WriteStep(t) \/ ReadStep(t) \/ SeekStep(t) PROVE TypeOK'
  BY <1>3, WriteType, ReadType, SeekType
<1> QED BY <1>1, <1>2, <1>3 DEF Next, WriteStep, ReadStep, SeekStep

-----------------------------------------------------------------------------
(* What a read collects.                                                   *)

\* The inductive invariant behind ReadsExact: as long as nobody has interfered,
\* the descriptor stands where the read began and the pieces collected so far
\* are what the file holds there now.
Collecting(t) ==
  LET head == Window(bytes, offset[t] - Lead(t), Lead(t))
      data == Window(bytes, offset[t], arg[t])
  IN  clean[t] =>
        /\ pc[t] = "r_skip" => offset[t] = H
        /\ pc[t] \in {"r_head", "r_data"} => At(t) = offset[t]
        /\ pc[t] = "r_data" => buf[t] = <<head>>
        /\ pc[t] = "r_tail" => buf[t] = <<head, data>>

\* Files that have the same cells there give the same window.
LEMMA WindowSame ==
  ASSUME NEW s \in Seq(Cell), NEW r \in Seq(Cell), NEW at \in Nat, NEW n \in Nat,
         \A k \in (at + 1)..(at + n) : CellAt(s, k) = CellAt(r, k)
  PROVE  Window(s, at, n) = Window(r, at, n)
<1> DEFINE v == Window(s, at, n)
           w == Window(r, at, n)
<1>1. /\ v \in Seq(Cell) /\ Len(v) = IF at >= Len(s) THEN 0 ELSE Smaller(n, Len(s) - at)
      /\ \A k \in 1..Len(v) : at + k \in 1..Len(s) /\ v[k] = s[at + k]
  BY WindowAt
<1>2. /\ w \in Seq(Cell) /\ Len(w) = IF at >= Len(r) THEN 0 ELSE Smaller(n, Len(r) - at)
      /\ \A k \in 1..Len(w) : at + k \in 1..Len(r) /\ w[k] = r[at + k]
  BY WindowAt
<1>3. \A k \in (at + 1)..(at + n) : (k <= Len(s) <=> k <= Len(r)) /\ (k <= Len(s) => s[k] = r[k])
  <2> SUFFICES ASSUME NEW k \in (at + 1)..(at + n)
               PROVE  (k <= Len(s) <=> k <= Len(r)) /\ (k <= Len(s) => s[k] = r[k])
    OBVIOUS
  <2>1. (k \in DOMAIN s <=> k <= Len(s)) /\ (k \in DOMAIN r <=> k <= Len(r))
    OBVIOUS
  <2>2. CellAt(s, k) = CellAt(r, k) OBVIOUS
  <2>3. \A x, y : <<x>> # <<>> /\ (<<x>> = <<y>> => x = y) OBVIOUS
  <2> QED BY <2>1, <2>2, <2>3 DEF CellAt
<1> HIDE DEF v, w
<1>4. Len(v) \in 0..n /\ Len(w) \in 0..n /\ Len(s) \in Nat /\ Len(r) \in Nat
  BY <1>1, <1>2 DEF Smaller
<1>5. Len(v) <= Len(w)
  <2> SUFFICES ASSUME Len(w) < Len(v) PROVE FALSE BY <1>4
  <2>1. at + Len(v) <= Len(s) /\ at + Len(v) \in (at + 1)..(at + n)
    BY <1>1, <1>4
  <2>2. at + Len(v) <= Len(r) BY <1>3, <2>1
  <2> QED BY <1>2, <1>4, <2>1, <2>2 DEF Smaller
<1>6. Len(w) <= Len(v)
  <2> SUFFICES ASSUME Len(v) < Len(w) PROVE FALSE BY <1>4
  <2>1. at + Len(w) <= Len(r) /\ at + Len(w) \in (at + 1)..(at + n)
    BY <1>2, <1>4
  <2>2. at + Len(w) <= Len(s) BY <1>3, <2>1
  <2> QED BY <1>1, <1>4, <2>1, <2>2 DEF Smaller
<1>7. Len(v) = Len(w) BY <1>4, <1>5, <1>6
<1>8. ASSUME NEW k \in 1..Len(v) PROVE v[k] = w[k]
  <2>1. at + k \in (at + 1)..(at + n) /\ at + k <= Len(s) BY <1>1, <1>4
  <2>2. s[at + k] = r[at + k] BY <1>3, <2>1
  <2> QED BY <1>1, <1>2, <1>7, <2>2
<1> QED BY <1>1, <1>2, <1>7, <1>8, SeqEqual DEF v, w

\* The cells of the head and of the data lie in the blocks of the read, and so
\* does the rest of the last block.
LEMMA ReadInBlocks ==
  ASSUME TypeOK, NEW t \in Thread, pc[t] \in ReadPlaces,
         NEW k \in Nat, offset[t] - Lead(t) < k, k <= offset[t] + arg[t]
  PROVE  (k - 1) \div Block \in BlocksOfRead(t)
<1>1. /\ offset[t] \in Nat /\ offset[t] - Lead(t) \in Nat /\ arg[t] \in Nat
  BY Place DEF TypeOK, InCall
<1>2. k - 1 \in (offset[t] - Lead(t))..((offset[t] + arg[t] + 1) - 1)
  BY <1>1
<1> QED BY <1>2 DEF BlocksOfRead, BlocksOf

\* A thread whose read was not disturbed by the step of another one.
LEMMA OtherCollecting ==
  ASSUME TypeOK, TypeOK', NEW u \in Thread, Collecting(u),
         clean'[u] => clean[u] /\ Undisturbed(u), setup' = setup,
         pc'[u] = pc[u], offset'[u] = offset[u], arg'[u] = arg[u], buf'[u] = buf[u]
  PROVE  Collecting(u)'
<1> SUFFICES ASSUME clean'[u], pc[u] \in ReadPlaces PROVE Collecting(u)'
  BY DEF Collecting, ReadPlaces
<1>1. clean[u] /\ Undisturbed(u) OBVIOUS
<1>2. /\ offset[u] \in Nat /\ offset[u] - Lead(u) \in Nat /\ arg[u] \in Nat
      /\ Lead(u) \in Nat /\ Lead(u)' = Lead(u)
  <2>1. Lead(u)' = Lead(u) BY DEF Lead
  <2> QED BY <2>1, Place, Sizes DEF TypeOK, InCall
<1>3. \A k \in (offset[u] - Lead(u) + 1)..(offset[u] + arg[u]) :
        CellAt(bytes, k) = CellAt(bytes', k)
  <2> SUFFICES ASSUME NEW k \in (offset[u] - Lead(u) + 1)..(offset[u] + arg[u])
               PROVE  CellAt(bytes, k) = CellAt(bytes', k)
    OBVIOUS
  <2>1. k \in Nat \ {0} BY <1>2
  <2>2. CASE k <= MaxLen
    <3>1. (k - 1) \div Block \in BlocksOfRead(u) BY <1>2, ReadInBlocks, <2>1
    <3> QED BY <1>1, <2>1, <2>2, <3>1, Sizes DEF Undisturbed, ReadPlaces
  <2>3. CASE k > MaxLen
    <3>1. k \notin DOMAIN bytes /\ k \notin DOMAIN bytes'
      <4>1. /\ bytes \in Seq(Cell) /\ Len(bytes) <= MaxLen
            /\ bytes' \in Seq(Cell) /\ Len(bytes') <= MaxLen
        BY DEF TypeOK
      <4> QED BY <2>1, <2>3, <4>1, Sizes
    <3> QED BY <3>1 DEF CellAt
  <2> QED BY <2>1, <2>2, <2>3, Sizes
<1>4. bytes \in Seq(Cell) /\ bytes' \in Seq(Cell) BY DEF TypeOK
<1>5. Window(bytes, offset[u] - Lead(u), Lead(u)) = Window(bytes', offset[u] - Lead(u), Lead(u))
  <2>1. \A k \in (offset[u] - Lead(u) + 1)..(offset[u] - Lead(u) + Lead(u)) :
          CellAt(bytes, k) = CellAt(bytes', k)
    BY <1>2, <1>3
  <2>2. offset[u] - Lead(u) \in Nat /\ Lead(u) \in Nat BY <1>2
  <2> QED BY <1>4, <2>1, <2>2, WindowSame, Zenon
<1>6. Window(bytes, offset[u], arg[u]) = Window(bytes', offset[u], arg[u])
  <2>1. \A k \in (offset[u] + 1)..(offset[u] + arg[u]) : CellAt(bytes, k) = CellAt(bytes', k)
    BY <1>2, <1>3
  <2>2. offset[u] \in Nat /\ arg[u] \in Nat BY <1>2
  <2> QED BY <1>4, <2>1, <2>2, WindowSame, Zenon
<1>7. pc[u] \in {"r_skip", "r_head", "r_data"} => At(u)' = At(u)
  <2>1. DescOf(u)' = DescOf(u) BY DEF DescOf
  <2> QED BY <1>1, <2>1 DEF Undisturbed, At
<1> QED BY <1>1, <1>2, <1>5, <1>6, <1>7 DEF Collecting

\* The thread that reads.
LEMMA ReadCollecting ==
  ASSUME TypeOK, TypeOK', NEW t \in Thread, Collecting(t), ReadStep(t)
  PROVE  Collecting(t)'
<1>1. /\ DescOf(t) \in Desc /\ At(t) \in Nat /\ (At(t) = 0 \/ At(t) >= H) /\ H \in Nat \ {0}
      /\ InCall(t)
  BY Place, Sizes DEF TypeOK, At
<1>2. ASSUME NEW n \in ReadSizes, read_offset(t, n) PROVE Collecting(t)'
  <2>1. /\ pc'[t] = (IF At(t) < H THEN "r_skip" ELSE "r_head")
        /\ offset'[t] = (IF At(t) < H THEN At(t) + H ELSE At(t))
        /\ UNCHANGED <<setup, pos>>
    BY <1>2 DEF read_offset, Begin, Step, TypeOK
  <2>2. At(t)' = At(t) BY <2>1 DEF At, DescOf
  <2> QED BY <1>1, <2>1, <2>2 DEF Collecting
<1>3. ASSUME read_skip(t) PROVE Collecting(t)'
  <2>1. /\ pc[t] = "r_skip" /\ pc'[t] = "r_head" /\ offset'[t] = offset[t]
        /\ UNCHANGED setup /\ Seek(t, H) /\ (clean'[t] => clean[t])
    BY <1>3 DEF read_skip, started, Step, StillClean, TypeOK
  <2>2. At(t)' = H BY <1>1, <2>1, Moved DEF At, DescOf
  <2> QED BY <1>1, <2>1, <2>2 DEF Collecting
<1>4. ASSUME read_head(t) PROVE Collecting(t)'
  <2> DEFINE w == Window(bytes, offset[t] - Lead(t), Lead(t))
  <2>1. /\ pc[t] = "r_head" /\ pc'[t] = "r_data" /\ arg'[t] = arg[t] /\ offset'[t] = offset[t]
        /\ UNCHANGED <<setup, pos, bytes>> /\ buf'[t] = Append(buf[t], w)
        /\ (clean'[t] => clean[t])
    BY <1>4 DEF read_head, Collect, started, Step, StillClean, TypeOK
  <2>2. At(t)' = At(t) /\ Lead(t)' = Lead(t) BY <2>1 DEF At, DescOf, Lead
  <2>3. buf'[t] = <<w>>
    <3>1. buf[t] = <<>> BY <1>1, <2>1 DEF InCall
    <3> HIDE DEF w
    <3> QED BY <2>1, <3>1
  <2> QED BY <2>1, <2>2, <2>3 DEF Collecting
<1>5. ASSUME read_data(t) PROVE Collecting(t)'
  <2> DEFINE v == Window(bytes, offset[t] - Lead(t), Lead(t))
             w == Window(bytes, At(t), arg[t])
  <2>1. /\ pc[t] = "r_data" /\ pc'[t] = "r_tail" /\ arg'[t] = arg[t] /\ offset'[t] = offset[t]
        /\ UNCHANGED <<setup, bytes>> /\ buf'[t] = Append(buf[t], w)
        /\ (clean'[t] => clean[t])
    BY <1>5 DEF read_data, Collect, started, Step, StillClean, TypeOK
  <2>2. Lead(t)' = Lead(t) BY <2>1 DEF Lead
  <2> SUFFICES ASSUME clean[t] PROVE Collecting(t)' BY <2>1 DEF Collecting
  <2>3. At(t) = offset[t] /\ buf[t] = <<v>> BY <2>1 DEF Collecting
  <2>4. v \in Seq(Cell) /\ w \in Seq(Cell)
    <3>1. /\ bytes \in Seq(Cell) /\ offset[t] - Lead(t) \in Nat /\ Lead(t) \in Nat
      BY Place, Sizes DEF TypeOK
    <3>2. arg[t] \in Nat /\ At(t) \in Nat BY <1>1, <2>1 DEF InCall, ReadPlaces
    <3> QED BY <3>1, <3>2, WindowType
  <2>5. Append(<<v>>, w) = <<v, w>>
    <3> HIDE DEF v, w
    <3> QED BY <2>4, AppendPair
  <2>6. buf'[t] = <<v, Window(bytes, offset[t], arg[t])>> BY <2>1, <2>3, <2>5
  <2> QED BY <2>1, <2>2, <2>6 DEF Collecting
<1>6. ASSUME read_tail(t) PROVE Collecting(t)'
  <2>1. pc'[t] = "idle" BY <1>6 DEF read_tail, Step, TypeOK
  <2> QED BY <2>1 DEF Collecting
<1> QED BY <1>2, <1>3, <1>4, <1>5, <1>6 DEF ReadStep

\* A thread that writes or seeks has nothing collected.
LEMMA NotCollecting ==
  ASSUME TypeOK, NEW t \in Thread, WriteStep(t) \/ SeekStep(t)
  PROVE  Collecting(t)'
<1>1. pc'[t] \notin ReadPlaces
  BY DEF WriteStep, SeekStep, write_offset, write_open, write_head, write_data, lseek,
         Step, TypeOK, ReadPlaces, WritePlaces
<1> QED BY <1>1 DEF Collecting, ReadPlaces

ReadInv == TypeOK /\ \A t \in Thread : Collecting(t)

\* Every step keeps what the reads in progress have collected.
LEMMA ReadInvStep == ReadInv /\ [Next]_vars => ReadInv'
<1> SUFFICES ASSUME ReadInv, [Next]_vars PROVE ReadInv' OBVIOUS
<1>1. TypeOK' BY TypeStep DEF ReadInv
<1>2. CASE UNCHANGED vars
  <2>1. ASSUME NEW t \in Thread PROVE Collecting(t)'
    <3>1. Collecting(t) BY DEF ReadInv
    <3> QED BY <1>2, <3>1 DEF vars, started, Collecting, At, DescOf, Lead
  <2> QED BY <1>1, <2>1 DEF ReadInv
<1>3. CASE Crash
  <2>1. ASSUME NEW t \in Thread PROVE Collecting(t)'
    <3>1. pc'[t] = "dead" BY <1>3 DEF Crash
    <3> QED BY <3>1 DEF Collecting
  <2> QED BY <1>1, <2>1 DEF ReadInv
<1>4. ASSUME NEW t \in Thread, WriteStep(t) \/ ReadStep(t) \/ SeekStep(t) PROVE ReadInv'
  <2>1. Alone(t) BY <1>4, WriteAlone, ReadAlone, SeekAlone DEF ReadInv
  <2>2. ASSUME NEW u \in Thread, u # t PROVE Collecting(u)'
    <3>1. clean'[u] => clean[u] /\ Undisturbed(u)
      <4>1. FreshRead(t) \/ StillClean(t)
        BY <1>4 DEF WriteStep, ReadStep, SeekStep, write_offset, write_open, write_head,
             write_data, read_offset, read_skip, read_head, read_data, read_tail, lseek
      <4> QED BY <2>2, <4>1 DEF FreshRead, StillClean
    <3>2. TypeOK /\ Collecting(u) BY DEF ReadInv
    <3>3. /\ setup' = setup /\ pc'[u] = pc[u] /\ offset'[u] = offset[u]
          /\ arg'[u] = arg[u] /\ buf'[u] = buf[u]
      BY <2>1, <2>2 DEF Alone
    <3> QED BY <1>1, <3>1, <3>2, <3>3, OtherCollecting
  <2>3. Collecting(t)' BY <1>1, <1>4, ReadCollecting, NotCollecting DEF ReadInv
  <2> QED BY <1>1, <2>2, <2>3 DEF ReadInv
<1> QED BY <1>2, <1>3, <1>4 DEF Next, WriteStep, ReadStep, SeekStep

\* At first nobody reads.
LEMMA ReadInvInit == Init => ReadInv
<1> SUFFICES ASSUME Init PROVE ReadInv OBVIOUS
<1>1. \A t \in Thread : Collecting(t) BY DEF Init, Collecting
<1> QED BY <1>1, InitType DEF ReadInv

\* A read nobody interfered with delivers the plain cells at the offset it
\* found, though it took four system calls to collect them, whatever other threads
\* did in between.
THEOREM ReadsRight == Spec => ReadsExact
<1>1. ASSUME ReadInv, [Next]_vars, NEW t \in Thread, pc[t] = "r_tail", pc'[t] = "idle", clean[t]
      PROVE  got'[t] = Window(PlainView(bytes), offset[t] - H, arg[t])
  <2>1. TypeOK /\ Collecting(t) /\ InCall(t) BY <1>1 DEF ReadInv, TypeOK
  <2>2. read_tail(t)
    <3>1. ~ Crash BY <1>1 DEF Crash
    <3>2. ~ UNCHANGED vars BY <1>1 DEF vars
    <3>3. PICK u \in Thread : WriteStep(u) \/ ReadStep(u) \/ SeekStep(u)
      BY <1>1, <3>1, <3>2 DEF Next, WriteStep, ReadStep, SeekStep
    <3>4. Alone(u) BY <2>1, <3>3, WriteAlone, ReadAlone, SeekAlone
    <3>5. u = t BY <1>1, <3>4 DEF Alone
    <3> QED
      BY <1>1, <3>3, <3>5 DEF WriteStep, ReadStep, SeekStep, write_offset, write_open,
         write_head, write_data, read_offset, read_skip, read_head, read_data, lseek, Step
  <2> DEFINE o == offset[t]
             n == arg[t]
             head == Window(bytes, o - Lead(t), Lead(t))
             data == Window(bytes, o, n)
  <2>3. o \in Nat /\ n \in Nat /\ o >= H BY <1>1, <2>1, Place DEF InCall, ReadPlaces
  <2>4. buf[t] = <<head, data>> BY <1>1, <2>1 DEF Collecting
  <2>5. buf[t][1] = head /\ buf[t][2] = data BY <2>4
  <2>6. got'[t] = Collected(Lead(t), n, head, data, Window(bytes, o + n, Block - ((n + o) % Block)))
    BY <2>1, <2>2, <2>5 DEF read_tail, TailFrom, TailCount, TypeOK
  <2>7. n + o = o + n BY <2>3
  <2>8. bytes \in Seq(Cell) /\ Sealed(bytes) BY <2>1 DEF TypeOK
  <2>9. Collected(o % Block, n, Window(bytes, o - (o % Block), o % Block), data,
                  Window(bytes, o + n, Block - ((o + n) % Block)))
          = Window(PlainView(bytes), o - FILE_HEADER_POLL_SIZE, n)
    BY <2>3, <2>8, CollectedExact DEF H
  <2> QED BY <2>6, <2>7, <2>9 DEF Lead, H
<1>2. ReadInv /\ [Next]_vars => [\A t \in Thread :
        (pc[t] = "r_tail" /\ pc'[t] = "idle" /\ clean[t]) =>
           got'[t] = Window(PlainView(bytes), offset[t] - H, arg[t])]_vars
  BY <1>1
<1> QED BY <1>2, ReadInvInit, ReadInvStep, PTL DEF Spec, ReadsExact
-----------------------------------------------------------------------------
(* Which blocks are damaged.                                               *)

\* The cells of block b are those from Base(b) + 1 to Base(b) + Block.
Base(b) == b * Block
End(t) == offset[t] + Len(arg[t])

\* The file and the text have the same cell there, or none.
Same(i) == CellAt(bytes, i) = CellAt(plain, i - H)

\* The block shows what the completed writes put there: a complete one is the
\* cipher text of it, one that is not complete is stored as it is.
Right(b) ==
  IF Base(b) + Block <= Len(bytes)
  THEN /\ Base(b) + Block <= H + Len(plain)
       /\ \A j \in 1..Block :
            bytes[Base(b) + j] = Encrypt([l \in 1..Block |-> plain[(Base(b) - H) + l]])[j]
  ELSE \A j \in 1..Block : Same(Base(b) + j)

\* What t holds and has stored of a block it writes a part of, and of which
\* everything is promised: the block is not complete in the file, so that
\* its cells are stored as they are; the ones in front of the offset have been
\* read, and then been written over with what they are encrypted to.
InPart(t, b) ==
  /\ Len(bytes) < Base(b) + Block
  /\ \A j \in 1..Block : (Base(b) + j > offset[t] \/ pc[t] # "w_data") => Same(Base(b) + j)
  /\ \A j \in 1..Block : Base(b) + j <= offset[t] =>
       /\ Base(b) + j <= Len(bytes) /\ (Base(b) + j) - H <= Len(plain)
       /\ pc[t] \in {"w_head", "w_data"} => aes_decrypt(buf[t])[j] = plain[(Base(b) + j) - H]
       /\ pc[t] = "w_data" => bytes[Base(b) + j] = buf[t][j]

Covers(t, b) == offset[t] <= Base(b) /\ Base(b) + Block <= End(t)

Pending(t, b) ==
  /\ offset[t] < Base(b) + Block /\ Base(b) < End(t)
  /\ IF Covers(t, b) THEN Right(b) ELSE InPart(t, b)

\* The text that t has encrypted.
InHand(t) ==
  pc[t] \in {"w_head", "w_data"} =>
    /\ buf[t] = aes_encrypt(aes_decrypt(buf[t]))
    /\ \A j \in 1..Len(arg[t]) : aes_decrypt(buf[t])[Lead(t) + j] = arg[t][j]

Touching(t) ==
  IF pc[t] \in WritePlaces THEN Touched(offset[t], End(t)) \subseteq touch[t] ELSE touch[t] = {}

\* Blocks that two writes in progress touch are given up.
Exclusive == \A t, u \in Thread : t # u => touch[t] \cap touch[u] \subseteq spoiled

InTouch == UNION {touch[t] : t \in Thread}

\* The inductive invariant behind DamageContained.
DamageInv ==
  /\ TypeOK
  /\ plain \in Seq(Cell) /\ touch \in [Thread -> SUBSET Nat]
  /\ \A t \in Thread : Touching(t) /\ InHand(t)
  /\ Exclusive
  /\ \A b \in Nat : Base(b) >= H /\ b \notin spoiled \cup InTouch => Right(b)
  /\ \A t \in Thread : \A b \in touch[t] : b \notin spoiled => Pending(t, b)

\* Where a block begins.
LEMMA Bases ==
  ASSUME NEW b \in Nat
  PROVE  Base(b) \in Nat /\ Base(b) % Block = 0 /\ Base(b + 1) = Base(b) + Block
<1>1. Block \in Nat \ {0} BY LayoutAssumption
<1>2. b * Block \in Nat /\ (b + 1) * Block = b * Block + Block BY <1>1
<1>3. (Block * b) % Block = 0 BY <1>1
<1>4. b * Block = Block * b BY <1>1
<1> QED BY <1>2, <1>3, <1>4 DEF Base

\* The block a cell is in.
LEMMA BlockIs ==
  ASSUME NEW i \in Nat
  PROVE  /\ i \div Block \in Nat
         /\ Base(i \div Block) = i - (i % Block)
         /\ Base(i \div Block) <= i /\ i < Base(i \div Block) + Block
         /\ \A b \in Nat : Base(b) <= i /\ i < Base(b) + Block => b = i \div Block
<1>1. Block \in Nat \ {0} BY LayoutAssumption
<1> DEFINE q == i \div Block
           r == i % Block
<1>2. q \in Nat /\ r \in 0..(Block - 1) /\ i = Block * q + r BY <1>1
<1>3. Base(q) = Block * q BY <1>1, <1>2 DEF Base
<1> HIDE DEF q, r
<1>4. Base(q) = i - r /\ Base(q) <= i /\ i < Base(q) + Block
  <2>1. Base(q) \in Nat BY <1>2, Bases
  <2> QED BY <1>1, <1>2, <1>3, <2>1
<1>5. ASSUME NEW b \in Nat, Base(b) <= i, i < Base(b) + Block PROVE b = q
  <2>1. b * Block \in Nat /\ q * Block \in Nat BY <1>1, <1>2
  <2>2. CASE b < q
    <3>1. (b + 1) * Block <= q * Block BY <1>1, <1>2, <2>2
    <3>2. (b + 1) * Block = b * Block + Block BY <1>1
    <3> QED BY <1>1, <1>4, <1>5, <2>1, <3>1, <3>2 DEF Base
  <2>3. CASE q < b
    <3>1. (q + 1) * Block <= b * Block BY <1>1, <1>2, <2>3
    <3>2. (q + 1) * Block = q * Block + Block BY <1>1, <1>2
    <3> QED BY <1>1, <1>2, <1>4, <1>5, <2>1, <3>1, <3>2 DEF Base
  <2> QED BY <1>2, <2>2, <2>3
<1> QED BY <1>2, <1>4, <1>5 DEF q, r

\* The blocks of a range of cells are those that begin before its end and end
\* behind its beginning.
LEMMA InBlocksOf ==
  ASSUME NEW x \in Nat, NEW e \in Nat, NEW b \in Nat
  PROVE  x < e /\ x < Base(b) + Block /\ Base(b) < e <=> b \in BlocksOf(x, e)
<1>1. Base(b) \in Nat /\ Block \in Nat \ {0} BY Bases, LayoutAssumption
<1>2. ASSUME x < e, x < Base(b) + Block, Base(b) < e PROVE b \in BlocksOf(x, e)
  <2> DEFINE k == IF x <= Base(b) THEN Base(b) ELSE x
  <2>1. k \in Nat /\ k \in x..(e - 1) /\ Base(b) <= k /\ k < Base(b) + Block BY <1>1, <1>2
  <2> HIDE DEF k
  <2>2. b = k \div Block BY <2>1, BlockIs
  <2> QED BY <2>1, <2>2 DEF BlocksOf
<1>3. ASSUME b \in BlocksOf(x, e) PROVE x < e /\ x < Base(b) + Block /\ Base(b) < e
  <2>1. PICK k \in x..(e - 1) : b = k \div Block BY <1>3 DEF BlocksOf
  <2>2. Base(b) <= k /\ k < Base(b) + Block BY <2>1, BlockIs
  <2> QED BY <1>1, <2>1, <2>2
<1> QED BY <1>2, <1>3

\* Two sequences have the same cell at k, or both none.
LEMMA CellSame ==
  ASSUME NEW s \in Seq(Cell), NEW r \in Seq(Cell), NEW k \in Int, NEW l \in Int
  PROVE  CellAt(s, k) = CellAt(r, l) <=>
           /\ (1 <= k /\ k <= Len(s)) <=> (1 <= l /\ l <= Len(r))
           /\ (1 <= k /\ k <= Len(s)) => s[k] = r[l]
<1>1. /\ k \in DOMAIN s <=> (1 <= k /\ k <= Len(s))
      /\ l \in DOMAIN r <=> (1 <= l /\ l <= Len(r))
  OBVIOUS
<1>2. \A x, y : <<x>> # <<>> /\ (<<x>> = <<y>> <=> x = y) OBVIOUS
<1> QED BY <1>1, <1>2 DEF CellAt

\* What pwrite does to a cell.
LEMMA OverlayCell ==
  ASSUME NEW s \in Seq(Cell), NEW at \in Nat, NEW d \in Seq(Cell), NEW k \in Nat \ {0}
  PROVE  /\ ~ (at < k /\ k <= at + Len(d)) /\ (d # <<>> => k <= Len(s) \/ at < k)
              => CellAt(Overlay(s, at, d), k) = CellAt(s, k)
         /\ at < k /\ k <= at + Len(d)
              => k <= Len(Overlay(s, at, d)) /\ Overlay(s, at, d)[k] = d[k - at]
<1> DEFINE o == Overlay(s, at, d)
<1>1. /\ o \in Seq(Cell)
      /\ d = <<>> => Len(o) = Len(s)
      /\ d # <<>> => Len(o) = Larger(Len(s), at + Len(d))
  BY OverlayType
<1>2. \A i \in 1..Len(o) : o[i] = IF at < i /\ i <= at + Len(d) THEN d[i - at]
                                  ELSE IF i <= Len(s) THEN s[i] ELSE Zero
  BY OverlayAt
<1>3. d = <<>> => Len(d) = 0 OBVIOUS
<1>4. Len(s) \in Nat /\ Len(d) \in Nat /\ Len(o) \in Nat BY <1>1
<1> HIDE DEF o
<1>5. ASSUME at < k, k <= at + Len(d) PROVE k <= Len(o) /\ o[k] = d[k - at]
  <2>1. d # <<>> BY <1>3, <1>4, <1>5
  <2>2. k <= Len(o) BY <1>1, <1>4, <1>5, <2>1 DEF Larger
  <2> QED BY <1>2, <1>4, <1>5, <2>2
<1>6. ASSUME ~ (at < k /\ k <= at + Len(d)), d # <<>> => k <= Len(s) \/ at < k
      PROVE  CellAt(o, k) = CellAt(s, k)
  <2>1. k <= Len(o) <=> k <= Len(s)
    <3>1. CASE d = <<>> BY <1>1, <3>1
    <3>2. CASE d # <<>> BY <1>1, <1>4, <1>6, <3>2 DEF Larger
    <3> QED BY <3>1, <3>2
  <2>2. k <= Len(o) => o[k] = s[k] BY <1>2, <1>4, <1>6, <2>1
  <2> QED BY <1>1, <2>1, <2>2, CellSame
<1> QED BY <1>5, <1>6 DEF o

\* A step that leaves the cells of a block alone, in the file and in the text.
SameBlock(b) ==
  \A i \in (Base(b) + 1)..(Base(b) + Block) :
    CellAt(bytes', i) = CellAt(bytes, i) /\ CellAt(plain', i - H) = CellAt(plain, i - H)

Contents == bytes \in Seq(Cell) /\ plain \in Seq(Cell)

\* Its cells, one by one.
LEMMA SameCells ==
  ASSUME Contents, Contents', NEW b \in Nat, Base(b) >= H, SameBlock(b), NEW j \in 1..Block
  PROVE  /\ Base(b) + j <= Len(bytes') <=> Base(b) + j <= Len(bytes)
         /\ Base(b) + j <= Len(bytes) => bytes'[Base(b) + j] = bytes[Base(b) + j]
         /\ Base(b) + j <= H + Len(plain') <=> Base(b) + j <= H + Len(plain)
         /\ (Base(b) + j) - H = (Base(b) - H) + j
         /\ Base(b) + j <= H + Len(plain) =>
              plain'[(Base(b) - H) + j] = plain[(Base(b) - H) + j]
<1>1. Base(b) \in Nat /\ Block \in Nat \ {0} /\ H \in Nat BY Bases, Sizes
<1>2. /\ Len(bytes) \in Nat /\ Len(bytes') \in Nat /\ Len(plain) \in Nat /\ Len(plain') \in Nat
  BY LenProperties DEF Contents
<1> DEFINE i == Base(b) + j
           m == i - H
<1>3. i \in (Base(b) + 1)..(Base(b) + Block) /\ i \in Nat \ {0} /\ m \in Nat \ {0}
      /\ (Base(b) - H) + j = m
  BY <1>1
<1> HIDE DEF m, i
<1>4. CellAt(bytes', i) = CellAt(bytes, i) /\ CellAt(plain', m) = CellAt(plain, m)
  <2>1. CellAt(bytes', i) = CellAt(bytes, i) /\ CellAt(plain', i - H) = CellAt(plain, i - H)
    BY <1>3, Zenon DEF SameBlock
  <2> QED BY <2>1 DEF m
<1>5. (i <= Len(bytes') <=> i <= Len(bytes)) /\ (i <= Len(bytes') => bytes'[i] = bytes[i])
  BY <1>3, <1>4, CellSame DEF Contents
<1>6. (m <= Len(plain') <=> m <= Len(plain)) /\ (m <= Len(plain') => plain'[m] = plain[m])
  BY <1>3, <1>4, CellSame DEF Contents
<1>7. (i <= H + Len(plain) <=> m <= Len(plain)) /\ (i <= H + Len(plain') <=> m <= Len(plain'))
  BY <1>1, <1>2, <1>3, SMTT(30) DEF m
<1>8. (Base(b) - H) + j = i - H BY <1>3 DEF m
<1> QED BY <1>5, <1>6, <1>7, <1>8 DEF m, i

\* Such a step keeps a right block right.
LEMMA RightKept ==
  ASSUME Contents, Contents', NEW b \in Nat, Base(b) >= H, SameBlock(b), Right(b)
  PROVE  Right(b)'
<1>1. Base(b) \in Nat /\ Block \in Nat \ {0} /\ H \in Nat BY Bases, Sizes
<1>5. /\ Len(bytes) \in Nat /\ Len(bytes') \in Nat /\ Len(plain) \in Nat /\ Len(plain') \in Nat
  BY LenProperties DEF Contents
<1>2. ASSUME NEW j \in 1..Block
      PROVE  /\ Base(b) + j <= Len(bytes') <=> Base(b) + j <= Len(bytes)
             /\ Base(b) + j <= Len(bytes) => bytes'[Base(b) + j] = bytes[Base(b) + j]
             /\ Base(b) + j <= H + Len(plain') <=> Base(b) + j <= H + Len(plain)
             /\ Base(b) + j <= H + Len(plain) =>
                  plain'[(Base(b) - H) + j] = plain[(Base(b) - H) + j]
  BY SameCells
<1>3. CASE Base(b) + Block <= Len(bytes)
  <2>1. Block \in 1..Block BY <1>1
  <2>2. /\ Base(b) + Block <= H + Len(plain)
        /\ \A j \in 1..Block :
             bytes[Base(b) + j] = Encrypt([l \in 1..Block |-> plain[(Base(b) - H) + l]])[j]
    BY <1>3 DEF Right
  <2>3. Base(b) + Block <= Len(bytes') /\ Base(b) + Block <= H + Len(plain')
    BY <1>2, <1>3, <2>1, <2>2
  <2>4. \A l \in 1..Block : plain'[(Base(b) - H) + l] = plain[(Base(b) - H) + l]
    <3>1. Base(b) + Block <= H + Len(plain) BY <2>2
    <3>2. \A l \in 1..Block : Base(b) + l <= H + Len(plain) BY <1>1, <1>5, <3>1
    <3> QED BY <1>2, <3>2
  <2>5. [l \in 1..Block |-> plain'[(Base(b) - H) + l]] = [l \in 1..Block |-> plain[(Base(b) - H) + l]]
    BY <2>4
  <2>6. \A j \in 1..Block : bytes'[Base(b) + j] = bytes[Base(b) + j]
    <3>1. \A l \in 1..Block : Base(b) + l <= Len(bytes) BY <1>1, <1>5, <1>3
    <3> QED BY <1>2, <3>1
  <2> QED BY <2>2, <2>3, <2>5, <2>6 DEF Right
<1>4. CASE ~ (Base(b) + Block <= Len(bytes))
  <2>1. ~ (Base(b) + Block <= Len(bytes')) BY <1>1, <1>5, <1>2, <1>4, SMTT(30)
  <2>2. ASSUME NEW j \in 1..Block PROVE Same(Base(b) + j)'
    <3>1. Base(b) + j \in (Base(b) + 1)..(Base(b) + Block) BY <1>1
    <3>2. Same(Base(b) + j) BY <1>4 DEF Right
    <3> QED BY <3>1, <3>2 DEF SameBlock, Same
  <2> QED BY <2>1, <2>2 DEF Right
<1> QED BY <1>3, <1>4

\* A step of others that leaves a block alone leaves what t has to do with it.
LEMMA PendingKept ==
  ASSUME Contents, Contents', NEW t \in Thread, NEW b \in Nat, Base(b) >= H, SameBlock(b),
         offset[t] \in Nat, Pending(t, b),
         pc'[t] = pc[t], offset'[t] = offset[t], arg'[t] = arg[t], buf'[t] = buf[t]
  PROVE  Pending(t, b)'
<1>1. Base(b) \in Nat /\ Block \in Nat \ {0} /\ H \in Nat BY Bases, Sizes
<1>2. /\ Len(bytes) \in Nat /\ Len(bytes') \in Nat /\ Len(plain) \in Nat /\ Len(plain') \in Nat
  BY LenProperties DEF Contents
<1>3. End(t)' = End(t) /\ (Covers(t, b)' <=> Covers(t, b)) BY DEF End, Covers
<1>4. CASE Covers(t, b)
  <2>1. Right(b)' BY <1>4, RightKept DEF Pending
  <2> QED BY <1>3, <1>4, <2>1 DEF Pending
<1>5. CASE ~ Covers(t, b)
  <2>1. InPart(t, b) BY <1>5 DEF Pending
  <2>2. Len(bytes') < Base(b) + Block
    <3>1. Block \in 1..Block BY <1>1
    <3>2. ~ (Base(b) + Block <= Len(bytes)) BY <1>1, <1>2, <2>1 DEF InPart
    <3>3. ~ (Base(b) + Block <= Len(bytes')) BY <3>1, <3>2, SameCells
    <3> QED BY <1>1, <1>2, <3>3
  <2>3. ASSUME NEW j \in 1..Block, Base(b) + j > offset[t] \/ pc[t] # "w_data"
        PROVE  Same(Base(b) + j)'
    <3>1. Base(b) + j \in (Base(b) + 1)..(Base(b) + Block) BY <1>1
    <3>2. Same(Base(b) + j) BY <2>1, <2>3 DEF InPart
    <3> QED BY <3>1, <3>2 DEF SameBlock, Same
  <2>4. ASSUME NEW j \in 1..Block, Base(b) + j <= offset[t]
        PROVE  /\ Base(b) + j <= Len(bytes') /\ (Base(b) + j) - H <= Len(plain')
               /\ bytes'[Base(b) + j] = bytes[Base(b) + j]
               /\ plain'[(Base(b) + j) - H] = plain[(Base(b) + j) - H]
    <3>1. Base(b) + j <= Len(bytes) /\ (Base(b) + j) - H <= Len(plain) BY <2>1, <2>4 DEF InPart
    <3>2. Base(b) + j <= H + Len(plain) BY <1>1, <1>2, <3>1
    <3>3. /\ Base(b) + j <= Len(bytes') <=> Base(b) + j <= Len(bytes)
          /\ Base(b) + j <= Len(bytes) => bytes'[Base(b) + j] = bytes[Base(b) + j]
          /\ Base(b) + j <= H + Len(plain') <=> Base(b) + j <= H + Len(plain)
          /\ (Base(b) + j) - H = (Base(b) - H) + j
          /\ Base(b) + j <= H + Len(plain) =>
               plain'[(Base(b) - H) + j] = plain[(Base(b) - H) + j]
      BY SameCells
    <3>4. (Base(b) + j) - H <= Len(plain') BY <1>1, <1>2, <3>2, <3>3
    <3> QED BY <3>1, <3>2, <3>3, <3>4
  <2>5. InPart(t, b)' BY <2>1, <2>2, <2>3, <2>4 DEF InPart
  <2> QED BY <1>3, <1>5, <2>5 DEF Pending
<1> QED BY <1>4, <1>5

\* Where a write in progress stands, and the blocks it counts as touched.
LEMMA Writing ==
  ASSUME DamageInv, NEW t \in Thread, pc[t] \in WritePlaces
  PROVE  /\ offset[t] \in Nat /\ End(t) \in Nat /\ offset[t] < End(t) /\ offset[t] >= H
         /\ arg[t] \in Seq(Cell) /\ arg[t] # <<>> /\ Len(arg[t]) \in Nat \ {0}
         /\ At(t) \in Nat /\ At(t) >= H
         /\ H \in Nat \ {0} /\ H <= Len(bytes) /\ Len(bytes) \in Nat
         /\ \A b \in Nat : Base(b) < End(t)
                           /\ (offset[t] < Base(b) + Block \/ Len(bytes) < Base(b) + Block)
                              => b \in touch[t]
<1>1. /\ TypeOK /\ InCall(t) /\ Touching(t) BY DEF DamageInv, TypeOK
<1>2. /\ arg[t] \in Seq(Cell) /\ arg[t] # <<>> /\ offset[t] >= H /\ t \in setup.writers
      /\ At(t) >= H
  BY <1>1 DEF InCall
<1>3. offset[t] \in Nat /\ At(t) \in Nat BY <1>1, Place
<1>4. Len(arg[t]) \in Nat \ {0} BY <1>2, EmptySeq, LenProperties
<1>5. End(t) \in Nat /\ offset[t] < End(t) BY <1>3, <1>4 DEF End
<1>6. H \in Nat \ {0} /\ Len(bytes) \in Nat /\ H <= Len(bytes)
  BY <1>1, Sizes, LenProperties DEF TypeOK, Sealed, is_encrypted_by_file_header, H
<1>7. ASSUME NEW b \in Nat, Base(b) < End(t),
             offset[t] < Base(b) + Block \/ Len(bytes) < Base(b) + Block
      PROVE  b \in touch[t]
  <2> DEFINE x == Smaller(offset[t], Len(bytes))
  <2>1. x \in Nat /\ x <= offset[t] /\ (x = offset[t] \/ x = Len(bytes)) /\ x <= Len(bytes)
    BY <1>3, <1>6 DEF Smaller
  <2> HIDE DEF x
  <2>2. Base(b) \in Nat /\ Block \in Nat BY Bases, Sizes
  <2>3. x < Base(b) + Block /\ x < End(t) BY <1>3, <1>5, <1>6, <1>7, <2>1, <2>2
  <2>4. b \in BlocksOf(x, End(t)) BY <1>5, <1>7, <2>1, <2>3, InBlocksOf
  <2> QED BY <1>1, <2>4 DEF Touching, Touched, x
<1> QED BY <1>2, <1>3, <1>4, <1>5, <1>6, <1>7

\* Where everything is promised, a cell that is stored is a cell of the text.
LEMMA Level ==
  ASSUME DamageInv, NEW b \in Nat, Base(b) >= H, b \notin spoiled,
         NEW i \in (Base(b) + 1)..(Base(b) + Block), i <= Len(bytes)
  PROVE  i - H <= Len(plain)
<1>1. Base(b) \in Nat /\ Block \in Nat \ {0} /\ H \in Nat BY Bases, Sizes
<1>2. bytes \in Seq(Cell) /\ plain \in Seq(Cell) BY DEF DamageInv, TypeOK
<1>3. Len(bytes) \in Nat /\ Len(plain) \in Nat BY <1>2, LenProperties
<1> DEFINE j == i - Base(b)
<1>4. j \in 1..Block /\ Base(b) + j = i BY <1>1
<1>5. ASSUME Same(i) PROVE i - H <= Len(plain)
  <2>1. CellAt(bytes, i) = CellAt(plain, i - H) /\ i \in Int /\ i - H \in Int
    BY <1>1, <1>5 DEF Same
  <2>2. (1 <= i /\ i <= Len(bytes)) <=> (1 <= i - H /\ i - H <= Len(plain))
    BY <1>2, <2>1, CellSame
  <2> QED BY <1>1, <2>2
<1> HIDE DEF j
<1>6. ASSUME Right(b) PROVE i - H <= Len(plain)
  <2>1. CASE Base(b) + Block <= Len(bytes)
    <3>1. Base(b) + Block <= H + Len(plain) BY <1>6, <2>1 DEF Right
    <3> QED BY <1>1, <1>3, <3>1
  <2>2. CASE ~ (Base(b) + Block <= Len(bytes))
    <3>1. Same(Base(b) + j) BY <1>4, <1>6, <2>2 DEF Right
    <3> QED BY <1>4, <1>5, <3>1
  <2> QED BY <2>1, <2>2
<1>7. CASE b \notin InTouch BY <1>6, <1>7 DEF DamageInv
<1>8. ASSUME NEW t \in Thread, b \in touch[t] PROVE i - H <= Len(plain)
  <2>1. Pending(t, b) BY <1>8 DEF DamageInv
  <2>2. CASE Covers(t, b) BY <1>6, <2>1, <2>2 DEF Pending
  <2>3. CASE ~ Covers(t, b)
    <3>1. InPart(t, b) BY <2>1, <2>3 DEF Pending
    <3>2. offset[t] \in Nat BY DEF DamageInv, TypeOK
    <3>3. CASE i <= offset[t] BY <1>4, <3>1, <3>3 DEF InPart
    <3>4. CASE i > offset[t]
      <4>1. Same(Base(b) + j) BY <1>4, <3>1, <3>4 DEF InPart
      <4> QED BY <1>4, <1>5, <4>1
    <3> QED BY <1>1, <3>2, <3>3, <3>4
  <2> QED BY <2>2, <2>3
<1> QED BY <1>7, <1>8 DEF InTouch

\* Which cells the write of the data changes.
LEMMA DataSameBlock ==
  ASSUME DamageInv, NEW t \in Thread, write_data(t), NEW b \in Nat, Base(b) >= H,
         b \notin spoiled, b \notin Touched(At(t), At(t) + Len(arg[t]))
  PROVE  SameBlock(b)
<1>1. pc[t] = "w_data" /\ pc[t] \in WritePlaces BY DEF write_data, Step, WritePlaces
<1>2. /\ arg[t] \in Seq(Cell) /\ arg[t] # <<>> /\ Len(arg[t]) \in Nat \ {0}
      /\ At(t) \in Nat /\ At(t) >= H /\ H \in Nat \ {0} /\ Len(bytes) \in Nat
  BY <1>1, Writing
<1> DEFINE d == SubSeq(buf[t], Lead(t) + 1, Len(buf[t]))
           end == At(t) + Len(arg[t])
           x == Smaller(At(t), Len(bytes))
<1>3. /\ bytes' = Overlay(bytes, At(t), d) /\ plain' = Overlay(plain, At(t) - H, arg[t])
  BY DEF write_data
<1>4. d \in Seq(Cell) /\ Len(d) = Len(arg[t]) BY <1>1, DataType DEF DamageInv
<1>5. bytes \in Seq(Cell) /\ plain \in Seq(Cell) BY DEF DamageInv, TypeOK
<1>6. Base(b) \in Nat /\ Block \in Nat \ {0} /\ Len(plain) \in Nat
  BY <1>5, Bases, Sizes, LenProperties
<1>7. x \in Nat /\ x <= At(t) /\ x <= Len(bytes) /\ (x = At(t) \/ x = Len(bytes))
  BY <1>2 DEF Smaller
<1>8. end \in Nat /\ x < end BY <1>2, <1>7
<1> HIDE DEF d, x
<1>9. ~ (x < Base(b) + Block /\ Base(b) < end)
  <2>1. b \notin BlocksOf(x, end) BY DEF Touched, x
  <2> QED BY <1>7, <1>8, <2>1, InBlocksOf
<1>10. ASSUME NEW i \in (Base(b) + 1)..(Base(b) + Block)
       PROVE  CellAt(bytes', i) = CellAt(bytes, i) /\ CellAt(plain', i - H) = CellAt(plain, i - H)
  <2>1. i \in Nat \ {0} /\ i - H \in Nat \ {0} BY <1>2, <1>6
  <2> DEFINE a == Base(b)
             e == Base(b) + Block
             l == Len(bytes)
             at == At(t)
             stop == end
  <2>a. a \in Nat /\ e \in Nat /\ l \in Nat /\ at \in Nat /\ stop \in Nat /\ x \in Nat
    BY <1>2, <1>5, <1>6, <1>7, <1>8, LenProperties
  <2>b. a + 1 <= i /\ i <= e /\ i \in Nat BY <1>6, <2>1
  <2>c. x <= at /\ x <= l /\ (x = at \/ x = l) /\ at <= stop /\ ~ (x < e /\ a < stop)
    BY <1>2, <1>7, <1>8, <1>9, <2>a
  <2> HIDE DEF a, e, l, at, stop
  <2>d. ~ (at < i /\ i <= stop) /\ (i <= l \/ at < i) BY <2>a, <2>b, <2>c
  <2>2. ~ (At(t) < i /\ i <= end) BY <2>d DEF at, stop
  <2>3. i <= Len(bytes) \/ At(t) < i BY <2>d DEF at, l
  <2>4. CellAt(bytes', i) = CellAt(bytes, i)
    <3>1. ~ (At(t) < i /\ i <= At(t) + Len(d)) BY <1>4, <2>2
    <3>2. d \in Seq(Cell) /\ At(t) \in Nat /\ bytes \in Seq(Cell) BY <1>2, <1>4, <1>5
    <3>3. CellAt(Overlay(bytes, At(t), d), i) = CellAt(bytes, i)
      BY <2>1, <2>3, <3>1, <3>2, OverlayCell
    <3> QED BY <1>3, <3>3
  <2>5. ASSUME i <= Len(bytes) PROVE i - H <= Len(plain)
    BY <2>5, Level
  <2>6. CellAt(plain', i - H) = CellAt(plain, i - H)
    <3>1. At(t) - H \in Nat BY <1>2
    <3>2. ~ (At(t) - H < i - H /\ i - H <= (At(t) - H) + Len(arg[t]))
      BY <1>2, <2>1, <2>2
    <3>3. i - H <= Len(plain) \/ At(t) - H < i - H BY <1>2, <1>6, <2>1, <2>3, <2>5
    <3> QED BY <1>2, <1>3, <1>5, <2>1, <3>1, <3>2, <3>3, OverlayCell
  <2> QED BY <2>4, <2>6
<1> QED BY <1>10 DEF SameBlock

-----------------------------------------------------------------------------
(* Blocks in what is encrypted and decrypted.                              *)

\* A block that is complete in a buffer is encrypted and decrypted as a whole.
LEMMA CryptBlock ==
  ASSUME NEW s \in Seq(Cell), NEW m \in Nat, m % Block = 0, m + Block <= Len(s),
         NEW j \in 1..Block
  PROVE  /\ aes_encrypt(s)[m + j] = Encrypt([l \in 1..Block |-> s[m + l]])[j]
         /\ aes_decrypt(s)[m + j] = Decrypt([l \in 1..Block |-> s[m + l]])[j]
<1>1. Block \in Nat \ {0} /\ Len(s) \in Nat BY LayoutAssumption, LenProperties
<1>2. PICK k : k = m + j OBVIOUS
<1>3. (k - 1) % Block = j - 1
  <2>1. j - 1 \in Nat /\ j - 1 < Block /\ k - 1 = m + (j - 1) BY <1>1, <1>2
  <2>2. (j - 1) % Block = j - 1 BY <1>1, <2>1
  <2> QED BY <2>1, <2>2, BlocksAhead
<1>4. InWholeBlock(Len(s), k) /\ k \in 1..Len(s)
  <2>1. Block % Block = 0 BY <1>1
  <2>2. (m + Block) % Block = 0 /\ m + Block \in Nat BY <1>1, <2>1, BlocksAhead
  <2>3. m + Block <= Len(s) - (Len(s) % Block) BY <1>1, <2>2, BlocksFit
  <2> DEFINE c == Len(s) - (Len(s) % Block)
  <2>4. c \in Nat BY <1>1, BlockEnds
  <2>5. m + Block <= c BY <2>3
  <2> HIDE DEF c
  <2>6. k <= c /\ k \in 1..Len(s) BY <1>1, <1>2, <2>4, <2>5
  <2> QED BY <2>6 DEF InWholeBlock, c
<1>5. BlockAt(s, k) = [l \in 1..Block |-> s[m + l]]
  <2> DEFINE r == (k - 1) % Block
  <2>1. r = j - 1 BY <1>3
  <2> HIDE DEF r
  <2>2. (k - 1) - r = m BY <1>1, <1>2, <2>1
  <2>3. BlockAt(s, k) = [l \in 1..Block |-> s[((k - 1) - r) + l]] BY Zenon DEF BlockAt, r
  <2> QED BY <2>2, <2>3
<1>6. ((k - 1) % Block) + 1 = j
  <2> DEFINE r == (k - 1) % Block
  <2>1. r = j - 1 BY <1>3
  <2> HIDE DEF r
  <2>2. r + 1 = j BY <2>1
  <2> QED BY <2>2 DEF r
<1>7. /\ aes_encrypt(s)[k] = Encrypt(BlockAt(s, k))[((k - 1) % Block) + 1]
      /\ aes_decrypt(s)[k] = Decrypt(BlockAt(s, k))[((k - 1) % Block) + 1]
  BY <1>4, Zenon DEF aes_encrypt, aes_decrypt
<1> QED BY <1>2, <1>5, <1>6, <1>7, Zenon

\* The cells of one that is not complete stay as they are.
LEMMA CryptTail ==
  ASSUME NEW s \in Seq(Cell), NEW m \in Nat, m % Block = 0, Len(s) < m + Block,
         NEW k \in 1..Len(s), m < k
  PROVE  aes_encrypt(s)[k] = s[k] /\ aes_decrypt(s)[k] = s[k]
<1>1. Block \in Nat \ {0} /\ Len(s) \in Nat BY LayoutAssumption, LenProperties
<1>2. /\ Complete(Len(s)) \in Nat /\ Complete(Len(s)) <= Len(s) /\ Complete(Len(s)) % Block = 0
  BY <1>1, CompleteBounds
<1>3. Complete(Len(s)) <= m
  <2>1. m < Complete(Len(s)) => m + Block <= Complete(Len(s)) BY <1>2, BlockGap
  <2> QED BY <1>1, <1>2, <2>1
<1>4. ~ InWholeBlock(Len(s), k)
  <2>1. ~ (k <= Complete(Len(s))) BY <1>1, <1>2, <1>3
  <2> QED BY <2>1 DEF InWholeBlock, Complete
<1> QED BY <1>4 DEF aes_encrypt, aes_decrypt

\* Blocks behind a boundary start a whole number of blocks behind it.
LEMMA BaseBehind ==
  ASSUME NEW b \in Nat, NEW x \in Nat, x % Block = 0, x <= Base(b)
  PROVE  Base(b) - x \in Nat /\ (Base(b) - x) % Block = 0
<1>1. Base(b) \in Nat /\ Base(b) % Block = 0 BY Bases
<1> DEFINE y == Base(b) - x
<1>2. y \in Nat /\ x + y = Base(b) BY <1>1
<1> HIDE DEF y
<1>3. y % Block = 0 BY <1>1, <1>2, BlocksAhead
<1> QED BY <1>2, <1>3 DEF y

\* A block that ends behind a boundary begins there or behind it.
LEMMA NotBefore ==
  ASSUME NEW b \in Nat, NEW x \in Nat, x % Block = 0, x < Base(b) + Block
  PROVE  x <= Base(b)
<1>1. Base(b) \in Nat /\ Base(b) % Block = 0 /\ Block \in Nat BY Bases, Sizes
<1>2. Base(b) < x => Base(b) + Block <= x BY <1>1, BlockGap
<1> QED BY <1>1, <1>2

\* ... and one that begins before it ends there or before it.
LEMMA NotBehind ==
  ASSUME NEW b \in Nat, NEW x \in Nat, x % Block = 0, Base(b) < x
  PROVE  Base(b) + Block <= x
  BY Bases, BlockGap

\* What a block that is right shows.
LEMMA RightSeen ==
  ASSUME TypeOK, plain \in Seq(Cell), NEW b \in Nat, Base(b) >= H, Right(b), NEW j \in 1..Block
  PROVE  CellAt(PlainView(bytes), (Base(b) - H) + j) = CellAt(plain, (Base(b) - H) + j)
<1> DEFINE body == Body(bytes)
           view == PlainView(bytes)
           m == Base(b) - H
<1>1. Base(b) \in Nat /\ Block \in Nat \ {0} /\ H \in Nat BY Bases, Sizes
<1>2. m \in Nat /\ m % Block = 0 /\ Base(b) = H + m BY <1>1, Sizes, BaseBehind
<1>3. bytes \in Seq(Cell) /\ Sealed(bytes) BY DEF TypeOK
<1>4. /\ body \in Seq(Cell) /\ Len(body) = Len(bytes) - H /\ Len(bytes) >= H
      /\ \A k \in 1..Len(body) : body[k] = bytes[H + k]
      /\ view = aes_decrypt(body)
  BY <1>3, BodyCells DEF H
<1>5. view \in Seq(Cell) /\ Len(view) = Len(body) BY <1>4, CryptType
<1>6. Len(body) \in Nat /\ Len(bytes) \in Nat /\ Len(plain) \in Nat
  BY <1>3, <1>4, LenProperties
<1>7. Len(bytes) = H + Len(body) BY <1>1, <1>4, <1>6
<1> HIDE DEF body, view, m
<1>8. m + j \in Nat \ {0} /\ H + (m + j) = Base(b) + j BY <1>1, <1>2
<1>9. CASE Base(b) + Block <= Len(bytes)
  <2> DEFINE x == [l \in 1..Block |-> plain[m + l]]
             c == [l \in 1..Block |-> body[m + l]]
  <2>1. /\ Base(b) + Block <= H + Len(plain)
        /\ \A l \in 1..Block : bytes[Base(b) + l] = Encrypt(x)[l]
    BY <1>9 DEF Right, m
  <2>2. m + Block <= Len(plain) /\ m + Block <= Len(body) BY <1>1, <1>2, <1>6, <1>7, <1>9, <2>1
  <2>3. ASSUME NEW l \in 1..Block PROVE m + l \in 1..Len(plain) /\ m + l \in 1..Len(body)
    BY <1>1, <1>2, <1>6, <2>2
  <2>4. x \in BlockSet
    <3>1. \A l \in 1..Block : plain[m + l] \in Cell BY <2>3
    <3> QED BY <3>1 DEF BlockSet
  <2>5. Encrypt(x) \in BlockSet /\ Decrypt(Encrypt(x)) = x BY <2>4, CipherAssumption
  <2>6. c = Encrypt(x)
    <3>1. ASSUME NEW l \in 1..Block PROVE body[m + l] = Encrypt(x)[l]
      <4>1. H + (m + l) = Base(b) + l BY <1>1, <1>2
      <4>2. body[m + l] = bytes[H + (m + l)] BY <1>4, <2>3
      <4> QED BY <2>1, <4>1, <4>2
    <3> HIDE DEF x
    <3> QED BY <2>5, <3>1 DEF BlockSet
  <2>7. view[m + j] = Decrypt(c)[j] BY <1>2, <1>4, <2>2, CryptBlock
  <2>8. view[m + j] = plain[m + j] BY <2>5, <2>6, <2>7
  <2>9. m + j \in 1..Len(plain) /\ m + j \in 1..Len(view) BY <1>5, <2>3
  <2> QED BY <1>5, <1>8, <2>8, <2>9, CellSame DEF view, m
<1>10. CASE ~ (Base(b) + Block <= Len(bytes))
  <2>1. Same(Base(b) + j) BY <1>10 DEF Right
  <2>2. CellAt(bytes, Base(b) + j) = CellAt(plain, m + j)
    <3>1. (Base(b) + j) - H = m + j BY <1>1, <1>2
    <3> QED BY <2>1, <3>1 DEF Same
  <2>3. /\ Base(b) + j <= Len(bytes) <=> m + j <= Len(plain)
        /\ Base(b) + j <= Len(bytes) => bytes[Base(b) + j] = plain[m + j]
    BY <1>1, <1>3, <1>8, <2>2, CellSame
  <2>4. Base(b) + j <= Len(bytes) <=> m + j <= Len(body) BY <1>1, <1>2, <1>6, <1>7
  <2>5. Len(body) < m + Block BY <1>1, <1>2, <1>6, <1>7, <1>10
  <2>6. ASSUME m + j <= Len(body) PROVE view[m + j] = bytes[Base(b) + j]
    <3>1. m + j \in 1..Len(body) /\ m < m + j BY <1>1, <1>2, <1>8, <2>6
    <3>2. view[m + j] = body[m + j] BY <1>2, <1>4, <2>5, <3>1, CryptTail
    <3> QED BY <1>4, <1>8, <3>1, <3>2
  <2>7. CellAt(view, m + j) = CellAt(plain, m + j)
    BY <1>5, <1>8, <2>3, <2>4, <2>6, CellSame
  <2> QED BY <2>7 DEF view, m
<1> QED BY <1>9, <1>10

\* A file that has just been rebuilt is right in every block.
LEMMA RightAtFirst ==
  ASSUME plain \in Seq(Cell), bytes = SealedForm(plain), NEW b \in Nat, Base(b) >= H
  PROVE  Right(b)
<1> DEFINE e == aes_encrypt(plain)
           m == Base(b) - H
<1>1. Base(b) \in Nat /\ Block \in Nat \ {0} /\ H \in Nat BY Bases, Sizes
<1>2. m \in Nat /\ m % Block = 0 /\ Base(b) = H + m BY <1>1, Sizes, BaseBehind
<1>3. e \in Seq(Cell) /\ Len(e) = Len(plain) /\ Len(plain) \in Nat BY CryptType, LenProperties
<1> HIDE DEF e
<1>4. /\ bytes \in Seq(Cell) /\ Len(bytes) = H + Len(plain)
      /\ \A k \in 1..(H + Len(plain)) : bytes[k] = IF k <= H THEN HeaderCells[k] ELSE e[k - H]
  <2>1. bytes = HeaderCells \o e BY DEF SealedForm, e
  <2>2. HeaderCells \in Seq(Cell) /\ Len(HeaderCells) = H
    BY HeaderSize DEF H, FILE_HEADER_POLL_SIZE
  <2>3. /\ HeaderCells \o e \in Seq(Cell) /\ Len(HeaderCells \o e) = H + Len(e)
        /\ \A k \in 1..(H + Len(e)) :
             (HeaderCells \o e)[k] = IF k <= H THEN HeaderCells[k] ELSE e[k - H]
    BY <1>3, <2>2, ConcatProperties
  <2> QED BY <1>3, <2>1, <2>3
<1> HIDE DEF m
<1>5. ASSUME NEW k \in 1..Len(plain) PROVE bytes[H + k] = e[k]
  <2>1. H + k \in 1..(H + Len(plain)) /\ ~ (H + k <= H) /\ (H + k) - H = k BY <1>1, <1>3
  <2> QED BY <1>4, <2>1
<1>6. CASE Base(b) + Block <= Len(bytes)
  <2>1. m + Block <= Len(plain) BY <1>1, <1>2, <1>3, <1>4, <1>6
  <2>2. ASSUME NEW j \in 1..Block
        PROVE  bytes[Base(b) + j] = Encrypt([l \in 1..Block |-> plain[m + l]])[j]
    <3>1. m + j \in 1..Len(plain) /\ H + (m + j) = Base(b) + j BY <1>1, <1>2, <1>3, <2>1
    <3>2. e[m + j] = Encrypt([l \in 1..Block |-> plain[m + l]])[j]
      BY <1>2, <2>1, CryptBlock DEF e
    <3> QED BY <1>5, <3>1, <3>2
  <2>3. Base(b) + Block <= H + Len(plain) BY <1>4, <1>6
  <2> QED BY <1>6, <2>2, <2>3 DEF Right, m
<1>7. CASE ~ (Base(b) + Block <= Len(bytes))
  <2>1. Len(plain) < m + Block BY <1>1, <1>2, <1>3, <1>4, <1>7
  <2>2. ASSUME NEW j \in 1..Block PROVE Same(Base(b) + j)
    <3>1. m + j \in Nat \ {0} /\ Base(b) + j \in Nat \ {0} /\ H + (m + j) = Base(b) + j
          /\ (Base(b) + j) - H = m + j /\ m < m + j
      BY <1>1, <1>2
    <3>2. Base(b) + j <= Len(bytes) <=> m + j <= Len(plain) BY <1>1, <1>3, <1>4, <3>1
    <3>3. ASSUME m + j <= Len(plain) PROVE bytes[Base(b) + j] = plain[m + j]
      <4>1. m + j \in 1..Len(plain) BY <1>3, <3>1, <3>3
      <4>2. e[m + j] = plain[m + j] BY <1>2, <2>1, <3>1, <4>1, CryptTail DEF e
      <4> QED BY <1>5, <3>1, <4>1, <4>2
    <3>4. CellAt(bytes, Base(b) + j) = CellAt(plain, m + j)
      BY <1>4, <3>1, <3>2, <3>3, CellSame
    <3> QED BY <3>1, <3>4 DEF Same
  <2> QED BY <1>7, <2>2 DEF Right
<1> QED BY <1>6, <1>7

-----------------------------------------------------------------------------
(* The steps.                                                              *)

\* Only a write in progress touches blocks, and none of the header.
LEMMA Touches ==
  ASSUME DamageInv, NEW t \in Thread, NEW b \in touch[t]
  PROVE  /\ pc[t] \in WritePlaces /\ b \in Nat
         /\ b \notin spoiled => Pending(t, b) /\ Base(b) >= H
<1>1. touch[t] \subseteq Nat /\ Touching(t) BY DEF DamageInv
<1>2. pc[t] \in WritePlaces BY <1>1 DEF Touching
<1>3. b \notin spoiled => Pending(t, b) BY DEF DamageInv
<1>4. ASSUME Pending(t, b) PROVE Base(b) >= H
  <2>1. Base(b) \in Nat /\ Block \in Nat /\ H \in Nat /\ H % Block = 0 BY <1>1, Bases, Sizes
  <2>2. offset[t] < Base(b) + Block /\ offset[t] >= H /\ offset[t] \in Nat
    BY <1>2, <1>4, Writing DEF Pending
  <2>3. H < Base(b) + Block BY <2>1, <2>2
  <2> QED BY <1>1, <2>1, <2>3, NotBefore
<1> QED BY <1>1, <1>2, <1>3, <1>4

\* What is left to show of a step of thread t.
DamageKept(t) ==
  /\ \A b \in Nat : Base(b) >= H /\ b \notin spoiled' \cup InTouch' => Right(b)'
  /\ \A u \in Thread \ {t} : \A b \in touch[u] : b \notin spoiled' => Pending(u, b)'
  /\ \A b \in touch'[t] : b \notin spoiled' => Pending(t, b)'

\* What is enough for DamageInv to be kept by the step of a thread.
LEMMA DamageFrom ==
  ASSUME DamageInv, TypeOK', NEW t \in Thread, Alone(t), plain' \in Seq(Cell),
         touch' \in [Thread -> SUBSET Nat], \A u \in Thread \ {t} : touch'[u] = touch[u],
         Len(bytes) <= Len(bytes'), Touching(t)', InHand(t)',
         \A u \in Thread \ {t} : touch[u] \cap touch'[t] \subseteq spoiled',
         \A u, w \in Thread \ {t} : u # w => touch[u] \cap touch[w] \subseteq spoiled',
         DamageKept(t)
  PROVE  DamageInv'
<1>1. ASSUME NEW u \in Thread, u # t PROVE Touching(u)' /\ InHand(u)'
  <2>1. /\ pc'[u] = pc[u] /\ offset'[u] = offset[u] /\ arg'[u] = arg[u] /\ buf'[u] = buf[u]
        /\ touch'[u] = touch[u] /\ Touching(u) /\ InHand(u)
    BY <1>1 DEF Alone, DamageInv
  <2>2. InHand(u)' BY <2>1 DEF InHand, Lead
  <2>3. Touching(u)'
    <3>1. CASE pc[u] \in WritePlaces
      <4> DEFINE x == Smaller(offset[u], Len(bytes))
                 y == Smaller(offset[u], Len(bytes'))
                 e == offset[u] + Len(arg[u])
      <4>1. offset[u] \in Nat /\ e \in Nat /\ Len(bytes) \in Nat /\ Len(bytes') \in Nat
        BY <3>1, Writing, LenProperties DEF TypeOK, End
      <4>2. x \in Nat /\ y \in Nat /\ x <= y BY <4>1 DEF Smaller
      <4> HIDE DEF x, y, e
      <4>3. BlocksOf(y, e) \subseteq BlocksOf(x, e) BY <4>1, <4>2 DEF BlocksOf
      <4>4. Touched(offset[u], End(u)) = BlocksOf(x, e) BY DEF Touched, End, x, e
      <4>5. Touched(offset[u], End(u))' = BlocksOf(y, e) BY <2>1 DEF Touched, End, y, e
      <4> QED BY <2>1, <3>1, <4>3, <4>4, <4>5 DEF Touching
    <3>2. CASE pc[u] \notin WritePlaces BY <2>1, <3>2 DEF Touching
    <3> QED BY <3>1, <3>2
  <2> QED BY <2>2, <2>3
<1>2. Exclusive'
  <2> SUFFICES ASSUME NEW u \in Thread, NEW w \in Thread, u # w
               PROVE  touch'[u] \cap touch'[w] \subseteq spoiled'
    BY DEF Exclusive
  <2>1. CASE u = t BY <2>1
  <2>2. CASE w = t BY <2>2
  <2>3. CASE u # t /\ w # t BY <2>3
  <2> QED BY <2>1, <2>2, <2>3
<1>3. \A u \in Thread : \A b \in touch'[u] : b \notin spoiled' => Pending(u, b)'
  <2> SUFFICES ASSUME NEW u \in Thread, NEW b \in touch'[u], b \notin spoiled'
               PROVE  Pending(u, b)'
    OBVIOUS
  <2>1. CASE u = t BY <2>1 DEF DamageKept
  <2>2. CASE u # t BY <2>2 DEF DamageKept
  <2> QED BY <2>1, <2>2
<1> QED BY <1>1, <1>2, <1>3 DEF DamageInv, DamageKept

\* Which cells the write of the head changes: those of the block that t has begun.
LEMMA HeadSameBlock ==
  ASSUME DamageInv, NEW t \in Thread, write_head(t), NEW b \in Nat, Base(b) >= H,
         b \notin spoiled, ~ (Base(b) < offset[t] /\ offset[t] < Base(b) + Block)
  PROVE  SameBlock(b)
<1>1. pc[t] = "w_head" /\ pc[t] \in WritePlaces BY DEF write_head, Step, WritePlaces
<1>2. /\ offset[t] \in Nat /\ offset[t] < End(t) /\ Len(bytes) \in Nat /\ End(t) \in Nat
      /\ (Base(b) < End(t) /\ Len(bytes) < Base(b) + Block => b \in touch[t])
  BY <1>1, Writing
<1> DEFINE d == SubSeq(buf[t], 1, Lead(t))
           at == offset[t] - Lead(t)
<1>3. bytes' = Overlay(bytes, at, d) /\ plain' = plain BY DEF write_head
<1>4. d \in Seq(Cell) /\ Len(d) = Lead(t) BY <1>1, HeadType DEF DamageInv
<1>5. bytes \in Seq(Cell) BY DEF DamageInv, TypeOK
<1>6. Base(b) \in Nat /\ Block \in Nat \ {0} /\ H \in Nat BY Bases, Sizes
<1>7. Lead(t) \in 0..(Block - 1) BY Place DEF DamageInv
<1>8. at \in Nat /\ at % Block = 0 /\ at + Lead(t) = offset[t]
  <2>1. at \in Nat /\ at % Block = 0 BY <1>2, BlockEnds DEF Lead
  <2> QED BY <1>2, <1>6, <1>7, <2>1
<1> HIDE DEF d, at
<1>9. ASSUME NEW i \in (Base(b) + 1)..(Base(b) + Block)
      PROVE  CellAt(bytes', i) = CellAt(bytes, i)
  <2>1. i \in Nat \ {0} BY <1>6
  <2>2. ~ (at < i /\ i <= at + Len(d))
    <3> SUFFICES ASSUME at < i, i <= offset[t] PROVE FALSE BY <1>4, <1>8
    <3>1. offset[t] >= Base(b) + Block BY <1>2, <1>6, <2>1
    <3>2. Base(b) < at BY <1>2, <1>6, <1>7, <1>8, <3>1
    <3>3. Base(b) + Block <= at BY <1>8, <3>2, NotBehind
    <3> QED BY <1>6, <1>8, <3>3
  <2>3. i <= Len(bytes) \/ at < i
    <3> SUFFICES ASSUME i > Len(bytes), i <= at PROVE FALSE BY <1>2, <1>8, <2>1
    <3>1. Base(b) < at BY <1>6, <1>8
    <3>2. Base(b) + Block <= at BY <1>8, <3>1, NotBehind
    <3>3. b \in touch[t] BY <1>2, <1>6, <1>7, <1>8, <3>1, <2>1
    <3>4. offset[t] < Base(b) + Block BY <3>3, Touches DEF Pending
    <3> QED BY <1>2, <1>6, <1>7, <1>8, <3>2, <3>4
  <2>4. CellAt(Overlay(bytes, at, d), i) = CellAt(bytes, i)
    BY <1>4, <1>5, <1>8, <2>1, <2>2, <2>3, OverlayCell
  <2> QED BY <1>3, <2>4
<1> QED BY <1>3, <1>9 DEF SameBlock

\* A step that leaves the file and the text alone leaves every block as it is, and
\* what the other threads have to do with it.
LEMMA Unwritten ==
  ASSUME DamageInv, bytes' = bytes, plain' = plain, NEW t \in Thread, Alone(t)
  PROVE  /\ plain' \in Seq(Cell) /\ Len(bytes) <= Len(bytes')
         /\ \A b \in Nat : (Right(b)' <=> Right(b)) /\ SameBlock(b)
         /\ \A u \in Thread \ {t} : \A b \in touch[u] : b \notin spoiled => Pending(u, b)'
<1>1. Contents /\ Contents' BY DEF DamageInv, TypeOK, Contents
<1>2. \A b \in Nat : SameBlock(b) BY DEF SameBlock
<1>3. \A b \in Nat : Right(b)' <=> Right(b) BY DEF Right, Same
<1>4. ASSUME NEW u \in Thread \ {t}, NEW b \in touch[u], b \notin spoiled PROVE Pending(u, b)'
  <2>1. b \in Nat /\ Base(b) >= H /\ Pending(u, b) BY <1>4, Touches
  <2>2. offset[u] \in Nat BY DEF DamageInv, TypeOK
  <2>3. pc'[u] = pc[u] /\ offset'[u] = offset[u] /\ arg'[u] = arg[u] /\ buf'[u] = buf[u]
    BY DEF Alone
  <2> QED BY <1>1, <1>2, <2>1, <2>2, <2>3, PendingKept
<1>5. Len(bytes) \in Nat BY LenProperties DEF DamageInv, TypeOK
<1> QED BY <1>1, <1>2, <1>3, <1>4, <1>5 DEF Contents

\* Steps of read and lseek.
LEMMA DamageQuiet ==
  ASSUME DamageInv, TypeOK', NEW t \in Thread, Alone(t),
         UNCHANGED <<bytes, plain, touch, spoiled>>,
         pc[t] \notin WritePlaces, pc'[t] \notin WritePlaces
  PROVE  DamageInv'
<1>1. touch[t] = {} /\ touch' \in [Thread -> SUBSET Nat] BY DEF DamageInv, Touching
<1>2. Touching(t)' /\ InHand(t)' BY <1>1 DEF Touching, InHand, WritePlaces
<1>3. \A u, w \in Thread : u # w => touch[u] \cap touch[w] \subseteq spoiled
  BY DEF DamageInv, Exclusive
<1>4. DamageKept(t)
  <2>1. \A b \in Nat : Base(b) >= H /\ b \notin spoiled' \cup InTouch' => Right(b)'
    BY Unwritten DEF DamageInv, InTouch
  <2>2. \A u \in Thread \ {t} : \A b \in touch[u] : b \notin spoiled' => Pending(u, b)'
    BY Unwritten
  <2> QED BY <1>1, <2>1, <2>2 DEF DamageKept
<1> QED BY <1>1, <1>2, <1>3, <1>4, Unwritten, DamageFrom

\* Reading and seeking change no block.
LEMMA DamageRead ==
  ASSUME DamageInv, TypeOK', NEW t \in Thread, ReadStep(t) \/ SeekStep(t)
  PROVE  DamageInv'
<1>1. Alone(t) BY ReadAlone, SeekAlone DEF DamageInv
<1>2. UNCHANGED <<bytes, plain, touch, spoiled>>
  BY DEF ReadStep, SeekStep, read_offset, read_skip, read_head, read_data, read_tail, lseek, Begin
<1>3. pc[t] \notin WritePlaces /\ pc'[t] \notin WritePlaces
  <2>1. DOMAIN pc = Thread BY DEF DamageInv, TypeOK
  <2> QED
    BY <2>1 DEF ReadStep, SeekStep, read_offset, read_skip, read_head, read_data, read_tail, lseek,
                Step, WritePlaces
<1> QED BY <1>1, <1>2, <1>3, DamageQuiet

\* A write begins: what it counts as touched and not as spoiled it can complete.
LEMMA DamageOffset ==
  ASSUME DamageInv, TypeOK', NEW t \in Thread, NEW d \in Payloads, write_offset(t, d)
  PROVE  DamageInv'
<1> DEFINE o == At(t)
           end == o + Len(d)
           mine == Touched(o, end)
<1>1. Alone(t) BY WriteAlone DEF DamageInv, WriteStep
<1>2. /\ pc[t] = "idle" /\ pc'[t] = "w_open" /\ offset'[t] = o /\ arg'[t] = d
      /\ bytes' = bytes /\ plain' = plain /\ touch' = [touch EXCEPT ![t] = mine]
      /\ spoiled' = spoiled \cup (mine \cap OthersTouch(t))
                            \cup (IF Good(o, end) THEN {} ELSE mine)
      /\ t \in setup.writers
  BY DEF write_offset, Begin, Step, DamageInv, TypeOK
<1>3. d \in Seq(Cell) /\ Len(d) \in Nat \ {0}
  <2>1. d \in Seq(Cell) /\ d # <<>> BY StepsAssumption
  <2> QED BY <2>1, EmptySeq, LenProperties
<1>4. o \in Nat /\ o >= H /\ H \in Nat /\ H % Block = 0 /\ Block \in Nat \ {0}
  BY <1>2, Place, Sizes DEF DamageInv, TypeOK, InCall
<1>5. end \in Nat /\ o < end BY <1>3, <1>4
<1>6. Len(bytes) \in Nat /\ Len(bytes) >= H
  BY LenProperties DEF DamageInv, TypeOK, Sealed, is_encrypted_by_file_header, H
<1> HIDE DEF o, end
<1> DEFINE x == Smaller(o, Len(bytes))
<1>7. x \in Nat /\ x >= H /\ (o <= Len(bytes) => x = o) BY <1>4, <1>6 DEF Smaller
<1>8. mine = BlocksOf(x, end) BY DEF Touched
<1> HIDE DEF x, mine
<1>9. mine \subseteq Nat
  <2>1. \A k \in x..(end - 1) : k \in Nat BY <1>5, <1>7
  <2>2. \A k \in x..(end - 1) : k \div Block \in Nat BY <2>1, BlockIs
  <2> QED BY <1>8, <2>2 DEF BlocksOf
<1>10. touch[t] = {} /\ touch \in [Thread -> SUBSET Nat]
  BY <1>2 DEF DamageInv, Touching, WritePlaces
<1>11. touch' \in [Thread -> SUBSET Nat] /\ touch'[t] = mine
       /\ \A u \in Thread \ {t} : touch'[u] = touch[u]
  BY <1>2, <1>9, <1>10
<1>12. spoiled \subseteq spoiled' /\ mine \cap OthersTouch(t) \subseteq spoiled' BY <1>2
<1>13. Touching(t)' /\ InHand(t)'
  <2>1. InHand(t)' BY <1>2 DEF InHand
  <2>2. Touched(offset[t], End(t))' = mine BY <1>2 DEF Touched, End, mine, end
  <2> QED BY <1>2, <1>11, <2>1, <2>2 DEF Touching, WritePlaces
<1>14. \A u \in Thread \ {t} : touch[u] \cap touch'[t] \subseteq spoiled'
  BY <1>11, <1>12 DEF OthersTouch
<1>15. \A u, w \in Thread \ {t} : u # w => touch[u] \cap touch[w] \subseteq spoiled'
  BY <1>12 DEF DamageInv, Exclusive
<1>16. ASSUME NEW b \in mine, b \notin spoiled' PROVE Pending(t, b)'
  <2>1. b \in Nat /\ b \notin spoiled /\ b \notin InTouch
    BY <1>9, <1>10, <1>12, <1>16 DEF OthersTouch, InTouch
  <2>2. Good(o, end) BY <1>2, <1>16
  <2>3. x = o /\ o <= Len(bytes) BY <1>7, <2>2 DEF Good
  <2>4. o < Base(b) + Block /\ Base(b) < end BY <1>4, <1>5, <1>8, <1>16, <2>1, <2>3, InBlocksOf
  <2>5. Base(b) \in Nat /\ Base(b) % Block = 0 BY <2>1, Bases
  <2>6. Base(b) >= H
    <3>1. H < Base(b) + Block BY <1>4, <2>4, <2>5
    <3> QED BY <1>4, <2>1, <3>1, NotBefore
  <2>7. Right(b) BY <2>1, <2>6 DEF DamageInv
  <2>8. (offset[t] < Base(b) + Block /\ Base(b) < End(t))' BY <1>2, <2>4 DEF End, end
  <2>9. Covers(t, b)' <=> (o <= Base(b) /\ Base(b) + Block <= end) BY <1>2 DEF Covers, End, end
  <2>10. CASE o <= Base(b) /\ Base(b) + Block <= end
    <3>1. Right(b)' BY <1>1, <1>2, <2>1, <2>7, Unwritten
    <3> QED BY <2>8, <2>9, <2>10, <3>1 DEF Pending
  <2>11. CASE ~ (o <= Base(b) /\ Base(b) + Block <= end)
    <3>1. Len(bytes) < Base(b) + Block
      <4> SUFFICES ASSUME Base(b) + Block <= Len(bytes) PROVE FALSE BY <1>4, <1>6, <2>5
      <4>1. Base(b) + Block <= TailStart
        <5>1. Base(b) < Complete(Len(bytes))
          <6>1. Len(bytes) < Complete(Len(bytes)) + Block /\ Complete(Len(bytes)) \in Nat
            BY <1>6, CompleteBounds
          <6> QED BY <1>4, <1>6, <2>5, <6>1
        <5>2. Base(b) + Block <= Complete(Len(bytes))
          BY <1>6, <2>1, <5>1, CompleteBounds, NotBehind
        <5> QED BY <5>2 DEF TailStart, Complete
      <4>2. TailStart \in Nat BY <1>6, BlockEnds DEF TailStart
      <4>3. CASE ~ (o <= Base(b))
        <5>1. o % Block # 0
          <6>1. o % Block = 0 => Base(b) + Block <= o BY <1>4, <2>1, <2>5, <4>3, NotBehind
          <6> QED BY <1>4, <2>4, <2>5, <6>1
        <5>2. TailStart <= o BY <2>2, <5>1 DEF Good
        <5> QED BY <1>4, <2>4, <2>5, <4>1, <4>2, <5>2
      <4>4. CASE ~ (Base(b) + Block <= end)
        <5>1. end % Block # 0
          <6>1. end % Block = 0 => Base(b) + Block <= end BY <1>5, <2>1, <2>4, NotBehind
          <6> QED BY <4>4, <6>1
        <5>2. TailStart < end BY <2>2, <5>1 DEF Good
        <5> QED BY <1>4, <1>5, <2>5, <4>1, <4>2, <4>4, <5>2
      <4> QED BY <2>11, <4>3, <4>4
    <3>2. ~ (Base(b) + Block <= Len(bytes)) BY <1>4, <1>6, <2>5, <3>1
    <3>3. \A j \in 1..Block : Same(Base(b) + j) BY <2>7, <3>2 DEF Right
    <3>4. \A j \in 1..Block : Same(Base(b) + j)' BY <1>2, <3>3 DEF Same
    <3>5. ASSUME NEW j \in 1..Block, Base(b) + j <= o
          PROVE  Base(b) + j <= Len(bytes) /\ (Base(b) + j) - H <= Len(plain)
      <4>1. Base(b) + j \in (Base(b) + 1)..(Base(b) + Block) BY <1>4, <2>5
      <4>2. Base(b) + j <= Len(bytes) BY <1>4, <1>6, <2>3, <2>5, <3>5
      <4> QED BY <2>1, <2>6, <4>1, <4>2, Level
    <3>6. InPart(t, b)' BY <1>2, <3>1, <3>4, <3>5 DEF InPart
    <3> QED BY <2>8, <2>9, <2>11, <3>6 DEF Pending
  <2> QED BY <2>10, <2>11
<1>17. DamageKept(t)
  <2>1. ASSUME NEW b \in Nat, Base(b) >= H, b \notin spoiled' \cup InTouch' PROVE Right(b)'
    <3>1. b \notin spoiled \cup InTouch BY <1>10, <1>11, <1>12, <2>1 DEF InTouch
    <3> QED BY <1>1, <1>2, <2>1, <3>1, Unwritten DEF DamageInv
  <2>2. \A u \in Thread \ {t} : \A b \in touch[u] : b \notin spoiled' => Pending(u, b)'
    BY <1>1, <1>2, <1>12, Unwritten
  <2> QED BY <1>11, <1>16, <2>1, <2>2 DEF DamageKept
<1>18. plain' \in Seq(Cell) /\ Len(bytes) <= Len(bytes') BY <1>1, <1>2, Unwritten
<1> QED BY <1>1, <1>11, <1>13, <1>14, <1>15, <1>17, <1>18, DamageFrom

\* The head of the first block is read: it is the text in front of the offset.
LEMMA DamageOpen ==
  ASSUME DamageInv, TypeOK', NEW t \in Thread, write_open(t)
  PROVE  DamageInv'
<1> DEFINE head == Overlay(Zeros(Lead(t)), 0, Window(bytes, offset[t] - Lead(t), Lead(t)))
           p == head \o arg[t]
           at == offset[t] - Lead(t)
<1>1. Alone(t) BY WriteAlone DEF DamageInv, WriteStep
<1>2. /\ pc[t] = "w_open" /\ pc'[t] = "w_head" /\ offset'[t] = offset[t] /\ arg'[t] = arg[t]
      /\ UNCHANGED <<bytes, plain, touch, spoiled>> /\ buf'[t] = aes_encrypt(p)
      /\ pc[t] \in WritePlaces /\ pc'[t] \in WritePlaces
  BY DEF write_open, Step, DamageInv, TypeOK, WritePlaces
<1>3. /\ offset[t] \in Nat /\ arg[t] \in Seq(Cell) /\ H \in Nat
      /\ Len(bytes) \in Nat /\ Len(arg[t]) \in Nat
  BY <1>2, Writing
<1>4. Lead(t) \in 0..(Block - 1) /\ Lead(t) \in Nat /\ at \in Nat /\ Block \in Nat \ {0}
      /\ at + Lead(t) = offset[t]
  <2>1. Lead(t) \in 0..(Block - 1) /\ at \in Nat BY Place DEF DamageInv
  <2>2. Block \in Nat \ {0} BY Sizes
  <2> QED BY <1>3, <2>1, <2>2
<1>5. bytes \in Seq(Cell) /\ plain \in Seq(Cell) BY DEF DamageInv, TypeOK
<1>6. /\ head \in Seq(Cell) /\ Len(head) = Lead(t)
      /\ \A j \in 1..Lead(t) : at + j <= Len(bytes) => head[j] = bytes[at + j]
  BY <1>4, <1>5, PrefixCells
<1> HIDE DEF head, at
<1>7. /\ p \in Seq(Cell)
      /\ \A j \in 1..Lead(t) : p[j] = head[j]
      /\ \A j \in 1..Len(arg[t]) : p[Lead(t) + j] = arg[t][j]
  <2> DEFINE d == arg[t]
  <2>1. d \in Seq(Cell) /\ Len(d) \in Nat BY <1>3
  <2> HIDE DEF d
  <2>2. /\ head \o d \in Seq(Cell) /\ Len(head \o d) = Len(head) + Len(d)
        /\ \A i \in 1..(Len(head) + Len(d)) :
             (head \o d)[i] = IF i <= Len(head) THEN head[i] ELSE d[i - Len(head)]
    BY <1>6, <2>1, ConcatProperties
  <2>3. ASSUME NEW j \in 1..Lead(t) PROVE (head \o d)[j] = head[j]
    <3>1. j \in 1..(Len(head) + Len(d)) /\ j <= Len(head) BY <1>4, <1>6, <2>1
    <3> QED BY <2>2, <3>1
  <2>4. ASSUME NEW j \in 1..Len(d) PROVE (head \o d)[Lead(t) + j] = d[j]
    <3>1. /\ Lead(t) + j \in 1..(Len(head) + Len(d)) /\ ~ (Lead(t) + j <= Len(head))
          /\ (Lead(t) + j) - Len(head) = j
      BY <1>4, <1>6, <2>1
    <3> QED BY <2>2, <3>1
  <2> QED BY <2>2, <2>3, <2>4 DEF d
<1> HIDE DEF p
<1>8. aes_decrypt(buf'[t]) = p BY <1>2, <1>7, DecryptEncrypt
<1>9. InHand(t)'
  <2>1. Lead(t)' = Lead(t) BY <1>2 DEF Lead
  <2> QED BY <1>2, <1>7, <1>8, <2>1 DEF InHand
<1>10. Touching(t)'
  <2>1. Touching(t) BY DEF DamageInv
  <2> QED BY <1>2, <2>1 DEF Touching, Touched, End
<1>11. ASSUME NEW b \in touch[t], b \notin spoiled PROVE Pending(t, b)'
  <2>1. b \in Nat /\ Pending(t, b) /\ Base(b) >= H BY <1>11, Touches
  <2>2. (offset[t] < Base(b) + Block /\ Base(b) < End(t))' BY <1>2, <2>1 DEF Pending, End
  <2>3. Covers(t, b)' <=> Covers(t, b) BY <1>2 DEF Covers, End
  <2>4. CASE Covers(t, b)
    <3>1. Right(b)' BY <1>1, <1>2, <2>1, <2>4, Unwritten DEF Pending
    <3> QED BY <2>2, <2>3, <2>4, <3>1 DEF Pending
  <2>5. CASE ~ Covers(t, b)
    <3>1. InPart(t, b) BY <2>1, <2>5 DEF Pending
    <3>2. \A j \in 1..Block : Same(Base(b) + j) BY <1>2, <3>1 DEF InPart
    <3>3. \A j \in 1..Block : Same(Base(b) + j)' BY <1>2, <3>2 DEF Same
    <3>4. ASSUME NEW j \in 1..Block, Base(b) + j <= offset[t]
          PROVE  p[j] = plain[(Base(b) + j) - H]
      <4>1. Base(b) \in Nat BY <2>1, Bases
      <4>2. Base(b) <= offset[t] /\ offset[t] < Base(b) + Block
        BY <1>3, <1>4, <2>1, <3>4, <4>1 DEF Pending
      <4>3. Base(b) = at
        <5>1. b = offset[t] \div Block BY <1>3, <2>1, <4>2, BlockIs
        <5> QED BY <1>3, <5>1, BlockIs DEF at, Lead
      <4>4. j \in 1..Lead(t) /\ Base(b) + j <= Len(bytes)
        BY <1>3, <1>4, <3>1, <3>4, <4>3 DEF InPart
      <4>5. p[j] = bytes[Base(b) + j] BY <1>6, <1>7, <4>3, <4>4
      <4>6. CellAt(bytes, Base(b) + j) = CellAt(plain, (Base(b) + j) - H)
        BY <3>2 DEF Same
      <4>7. Base(b) + j \in Int /\ (Base(b) + j) - H \in Int /\ 1 <= Base(b) + j
        BY <1>3, <4>1
      <4>8. bytes[Base(b) + j] = plain[(Base(b) + j) - H]
        BY <1>5, <4>4, <4>6, <4>7, CellSame
      <4> QED BY <4>5, <4>8
    <3>5. InPart(t, b)' BY <1>2, <1>8, <3>1, <3>3, <3>4 DEF InPart
    <3> QED BY <2>2, <2>3, <2>5, <3>5 DEF Pending
  <2> QED BY <2>4, <2>5
<1>12. DamageKept(t)
  <2>1. ASSUME NEW b \in Nat, Base(b) >= H, b \notin spoiled' \cup InTouch' PROVE Right(b)'
    <3>1. b \notin spoiled \cup InTouch BY <1>2, <2>1 DEF InTouch
    <3> QED BY <1>1, <1>2, <2>1, <3>1, Unwritten DEF DamageInv
  <2>2. \A u \in Thread \ {t} : \A b \in touch[u] : b \notin spoiled' => Pending(u, b)'
    BY <1>1, <1>2, Unwritten
  <2> QED BY <1>2, <1>11, <2>1, <2>2 DEF DamageKept
<1>13. \A u, w \in Thread : u # w => touch[u] \cap touch[w] \subseteq spoiled
  BY DEF DamageInv, Exclusive
<1>14. touch' \in [Thread -> SUBSET Nat] BY <1>2 DEF DamageInv
<1>15. plain' \in Seq(Cell) /\ Len(bytes) <= Len(bytes') BY <1>1, <1>2, Unwritten
<1> QED BY <1>1, <1>2, <1>9, <1>10, <1>12, <1>13, <1>14, <1>15, DamageFrom

\* The blocks that t does not touch stay as they are, and others have to do with
\* no others.
LEMMA OthersApart ==
  ASSUME DamageInv, NEW t \in Thread, NEW u \in Thread \ {t}, NEW b \in touch[u], b \notin spoiled
  PROVE  b \notin touch[t]
  BY DEF DamageInv, Exclusive

\* The head of the first block is written.
LEMMA DamageHead ==
  ASSUME DamageInv, TypeOK', NEW t \in Thread, write_head(t)
  PROVE  DamageInv'
<1> DEFINE d == SubSeq(buf[t], 1, Lead(t))
           at == offset[t] - Lead(t)
<1>1. Alone(t) BY WriteAlone DEF DamageInv, WriteStep
<1>2. /\ pc[t] = "w_head" /\ pc'[t] = "w_data" /\ offset'[t] = offset[t] /\ arg'[t] = arg[t]
      /\ buf'[t] = buf[t] /\ UNCHANGED <<plain, touch, spoiled>>
      /\ bytes' = Overlay(bytes, at, d)
      /\ pc[t] \in WritePlaces /\ pc'[t] \in WritePlaces
  BY DEF write_head, Step, DamageInv, TypeOK, WritePlaces
<1>3. /\ offset[t] \in Nat /\ arg[t] \in Seq(Cell) /\ H \in Nat /\ End(t) \in Nat
      /\ Len(bytes) \in Nat /\ Len(arg[t]) \in Nat /\ offset[t] >= H /\ offset[t] < End(t)
  BY <1>2, Writing
<1>4. /\ d \in Seq(Cell) /\ Len(d) = Lead(t) /\ \A k \in 1..Lead(t) : d[k] = buf[t][k]
  BY <1>2, HeadType DEF DamageInv
<1>5. Lead(t) \in 0..(Block - 1) /\ Lead(t) \in Nat /\ at \in Nat /\ Block \in Nat \ {0}
      /\ at + Lead(t) = offset[t] /\ at >= H
  <2>1. Lead(t) \in 0..(Block - 1) /\ at \in Nat /\ at >= H BY <1>3, Place DEF DamageInv
  <2>2. Block \in Nat \ {0} BY Sizes
  <2> QED BY <1>3, <2>1, <2>2
<1>6. bytes \in Seq(Cell) /\ plain \in Seq(Cell) BY DEF DamageInv, TypeOK
<1> HIDE DEF d
<1>7. /\ bytes' \in Seq(Cell) /\ Len(bytes') \in Nat
      /\ Len(bytes') = IF d = <<>> THEN Len(bytes) ELSE Larger(Len(bytes), at + Len(d))
  <2>1. at \in Nat BY <1>5
  <2> HIDE DEF at
  <2>2. /\ Overlay(bytes, at, d) \in Seq(Cell)
        /\ d = <<>> => Len(Overlay(bytes, at, d)) = Len(bytes)
        /\ d # <<>> => Len(Overlay(bytes, at, d)) = Larger(Len(bytes), at + Len(d))
    BY <1>4, <1>6, <2>1, OverlayType
  <2>3. Len(Overlay(bytes, at, d)) \in Nat BY <2>2, LenProperties
  <2> QED BY <1>2, <2>2, <2>3
<1> HIDE DEF at
<1>8. Len(bytes) <= Len(bytes') BY <1>3, <1>7 DEF Larger
<1>9. Contents /\ Contents' BY <1>2, <1>6, <1>7 DEF Contents
<1>10. Touching(t)' /\ InHand(t)'
  <2>1. InHand(t) /\ Touching(t) BY DEF DamageInv
  <2>2. InHand(t)' BY <1>2, <2>1 DEF InHand, Lead
  <2> DEFINE x == Smaller(offset[t], Len(bytes))
             y == Smaller(offset[t], Len(bytes'))
             e == offset[t] + Len(arg[t])
  <2>3. x \in Nat /\ y \in Nat /\ x <= y /\ e \in Nat BY <1>3, <1>7, <1>8 DEF Smaller
  <2>4. Touched(offset[t], End(t)) = BlocksOf(x, e) BY DEF Touched, End
  <2>5. Touched(offset[t], End(t))' = BlocksOf(y, e) BY <1>2 DEF Touched, End
  <2> HIDE DEF x, y, e
  <2>6. BlocksOf(y, e) \subseteq BlocksOf(x, e) BY <2>3 DEF BlocksOf
  <2> QED BY <1>2, <2>1, <2>2, <2>4, <2>5, <2>6 DEF Touching
<1>11. ASSUME NEW b \in Nat, Base(b) >= H, b \notin spoiled, b \notin touch[t] PROVE SameBlock(b)
  <2>1. ~ (Base(b) < offset[t] /\ offset[t] < Base(b) + Block)
    <3> SUFFICES ASSUME Base(b) < offset[t], offset[t] < Base(b) + Block PROVE FALSE OBVIOUS
    <3>1. Base(b) \in Nat BY Bases
    <3>2. Base(b) < End(t) BY <1>3, <3>1
    <3> QED BY <1>2, <1>11, <3>2, Writing
  <2> QED BY <1>11, <2>1, HeadSameBlock
<1>12. ASSUME NEW b \in touch[t], b \notin spoiled PROVE Pending(t, b)'
  <2>1. b \in Nat /\ Pending(t, b) /\ Base(b) >= H BY <1>12, Touches
  <2>2. Base(b) \in Nat BY <2>1, Bases
  <2>3. offset[t] < Base(b) + Block /\ Base(b) < End(t) BY <2>1 DEF Pending
  <2>4. (offset[t] < Base(b) + Block /\ Base(b) < End(t))' BY <1>2, <2>3 DEF End
  <2>5. Covers(t, b)' <=> Covers(t, b) BY <1>2 DEF Covers, End
  <2>6. CASE offset[t] <= Base(b)
    <3>1. SameBlock(b)
      <4>1. ~ (Base(b) < offset[t] /\ offset[t] < Base(b) + Block) BY <1>3, <2>2, <2>6
      <4> QED BY <1>12, <2>1, <4>1, HeadSameBlock
    <3>2. CASE Covers(t, b)
      <4>1. Right(b)' BY <1>9, <2>1, <3>1, <3>2, RightKept DEF Pending
      <4> QED BY <2>4, <2>5, <3>2, <4>1 DEF Pending
    <3>3. CASE ~ Covers(t, b)
      <4>1. InPart(t, b) BY <2>1, <3>3 DEF Pending
      <4>2. Len(bytes') < Base(b) + Block
        <5>1. Block \in 1..Block BY <1>5
        <5>2. ~ (Base(b) + Block <= Len(bytes)) BY <1>3, <1>5, <2>2, <4>1 DEF InPart
        <5>3. ~ (Base(b) + Block <= Len(bytes')) BY <1>9, <2>1, <3>1, <5>1, <5>2, SameCells
        <5> QED BY <1>5, <1>7, <2>2, <5>3
      <4>3. \A j \in 1..Block : Same(Base(b) + j)'
        <5>1. \A j \in 1..Block : Base(b) + j \in (Base(b) + 1)..(Base(b) + Block)
          BY <1>5, <2>2
        <5>2. \A j \in 1..Block : Same(Base(b) + j) BY <1>2, <4>1 DEF InPart
        <5> QED BY <3>1, <5>1, <5>2 DEF SameBlock, Same
      <4>4. \A j \in 1..Block : ~ (Base(b) + j <= offset[t]) BY <1>3, <2>2, <2>6
      <4>5. InPart(t, b)' BY <1>2, <4>2, <4>3, <4>4 DEF InPart
      <4> QED BY <2>4, <2>5, <3>3, <4>5 DEF Pending
    <3> QED BY <3>2, <3>3
  <2>7. CASE Base(b) < offset[t]
    <3>1. ~ Covers(t, b) BY <1>3, <2>2, <2>7 DEF Covers
    <3>2. InPart(t, b) BY <2>1, <3>1 DEF Pending
    <3>3. Base(b) = at
      <4>1. Base(b) <= offset[t] /\ offset[t] < Base(b) + Block BY <1>3, <2>2, <2>3, <2>7
      <4>2. b = offset[t] \div Block BY <1>3, <2>1, <4>1, BlockIs
      <4> QED BY <1>3, <4>2, BlockIs DEF at, Lead
    <3>4. Lead(t) \in 1..Block /\ Base(b) + Lead(t) = offset[t] BY <1>3, <1>5, <2>2, <2>7, <3>3
    <3>5. offset[t] <= Len(bytes)
      <4>1. Base(b) + Lead(t) <= Len(bytes) BY <1>3, <3>2, <3>4 DEF InPart
      <4> QED BY <3>4, <4>1
    <3>6. Len(bytes') = Len(bytes) BY <1>3, <1>4, <1>5, <1>7, <3>5 DEF Larger
    <3>7. ASSUME NEW j \in 1..Block, Base(b) + j > offset[t] PROVE Same(Base(b) + j)'
      <4>1. Same(Base(b) + j) BY <3>2, <3>7 DEF InPart
      <4>2. Base(b) + j \in Nat \ {0} /\ at < Base(b) + j /\ ~ (Base(b) + j <= at + Len(d))
        BY <1>3, <1>4, <1>5, <2>2, <3>3, <3>7
      <4>3. CellAt(Overlay(bytes, at, d), Base(b) + j) = CellAt(bytes, Base(b) + j)
        BY <1>4, <1>5, <1>6, <4>2, OverlayCell
      <4>4. CellAt(bytes', Base(b) + j) = CellAt(bytes, Base(b) + j) BY <1>2, <4>3 DEF at
      <4> QED BY <1>2, <4>1, <4>4 DEF Same
    <3>8. ASSUME NEW j \in 1..Block, Base(b) + j <= offset[t]
          PROVE  /\ Base(b) + j <= Len(bytes') /\ (Base(b) + j) - H <= Len(plain)
                 /\ aes_decrypt(buf[t])[j] = plain[(Base(b) + j) - H]
                 /\ bytes'[Base(b) + j] = buf[t][j]
      <4>1. /\ Base(b) + j <= Len(bytes) /\ (Base(b) + j) - H <= Len(plain)
            /\ aes_decrypt(buf[t])[j] = plain[(Base(b) + j) - H]
        BY <1>2, <3>2, <3>8 DEF InPart
      <4>2. j \in 1..Lead(t) BY <1>5, <2>2, <3>4, <3>8
      <4>3. /\ Base(b) + j \in Nat \ {0} /\ at < Base(b) + j /\ Base(b) + j <= at + Len(d)
            /\ (Base(b) + j) - at = j
        BY <1>4, <1>5, <2>2, <3>3, <4>2
      <4>4. Overlay(bytes, at, d)[Base(b) + j] = d[(Base(b) + j) - at]
        <5>1. bytes \in Seq(Cell) /\ at \in Nat /\ d \in Seq(Cell) BY <1>4, <1>5, <1>6
        <5> QED BY <4>3, <5>1, OverlayCell, Zenon
      <4>5. bytes'[Base(b) + j] = d[j] BY <1>2, <4>3, <4>4 DEF at
      <4> QED BY <1>4, <3>6, <4>1, <4>2, <4>5
    <3>9. Len(bytes') < Base(b) + Block BY <3>2, <3>6 DEF InPart
    <3>10. InPart(t, b)' BY <1>2, <3>7, <3>8, <3>9 DEF InPart
    <3> QED BY <2>4, <2>5, <3>1, <3>10 DEF Pending
  <2> QED BY <1>3, <2>2, <2>6, <2>7
<1>13. DamageKept(t)
  <2>1. ASSUME NEW b \in Nat, Base(b) >= H, b \notin spoiled' \cup InTouch' PROVE Right(b)'
    <3>1. b \notin spoiled /\ b \notin touch[t] /\ b \notin InTouch BY <1>2, <2>1 DEF InTouch
    <3>2. Right(b) /\ SameBlock(b) BY <1>11, <2>1, <3>1 DEF DamageInv
    <3> QED BY <1>9, <2>1, <3>2, RightKept
  <2>2. ASSUME NEW u \in Thread \ {t}, NEW b \in touch[u], b \notin spoiled PROVE Pending(u, b)'
    <3>1. b \in Nat /\ Base(b) >= H /\ Pending(u, b) BY <2>2, Touches
    <3>2. SameBlock(b) BY <1>11, <2>2, <3>1, OthersApart
    <3>3. offset[u] \in Nat BY DEF DamageInv, TypeOK
    <3>4. pc'[u] = pc[u] /\ offset'[u] = offset[u] /\ arg'[u] = arg[u] /\ buf'[u] = buf[u]
      BY <1>1 DEF Alone
    <3> QED BY <1>9, <3>1, <3>2, <3>3, <3>4, PendingKept
  <2> QED BY <1>2, <1>12, <2>1, <2>2 DEF DamageKept
<1>14. \A u, w \in Thread : u # w => touch[u] \cap touch[w] \subseteq spoiled
  BY DEF DamageInv, Exclusive
<1>15. touch' \in [Thread -> SUBSET Nat] /\ plain' \in Seq(Cell) BY <1>2, <1>6 DEF DamageInv
<1> QED BY <1>1, <1>2, <1>8, <1>10, <1>13, <1>14, <1>15, DamageFrom

\* What a thread holds when it writes its data.
Text(t) == aes_decrypt(buf[t])
First(t) == offset[t] - Lead(t)

\* What a thread has in its buffer before its last system call.
LEMMA Holding ==
  ASSUME DamageInv, NEW t \in Thread, pc[t] = "w_data"
  PROVE  /\ offset[t] \in Nat /\ H \in Nat /\ offset[t] >= H /\ Lead(t) \in Nat
         /\ First(t) \in Nat /\ First(t) % Block = 0 /\ First(t) + Lead(t) = offset[t]
         /\ First(t) >= H
         /\ End(t) \in Nat /\ offset[t] < End(t)
         /\ buf[t] \in Seq(Cell) /\ Text(t) \in Seq(Cell) /\ buf[t] = aes_encrypt(Text(t))
         /\ Len(Text(t)) \in Nat /\ First(t) + Len(Text(t)) = End(t)
         /\ Len(buf[t]) = Len(Text(t))
         /\ \A j \in 1..Len(arg[t]) : Text(t)[Lead(t) + j] = arg[t][j]
<1>1. pc[t] \in WritePlaces /\ InCall(t) /\ InHand(t) /\ TypeOK
  BY DEF WritePlaces, DamageInv, TypeOK
<1>2. /\ offset[t] \in Nat /\ offset[t] >= H /\ H \in Nat /\ End(t) \in Nat
      /\ offset[t] < End(t) /\ Len(arg[t]) \in Nat
  BY <1>1, Writing
<1>3. Lead(t) \in 0..(Block - 1) /\ First(t) \in Nat /\ First(t) >= H
  BY <1>1, <1>2, Place DEF First
<1>4. Lead(t) \in Nat BY <1>3, Sizes
<1>5. First(t) + Lead(t) = offset[t] BY <1>2, <1>4 DEF First
<1>6. First(t) % Block = 0 BY <1>2, BlockEnds DEF First, Lead
<1>7. buf[t] \in Seq(Cell) /\ Len(buf[t]) = Lead(t) + Len(arg[t]) BY <1>1 DEF InCall
<1>8. Text(t) \in Seq(Cell) /\ Len(Text(t)) = Len(buf[t]) BY <1>7, CryptType DEF Text
<1>9. Len(Text(t)) \in Nat /\ First(t) + Len(Text(t)) = End(t)
  BY <1>2, <1>3, <1>4, <1>5, <1>7, <1>8 DEF End
<1>10. /\ buf[t] = aes_encrypt(Text(t))
       /\ \A j \in 1..Len(arg[t]) : Text(t)[Lead(t) + j] = arg[t][j]
  BY <1>1 DEF InHand, Text
<1> QED BY <1>2, <1>3, <1>4, <1>5, <1>6, <1>7, <1>8, <1>9, <1>10

\* What the write of the data makes of the file and of the text, when the
\* descriptor still stands where the write began.
LEMMA DataCells ==
  ASSUME DamageInv, NEW t \in Thread, write_data(t), At(t) = offset[t]
  PROVE  /\ Contents' /\ Len(bytes') \in Nat /\ Len(plain') \in Nat
         /\ Len(bytes') = Larger(Len(bytes), End(t))
         /\ H + Len(plain') = Larger(H + Len(plain), End(t))
         /\ \A i \in (offset[t] + 1)..End(t) :
              bytes'[i] = buf[t][i - First(t)] /\ plain'[i - H] = Text(t)[i - First(t)]
         /\ \A i \in Nat \ {0} : i <= offset[t] /\ i <= Len(bytes) => bytes'[i] = bytes[i]
         /\ \A i \in Nat : H < i /\ i <= offset[t] /\ i - H <= Len(plain)
                             => plain'[i - H] = plain[i - H]
         /\ \A i \in Nat : i > End(t) => /\ CellAt(bytes', i) = CellAt(bytes, i)
                                         /\ CellAt(plain', i - H) = CellAt(plain, i - H)
<1> DEFINE d == SubSeq(buf[t], Lead(t) + 1, Len(buf[t]))
           o == offset[t]
           w == arg[t]
           q == o - H
<1>1. /\ pc[t] = "w_data" /\ bytes' = Overlay(bytes, o, d) /\ plain' = Overlay(plain, q, w)
  BY DEF write_data, Step
<1>2. /\ d \in Seq(Cell) /\ Len(d) = Len(w) /\ \A k \in 1..Len(w) : d[k] = buf[t][Lead(t) + k]
  BY <1>1, DataType DEF DamageInv
<1>3. /\ o \in Nat /\ H \in Nat \ {0} /\ o >= H /\ w \in Seq(Cell) /\ Len(w) \in Nat \ {0}
      /\ End(t) = o + Len(w)
  BY <1>1, Writing DEF WritePlaces, End
<1>4. /\ Lead(t) \in Nat /\ First(t) \in Nat /\ First(t) + Lead(t) = o
      /\ \A j \in 1..Len(w) : Text(t)[Lead(t) + j] = w[j]
  BY <1>1, Holding
<1>5. bytes \in Seq(Cell) /\ plain \in Seq(Cell) /\ Len(bytes) \in Nat /\ Len(plain) \in Nat
  BY LenProperties DEF DamageInv, TypeOK
<1>6. q \in Nat /\ H + q = o BY <1>3
<1> HIDE DEF d, o, w, q
<1>7. d # <<>> /\ w # <<>> BY <1>2, <1>3, EmptySeq
<1>8. /\ bytes' \in Seq(Cell) /\ Len(bytes') = Larger(Len(bytes), o + Len(d))
      /\ plain' \in Seq(Cell) /\ Len(plain') = Larger(Len(plain), q + Len(w))
  BY <1>1, <1>2, <1>3, <1>5, <1>6, <1>7, OverlayType
<1>9. /\ Len(bytes') \in Nat /\ Len(plain') \in Nat
      /\ Len(bytes') = Larger(Len(bytes), End(t))
      /\ H + Len(plain') = Larger(H + Len(plain), End(t))
  <2>1. Len(bytes') \in Nat /\ Len(plain') \in Nat BY <1>8, LenProperties
  <2>2. o + Len(d) = End(t) BY <1>2, <1>3
  <2>3. Len(bytes') = Larger(Len(bytes), End(t)) BY <1>8, <2>2
  <2> DEFINE c == Len(w)
             a == Len(plain)
  <2>4. c \in Nat /\ a \in Nat /\ H \in Nat /\ End(t) = o + c BY <1>3, <1>5
  <2>5. Len(plain') = Larger(a, q + c) BY <1>8
  <2> HIDE DEF a, c
  <2>6. H + Larger(a, q + c) = Larger(H + a, o + c) BY <1>6, <2>4 DEF Larger
  <2>7. H + Len(plain') = Larger(H + Len(plain), End(t)) BY <2>4, <2>5, <2>6 DEF a
  <2> QED BY <2>1, <2>3, <2>7
<1>10. ASSUME NEW i \in Nat, o < i, i <= End(t)
       PROVE  bytes'[i] = buf[t][i - First(t)] /\ plain'[i - H] = Text(t)[i - First(t)]
  <2>1. i - o \in 1..Len(w) /\ i - First(t) = Lead(t) + (i - o) /\ (i - H) - q = i - o
    <3> DEFINE c == Len(w)
               a == First(t)
               e == End(t)
    <3>1. c \in Nat /\ e = o + c /\ o \in Nat /\ H \in Nat BY <1>3
    <3>2. a \in Nat /\ Lead(t) \in Nat /\ a + Lead(t) = o BY <1>4
    <3> HIDE DEF c, a, e
    <3>3. i <= e BY <1>10 DEF e
    <3>4. i - o \in 1..c BY <1>10, <3>1, <3>3
    <3>5. i - a = Lead(t) + (i - o) BY <3>1, <3>2
    <3>6. (i - H) - q = i - o BY <1>6, <3>1
    <3> QED BY <3>4, <3>5, <3>6 DEF c, a
  <2>2. bytes'[i] = d[i - o]
    <3>1. i \in Nat \ {0} /\ i <= o + Len(d) BY <1>2, <1>3, <1>10
    <3>2. o \in Nat /\ d \in Seq(Cell) /\ bytes \in Seq(Cell) /\ o < i BY <1>2, <1>3, <1>5, <1>10
    <3>3. Overlay(bytes, o, d)[i] = d[i - o] BY <3>1, <3>2, OverlayCell
    <3> QED BY <1>1, <3>3
  <2>3. plain'[i - H] = w[i - o]
    <3>1. i - H \in Nat \ {0} /\ q < i - H /\ i - H <= q + Len(w) BY <1>3, <1>6, <1>10
    <3>2. Overlay(plain, q, w)[i - H] = w[(i - H) - q]
      BY <1>3, <1>5, <1>6, <3>1, OverlayCell
    <3> QED BY <1>1, <2>1, <3>2
  <2> QED BY <1>2, <1>4, <2>1, <2>2, <2>3
<1>11. ASSUME NEW i \in Nat \ {0}, i <= o, i <= Len(bytes) PROVE bytes'[i] = bytes[i]
  <2>1. i \in 1..Len(bytes) BY <1>5, <1>11
  <2>2. o \in Nat /\ d \in Seq(Cell) /\ bytes \in Seq(Cell) BY <1>2, <1>3, <1>5
  <2>3. Overlay(bytes, o, d)[i] = bytes[i] BY <1>11, <2>1, <2>2, OverlayBefore
  <2> QED BY <1>1, <2>3
<1>12. ASSUME NEW i \in Nat, H < i, i <= o, i - H <= Len(plain)
       PROVE  plain'[i - H] = plain[i - H]
  <2>1. i - H \in 1..Len(plain) /\ i - H <= q BY <1>3, <1>5, <1>6, <1>12
  <2>2. q \in Nat /\ w \in Seq(Cell) /\ plain \in Seq(Cell) BY <1>3, <1>5, <1>6
  <2>3. Overlay(plain, q, w)[i - H] = plain[i - H] BY <2>1, <2>2, OverlayBefore
  <2> QED BY <1>1, <2>3
<1>13. ASSUME NEW i \in Nat, i > End(t)
       PROVE  /\ CellAt(bytes', i) = CellAt(bytes, i)
              /\ CellAt(plain', i - H) = CellAt(plain, i - H)
  <2>1. /\ i \in Nat \ {0} /\ o < i /\ ~ (i <= o + Len(d))
        /\ i - H \in Nat \ {0} /\ q < i - H /\ ~ (i - H <= q + Len(w))
    BY <1>2, <1>3, <1>6, <1>13
  <2>2. CellAt(Overlay(bytes, o, d), i) = CellAt(bytes, i)
    BY <1>2, <1>3, <1>5, <2>1, OverlayCell
  <2>3. CellAt(Overlay(plain, q, w), i - H) = CellAt(plain, i - H)
    BY <1>3, <1>5, <1>6, <2>1, OverlayCell
  <2> QED BY <1>1, <2>2, <2>3
<1>14. Contents' BY <1>8 DEF Contents
<1>15. \A i \in (o + 1)..End(t) : i \in Nat /\ o < i /\ i <= End(t) BY <1>3
<1> QED BY <1>9, <1>10, <1>11, <1>12, <1>13, <1>14, <1>15 DEF o

\* A block of which t has written the head, if it lies in front of the offset, is
\* right once t has written the rest of it, or all there is of it.
LEMMA BlockWritten ==
  ASSUME DamageInv, NEW t \in Thread, write_data(t), At(t) = offset[t],
         NEW b \in Nat, Base(b) >= H, First(t) <= Base(b), Base(b) < End(t),
         \A j \in 1..Block : Base(b) + j <= offset[t] =>
           /\ Base(b) + j <= Len(bytes) /\ (Base(b) + j) - H <= Len(plain)
           /\ bytes[Base(b) + j] = buf[t][(Base(b) + j) - First(t)]
           /\ plain[(Base(b) + j) - H] = Text(t)[(Base(b) + j) - First(t)],
         \/ Base(b) + Block <= End(t)
         \/ /\ Len(bytes) < Base(b) + Block
            /\ \A j \in 1..Block : Base(b) + j > offset[t] => Same(Base(b) + j)
  PROVE  Right(b)'
<1> DEFINE m == Base(b) - First(t)
           p == Text(t)
<1>1. pc[t] = "w_data" BY DEF write_data, Step
<1>2. /\ offset[t] \in Nat /\ H \in Nat /\ First(t) \in Nat /\ First(t) % Block = 0
      /\ End(t) \in Nat /\ offset[t] < End(t) /\ offset[t] >= H
      /\ p \in Seq(Cell) /\ buf[t] = aes_encrypt(p)
      /\ Len(p) \in Nat /\ First(t) + Len(p) = End(t)
  BY <1>1, Holding
<1>3. Base(b) \in Nat /\ Base(b) % Block = 0 /\ Block \in Nat \ {0} BY Bases, Sizes
<1>4. m \in Nat /\ m % Block = 0 /\ Base(b) = First(t) + m
  <2>1. m \in Nat /\ m % Block = 0 BY <1>2, BaseBehind
  <2> QED BY <1>2, <1>3, <2>1
<1> HIDE DEF m, p
<1>5. /\ Contents' /\ Len(bytes') \in Nat /\ Len(plain') \in Nat
      /\ Len(bytes') = Larger(Len(bytes), End(t))
      /\ H + Len(plain') = Larger(H + Len(plain), End(t))
      /\ Len(bytes) \in Nat /\ Len(plain) \in Nat
  BY DataCells, LenProperties DEF DamageInv, TypeOK
<1>6. End(t) <= Len(bytes') /\ End(t) <= H + Len(plain') BY <1>2, <1>5 DEF Larger
<1>7. ASSUME NEW j \in 1..Block, Base(b) + j <= End(t)
      PROVE  /\ (Base(b) + j) - First(t) = m + j /\ (Base(b) - H) + j = (Base(b) + j) - H
             /\ bytes'[Base(b) + j] = buf[t][m + j] /\ plain'[(Base(b) + j) - H] = p[m + j]
             /\ m + j \in 1..Len(p)
  <2>1. /\ (Base(b) + j) - First(t) = m + j /\ (Base(b) - H) + j = (Base(b) + j) - H
        /\ m + j \in 1..Len(p)
    <3>1. j \in 1..Block /\ j \in Nat \ {0} BY <1>3
    <3>2. (Base(b) + j) - First(t) = m + j BY <1>2, <1>3, <1>4, <3>1, SMTT(30)
    <3>3. (Base(b) - H) + j = (Base(b) + j) - H BY <1>2, <1>3, <3>1
    <3>4. First(t) + (m + j) <= First(t) + Len(p) BY <1>2, <1>4, <1>7, <3>1
    <3> DEFINE c == Len(p)
    <3>5. c \in Nat /\ First(t) + (m + j) <= First(t) + c BY <1>2, <3>4
    <3> HIDE DEF c
    <3>6. m + j \in 1..c BY <1>2, <1>4, <3>1, <3>5
    <3> QED BY <3>2, <3>3, <3>6 DEF c
  <2>2. Base(b) + j \in Nat \ {0} /\ H < Base(b) + j BY <1>2, <1>3
  <2>3. CASE Base(b) + j > offset[t]
    <3>1. Base(b) + j \in (offset[t] + 1)..End(t) BY <1>2, <1>7, <2>2, <2>3
    <3>2. /\ bytes'[Base(b) + j] = buf[t][(Base(b) + j) - First(t)]
          /\ plain'[(Base(b) + j) - H] = Text(t)[(Base(b) + j) - First(t)]
      BY <3>1, DataCells
    <3> QED BY <2>1, <3>2 DEF p
  <2>4. CASE Base(b) + j <= offset[t]
    <3>1. /\ Base(b) + j <= Len(bytes) /\ (Base(b) + j) - H <= Len(plain)
          /\ bytes[Base(b) + j] = buf[t][(Base(b) + j) - First(t)]
          /\ plain[(Base(b) + j) - H] = Text(t)[(Base(b) + j) - First(t)]
      BY <2>4
    <3>2. bytes'[Base(b) + j] = bytes[Base(b) + j] BY <2>2, <2>4, <3>1, DataCells
    <3>3. plain'[(Base(b) + j) - H] = plain[(Base(b) + j) - H]
      BY <2>2, <2>4, <3>1, DataCells
    <3> QED BY <2>1, <3>1, <3>2, <3>3 DEF p
  <2> QED BY <1>2, <2>2, <2>3, <2>4
<1>8. CASE Base(b) + Block <= End(t)
  <2>1. \A j \in 1..Block : Base(b) + j <= End(t) BY <1>2, <1>3, <1>8
  <2>2. /\ \A l \in 1..Block : plain'[(Base(b) - H) + l] = p[m + l]
        /\ \A l \in 1..Block : bytes'[Base(b) + l] = buf[t][m + l]
    BY <1>7, <2>1
  <2>3. m + Block <= Len(p) BY <1>2, <1>3, <1>4, <1>8, SMTT(30)
  <2>4. [l \in 1..Block |-> plain'[(Base(b) - H) + l]] = [l \in 1..Block |-> p[m + l]]
    BY <2>2
  <2>5. ASSUME NEW j \in 1..Block
        PROVE  buf[t][m + j] = Encrypt([l \in 1..Block |-> p[m + l]])[j]
    <3>1. p \in Seq(Cell) /\ m \in Nat /\ m % Block = 0 BY <1>2, <1>4
    <3>2. aes_encrypt(p)[m + j] = Encrypt([l \in 1..Block |-> p[m + l]])[j]
      BY <2>3, <3>1, CryptBlock
    <3>3. buf[t] = aes_encrypt(p) BY <1>2
    <3> QED BY <3>2, <3>3
  <2>6. Base(b) + Block <= Len(bytes') /\ Base(b) + Block <= H + Len(plain')
    BY <1>2, <1>3, <1>5, <1>6, <1>8, SMTT(30)
  <2> QED BY <2>2, <2>4, <2>5, <2>6, SMTT(30) DEF Right
<1>9. CASE ~ (Base(b) + Block <= End(t))
  <2>1. Len(bytes) < Base(b) + Block BY <1>9
  <2>2. ~ (Base(b) + Block <= Len(bytes')) BY <1>2, <1>3, <1>5, <1>9, <2>1, SMTT(30) DEF Larger
  <2>3. ASSUME NEW j \in 1..Block PROVE Same(Base(b) + j)'
    <3>1. Base(b) + j \in Nat \ {0} /\ (Base(b) + j) - H \in Nat \ {0} BY <1>2, <1>3, SMTT(30)
    <3>2. CASE Base(b) + j <= End(t)
      <4>1. m < m + j /\ Len(p) < m + Block BY <1>2, <1>3, <1>4, <1>9, SMTT(30)
      <4>2. buf[t][m + j] = p[m + j] BY <1>2, <1>4, <1>7, <3>2, <4>1, CryptTail
      <4>3. bytes'[Base(b) + j] = plain'[(Base(b) + j) - H] BY <1>7, <3>2, <4>2
      <4>4. Base(b) + j <= Len(bytes') /\ (Base(b) + j) - H <= Len(plain')
        <5>1. Base(b) + j <= Len(bytes') BY <1>2, <1>5, <1>6, <3>1, <3>2, SMTT(30)
        <5>2. Base(b) + j <= H + Len(plain') BY <1>2, <1>5, <1>6, <3>1, <3>2, SMTT(30)
        <5>3. (Base(b) + j) - H <= Len(plain') BY <1>2, <1>5, <3>1, <5>2, SMTT(30)
        <5> QED BY <5>1, <5>3
      <4>5. bytes' \in Seq(Cell) /\ plain' \in Seq(Cell) BY <1>5 DEF Contents
      <4>6. CellAt(bytes', Base(b) + j) = CellAt(plain', (Base(b) + j) - H)
        BY <3>1, <4>3, <4>4, <4>5, CellSame
      <4> QED BY <4>6 DEF Same
    <3>3. CASE ~ (Base(b) + j <= End(t))
      <4>1. Base(b) + j > End(t) /\ Base(b) + j > offset[t] BY <1>2, <3>1, <3>3
      <4>2. Same(Base(b) + j) BY <1>9, <4>1
      <4>3. /\ CellAt(bytes', Base(b) + j) = CellAt(bytes, Base(b) + j)
            /\ CellAt(plain', (Base(b) + j) - H) = CellAt(plain, (Base(b) + j) - H)
        BY <3>1, <4>1, DataCells
      <4> QED BY <4>2, <4>3 DEF Same
    <3> QED BY <3>2, <3>3
  <2> QED BY <2>2, <2>3 DEF Right
<1> QED BY <1>8, <1>9

\* A block that is written completely.
LEMMA FullRight ==
  ASSUME DamageInv, NEW t \in Thread, write_data(t), At(t) = offset[t],
         NEW b \in Nat, Base(b) >= H, Covers(t, b)
  PROVE  Right(b)'
<1>1. pc[t] = "w_data" BY DEF write_data, Step
<1>2. /\ offset[t] \in Nat /\ First(t) \in Nat /\ Lead(t) \in Nat
      /\ First(t) + Lead(t) = offset[t] /\ End(t) \in Nat
  BY <1>1, Holding
<1>3. Base(b) \in Nat /\ Block \in Nat \ {0} BY Bases, Sizes
<1>4. offset[t] <= Base(b) /\ Base(b) + Block <= End(t) BY DEF Covers
<1>5. First(t) <= Base(b) /\ Base(b) < End(t) BY <1>2, <1>3, <1>4
<1>6. \A j \in 1..Block : ~ (Base(b) + j <= offset[t]) BY <1>2, <1>3, <1>4
<1> QED BY <1>4, <1>5, <1>6, BlockWritten

\* A block of which everything is promised and t writes a part.
LEMMA PartRight ==
  ASSUME DamageInv, NEW t \in Thread, write_data(t), At(t) = offset[t],
         NEW b \in Nat, Base(b) >= H, Pending(t, b), ~ Covers(t, b)
  PROVE  Right(b)'
<1>1. pc[t] = "w_data" BY DEF write_data, Step
<1>2. /\ offset[t] \in Nat /\ First(t) \in Nat /\ Lead(t) \in Nat /\ H \in Nat
      /\ First(t) + Lead(t) = offset[t] /\ End(t) \in Nat /\ First(t) % Block = 0
  BY <1>1, Holding
<1>3. Base(b) \in Nat /\ Block \in Nat \ {0} BY Bases, Sizes
<1>4. InPart(t, b) /\ offset[t] < Base(b) + Block /\ Base(b) < End(t) BY DEF Pending
<1>5. First(t) <= Base(b)
  <2>1. First(t) < Base(b) + Block BY <1>2, <1>3, <1>4
  <2> QED BY <1>2, <2>1, NotBefore
<1>6. ASSUME NEW j \in 1..Block, Base(b) + j <= offset[t]
      PROVE  /\ Base(b) + j <= Len(bytes) /\ (Base(b) + j) - H <= Len(plain)
             /\ bytes[Base(b) + j] = buf[t][(Base(b) + j) - First(t)]
             /\ plain[(Base(b) + j) - H] = Text(t)[(Base(b) + j) - First(t)]
  <2>1. /\ Base(b) + j <= Len(bytes) /\ (Base(b) + j) - H <= Len(plain)
        /\ Text(t)[j] = plain[(Base(b) + j) - H] /\ bytes[Base(b) + j] = buf[t][j]
    BY <1>1, <1>4, <1>6 DEF InPart, Text
  <2>2. Base(b) <= offset[t] BY <1>2, <1>3, <1>6
  <2>3. b = offset[t] \div Block BY <1>2, <1>4, <2>2, BlockIs
  <2>4. Base(b) = First(t) BY <1>2, <2>3, BlockIs DEF First, Lead
  <2>5. (Base(b) + j) - First(t) = j BY <1>2, <1>3, <2>4
  <2> QED BY <2>1, <2>5
<1>7. Len(bytes) < Base(b) + Block /\ \A j \in 1..Block : Base(b) + j > offset[t] => Same(Base(b) + j)
  BY <1>4 DEF InPart
<1> QED BY <1>4, <1>5, <1>6, <1>7, BlockWritten

\* The data is written: what t touched is right afterwards, or given up.
LEMMA DamageData ==
  ASSUME DamageInv, TypeOK', NEW t \in Thread, write_data(t)
  PROVE  DamageInv'
<1> DEFINE end == At(t) + Len(arg[t])
           mine == Touched(At(t), end)
<1>1. Alone(t) BY WriteAlone DEF DamageInv, WriteStep
<1>2. /\ pc[t] = "w_data" /\ pc'[t] = "idle" /\ pc[t] \in WritePlaces
      /\ touch' = [touch EXCEPT ![t] = {}]
      /\ bytes' = Overlay(bytes, At(t), SubSeq(buf[t], Lead(t) + 1, Len(buf[t])))
      /\ plain' = Overlay(plain, At(t) - H, arg[t]) /\ end <= MaxLen
  BY DEF write_data, Step, DamageInv, TypeOK, WritePlaces
<1>3. At(t) = offset[t] => spoiled' = spoiled \ (Full(At(t), end) \ OthersTouch(t))
  BY DEF write_data
<1>4. At(t) # offset[t] => spoiled' = spoiled \cup touch[t] \cup mine BY DEF write_data
<1>5. /\ arg[t] \in Seq(Cell) /\ At(t) \in Nat /\ At(t) >= H /\ H \in Nat
      /\ Len(bytes) \in Nat /\ Len(arg[t]) \in Nat \ {0}
  BY <1>2, Writing
<1>6. /\ touch \in [Thread -> SUBSET Nat] /\ bytes \in Seq(Cell) /\ plain \in Seq(Cell)
  BY DEF DamageInv, TypeOK
<1>7. touch' \in [Thread -> SUBSET Nat] /\ touch'[t] = {} /\ \A u \in Thread \ {t} : touch'[u] = touch[u]
  BY <1>2, <1>6
<1>8. plain' \in Seq(Cell)
  <2> DEFINE q == At(t) - H
             w == arg[t]
  <2>1. q \in Nat /\ w \in Seq(Cell) BY <1>5
  <2> HIDE DEF q, w
  <2>2. Overlay(plain, q, w) \in Seq(Cell) BY <1>6, <2>1, OverlayType
  <2> QED BY <1>2, <2>2 DEF q, w
<1>9. Len(bytes) <= Len(bytes')
  <2> DEFINE d == SubSeq(buf[t], Lead(t) + 1, Len(buf[t]))
  <2>1. d \in Seq(Cell) /\ Len(d) = Len(arg[t]) BY <1>2, DataType DEF DamageInv
  <2> HIDE DEF d
  <2>2. At(t) + Len(d) <= MaxLen BY <1>2, <2>1
  <2> QED BY <1>2, <1>5, <2>1, <2>2, SealedKept DEF DamageInv, d
<1>10. Contents /\ Contents' BY <1>6, <1>8 DEF Contents, TypeOK
<1>11. Touching(t)' /\ InHand(t)' BY <1>2, <1>7 DEF Touching, InHand, WritePlaces
<1> HIDE DEF end, mine
<1>12. ASSUME NEW b \in Nat, Base(b) >= H, b \notin spoiled, b \notin mine PROVE SameBlock(b)
  BY <1>12, DataSameBlock DEF mine, end
<1>13. ASSUME NEW u \in Thread \ {t}, NEW b \in touch[u], b \notin spoiled, b \notin mine
       PROVE  Pending(u, b)'
  <2>1. b \in Nat /\ Base(b) >= H /\ Pending(u, b) BY <1>13, Touches
  <2>2. SameBlock(b) BY <1>12, <1>13, <2>1
  <2>3. offset[u] \in Nat BY DEF DamageInv, TypeOK
  <2>4. pc'[u] = pc[u] /\ offset'[u] = offset[u] /\ arg'[u] = arg[u] /\ buf'[u] = buf[u]
    BY <1>1 DEF Alone
  <2> QED BY <1>10, <2>1, <2>2, <2>3, <2>4, PendingKept
<1>14. \A u, w \in Thread : u # w => touch[u] \cap touch[w] \subseteq spoiled
  BY DEF DamageInv, Exclusive
<1>15. CASE At(t) # offset[t]
  <2>1. ASSUME NEW b \in Nat, Base(b) >= H, b \notin spoiled' \cup InTouch' PROVE Right(b)'
    <3>1. b \notin spoiled /\ b \notin mine /\ b \notin InTouch
      BY <1>4, <1>7, <1>15, <2>1 DEF InTouch
    <3>2. Right(b) /\ SameBlock(b) BY <1>12, <2>1, <3>1 DEF DamageInv
    <3> QED BY <1>10, <2>1, <3>2, RightKept
  <2>2. \A u \in Thread \ {t} : \A b \in touch[u] : b \notin spoiled' => Pending(u, b)'
    BY <1>4, <1>13, <1>15
  <2>3. DamageKept(t) BY <1>7, <2>1, <2>2 DEF DamageKept
  <2>4. spoiled \subseteq spoiled' BY <1>4, <1>15
  <2> QED BY <1>1, <1>7, <1>8, <1>9, <1>11, <1>14, <2>3, <2>4, DamageFrom
<1>16. CASE At(t) = offset[t]
  <2>1. mine \subseteq touch[t]
    <3>1. Touching(t) BY DEF DamageInv
    <3> QED BY <1>2, <1>16, <3>1 DEF Touching, mine, end, End
  <2>2. \A u \in Thread \ {t} : \A b \in touch[u] : b \in spoiled => b \in spoiled'
    BY <1>3, <1>16 DEF OthersTouch
  <2>3. ASSUME NEW b \in Nat, Base(b) >= H, b \notin spoiled' \cup InTouch' PROVE Right(b)'
    <3>1. CASE b \in spoiled
      <4>1. b \in Full(At(t), end) BY <1>3, <1>16, <2>3, <3>1
      <4>2. Covers(t, b)
        <5>1. Base(b) + Block = (b + 1) * Block BY Bases DEF Base
        <5> QED BY <1>16, <4>1, <5>1 DEF Full, Covers, End, Base, end
      <4> QED BY <1>16, <2>3, <4>2, FullRight
    <3>2. CASE b \notin spoiled /\ b \in touch[t]
      <4>1. Pending(t, b) BY <3>2, Touches
      <4>2. CASE Covers(t, b) BY <1>16, <2>3, <4>2, FullRight
      <4>3. CASE ~ Covers(t, b) BY <1>16, <2>3, <4>1, <4>3, PartRight
      <4> QED BY <4>2, <4>3
    <3>3. CASE b \notin spoiled /\ b \notin touch[t]
      <4>1. b \notin InTouch BY <1>7, <2>3, <3>3 DEF InTouch
      <4>2. Right(b) /\ SameBlock(b) BY <1>12, <2>1, <2>3, <3>3, <4>1 DEF DamageInv
      <4> QED BY <1>10, <2>3, <4>2, RightKept
    <3> QED BY <3>1, <3>2, <3>3
  <2>4. ASSUME NEW u \in Thread \ {t}, NEW b \in touch[u], b \notin spoiled' PROVE Pending(u, b)'
    <3>1. b \notin spoiled BY <2>2, <2>4
    <3>2. b \notin mine BY <2>1, <3>1, OthersApart
    <3> QED BY <1>13, <3>1, <3>2
  <2>5. DamageKept(t) BY <1>7, <2>3, <2>4 DEF DamageKept
  <2>6. \A u, w \in Thread \ {t} : u # w => touch[u] \cap touch[w] \subseteq spoiled'
    BY <1>14, <2>2
  <2> QED BY <1>1, <1>7, <1>8, <1>9, <1>11, <2>5, <2>6, DamageFrom
<1> QED BY <1>15, <1>16

-----------------------------------------------------------------------------
\* At first every block is right.
LEMMA DamageInit == Init => DamageInv
<1> SUFFICES ASSUME Init PROVE DamageInv OBVIOUS
<1>1. TypeOK BY InitType
<1>2. plain \in Seq(Cell) /\ bytes = SealedForm(plain) BY Sizes DEF Init
<1>3. \A t \in Thread : pc[t] = "idle" /\ touch[t] = {} BY DEF Init
<1>4. touch \in [Thread -> SUBSET Nat] BY DEF Init
<1>5. \A t \in Thread : Touching(t) /\ InHand(t) BY <1>3 DEF Touching, InHand, WritePlaces
<1>6. \A b \in Nat : Base(b) >= H => Right(b) BY <1>2, RightAtFirst
<1> QED BY <1>1, <1>2, <1>3, <1>4, <1>5, <1>6 DEF DamageInv, Exclusive

\* When the process is killed, what is in the middle of a write is given up.
LEMMA DamageCrash == ASSUME DamageInv, TypeOK', Crash PROVE DamageInv'
<1>1. /\ UNCHANGED <<bytes, plain>> /\ pc' = [t \in Thread |-> "dead"]
      /\ spoiled' = spoiled \cup InTouch /\ touch' = [t \in Thread |-> {}]
  BY DEF Crash, InTouch
<1>2. plain' \in Seq(Cell) /\ touch' \in [Thread -> SUBSET Nat] BY <1>1 DEF DamageInv
<1>3. \A t \in Thread : Touching(t)' /\ InHand(t)' BY <1>1 DEF Touching, InHand, WritePlaces
<1>4. ASSUME NEW b \in Nat, Base(b) >= H, b \notin spoiled' PROVE Right(b)'
  <2>1. Right(b) BY <1>1, <1>4 DEF DamageInv
  <2> QED BY <1>1, <2>1 DEF Right, Same
<1> QED BY <1>1, <1>2, <1>3, <1>4 DEF DamageInv, Exclusive

\* Nothing changes.
LEMMA DamageStutter == ASSUME DamageInv, TypeOK', UNCHANGED vars PROVE DamageInv'
<1>1. UNCHANGED <<bytes, plain, touch, spoiled, pc, offset, arg, buf>> BY DEF vars
<1>2. \A t \in Thread : Touching(t)' /\ InHand(t)'
  <2> SUFFICES ASSUME NEW t \in Thread PROVE Touching(t)' /\ InHand(t)' OBVIOUS
  <2>1. Touching(t) /\ InHand(t) BY DEF DamageInv
  <2> QED BY <1>1, <2>1 DEF Touching, InHand, Touched, End, Lead
<1>3. \A b \in Nat : Right(b)' <=> Right(b) BY <1>1 DEF Right, Same
<1>4. \A t \in Thread : \A b \in touch[t] : b \notin spoiled => Pending(t, b)'
  <2> SUFFICES ASSUME NEW t \in Thread, NEW b \in touch[t], b \notin spoiled PROVE Pending(t, b)'
    OBVIOUS
  <2>1. Pending(t, b) BY DEF DamageInv
  <2> QED BY <1>1, <2>1 DEF Pending, Covers, End, InPart, Right, Same
<1>5. InTouch' = InTouch BY <1>1 DEF InTouch
<1> QED BY <1>1, <1>2, <1>3, <1>4, <1>5 DEF DamageInv, Exclusive

\* Every step keeps DamageInv.
LEMMA DamageStep == DamageInv /\ [Next]_vars => DamageInv'
<1> SUFFICES ASSUME DamageInv, [Next]_vars PROVE DamageInv' OBVIOUS
<1>1. TypeOK' BY TypeStep DEF DamageInv
<1>2. CASE UNCHANGED vars BY <1>1, <1>2, DamageStutter
<1>3. CASE Crash BY <1>1, <1>3, DamageCrash
<1>4. ASSUME NEW t \in Thread, NEW d \in Payloads, write_offset(t, d) PROVE DamageInv'
  BY <1>1, <1>4, DamageOffset
<1>5. ASSUME NEW t \in Thread, write_open(t) PROVE DamageInv' BY <1>1, <1>5, DamageOpen
<1>6. ASSUME NEW t \in Thread, write_head(t) PROVE DamageInv' BY <1>1, <1>6, DamageHead
<1>7. ASSUME NEW t \in Thread, write_data(t) PROVE DamageInv' BY <1>1, <1>7, DamageData
<1>8. ASSUME NEW t \in Thread, ReadStep(t) \/ SeekStep(t) PROVE DamageInv'
  BY <1>1, <1>8, DamageRead
<1> QED BY <1>2, <1>3, <1>4, <1>5, <1>6, <1>7, <1>8 DEF Next, ReadStep, SeekStep

\* The invariant is what DamageContained says, block by block.
LEMMA DamageShown == DamageInv => DamageContained
<1> SUFFICES ASSUME DamageInv,
                    NEW k \in 1..(MaxLen - H),
                    (H + k - 1) \div Block \notin spoiled \cup UNION {touch[t] : t \in Thread}
             PROVE  CellAt(PlainView(bytes), k) = CellAt(plain, k)
  BY DEF DamageContained
<1> DEFINE i == H + k - 1
           b == i \div Block
           j == (i - Base(b)) + 1
<1>1. H \in Nat /\ H % Block = 0 /\ Block \in Nat \ {0} /\ MaxLen \in Nat BY Sizes
<1>2. i \in Nat /\ i >= H /\ k \in Nat BY <1>1
<1> HIDE DEF i
<1>3. b \in Nat /\ Base(b) <= i /\ i < Base(b) + Block BY <1>2, BlockIs
<1>4. b \notin spoiled \cup InTouch BY DEF InTouch, i
<1> HIDE DEF b
<1>5. Base(b) \in Nat BY <1>3, Bases
<1>6. Base(b) >= H
  <2>1. H < Base(b) + Block BY <1>1, <1>2, <1>3, <1>5
  <2> QED BY <1>1, <1>3, <2>1, NotBefore
<1>7. j \in 1..Block /\ (Base(b) - H) + j = k BY <1>1, <1>2, <1>3, <1>5 DEF i
<1>8. Right(b) BY <1>3, <1>4, <1>6 DEF DamageInv
<1> HIDE DEF j
<1>9. CellAt(PlainView(bytes), (Base(b) - H) + j) = CellAt(plain, (Base(b) - H) + j)
  BY <1>3, <1>6, <1>7, <1>8, RightSeen DEF DamageInv
<1> QED BY <1>7, <1>9

\* Whatever mixture of reads, writes and seeks of any number of threads overlaps,
\* and whenever the process is killed, a block shows what the completed writes put
\* there unless it is one the code does not promise anything about.
THEOREM DamageStays == Spec => []DamageContained
<1>1. Init => DamageInv BY DamageInit
<1>2. DamageInv /\ [Next]_vars => DamageInv' BY DamageStep
<1>3. DamageInv => DamageContained BY DamageShown
<1> QED BY <1>1, <1>2, <1>3, PTL DEF Spec

-----------------------------------------------------------------------------
(* Calls that do not overlap.                                              *)

\* What the head of the first block is when a write begins.
Prefix(t) == Overlay(Zeros(Lead(t)), 0, Window(before[1], offset[t] - Lead(t), Lead(t)))

\* How far a call that nothing overlaps has come, from the file and the offsets
\* it began with.
InProgress(t) ==
  LET file == before[1]
      at   == before[2][DescOf(t)]
      from == Larger(at, H)
      head == Window(file, offset[t] - Lead(t), Lead(t))
      data == Window(file, from, arg[t])
  IN  /\ pc[t] \in WritePlaces =>
           offset[t] = at /\ pos = before[2] /\ arg[t] \in Payloads
      /\ pc[t] \in {"w_open", "w_head"} => bytes = file
      /\ pc[t] \in {"w_head", "w_data"} => buf[t] = aes_encrypt(Prefix(t) \o arg[t])
      /\ pc[t] = "w_data" =>
           bytes = Overlay(file, offset[t] - Lead(t), SubSeq(buf[t], 1, Lead(t)))
      /\ pc[t] \in ReadPlaces =>
           /\ bytes = file /\ arg[t] \in ReadSizes
           /\ offset[t] = IF at < H THEN at + H ELSE at
      /\ pc[t] = "r_skip" => at < H /\ pos = before[2]
      /\ pc[t] \in {"r_head", "r_data"} => pos = [before[2] EXCEPT ![DescOf(t)] = from]
      /\ pc[t] = "r_data" => buf[t] = <<head>>
      /\ pc[t] = "r_tail" => /\ buf[t] = <<head, data>>
                             /\ pos = [before[2] EXCEPT ![DescOf(t)] = from + Len(data)]

\* The inductive invariant behind StepsAreCalls and ReadsAsWhole.
WholeInv ==
  /\ TypeOK
  /\ whole /\ ~ Idle => /\ before = <<before[1], before[2]>>
                        /\ before[1] \in Seq(Cell) /\ before[2] \in [Desc -> Nat]
  /\ whole => \A t \in Thread : ~ AtRest(t) =>
                InProgress(t) /\ \A u \in Thread \ {t} : AtRest(u)

\* A call that begins when all others are at rest.
LEMMA WholeBegins ==
  ASSUME WholeInv, TypeOK', NEW t \in Thread, Alone(t), Begin(t), whole' => InProgress(t)'
  PROVE  WholeInv'
<1>1. bytes \in Seq(Cell) /\ pos \in [Desc -> Nat] BY DEF WholeInv, TypeOK
<1>2. whole' => /\ \A u \in Thread : AtRest(u)
                /\ before' = <<bytes, pos>>
  BY DEF Begin, Idle, AtRest
<1>3. whole' => /\ before' = <<before'[1], before'[2]>>
                /\ before'[1] \in Seq(Cell) /\ before'[2] \in [Desc -> Nat]
  BY <1>1, <1>2
<1>4. \A u \in Thread \ {t} : AtRest(u)' <=> AtRest(u) BY DEF Alone, AtRest
<1>5. ASSUME whole', NEW u \in Thread, ~ AtRest(u)'
      PROVE  InProgress(u)' /\ \A v \in Thread \ {u} : AtRest(v)'
  <2>1. u = t BY <1>2, <1>4, <1>5
  <2> QED BY <1>2, <1>4, <1>5, <2>1
<1> QED BY <1>3, <1>5 DEF WholeInv

\* A call in progress takes a step.
LEMMA WholeGoesOn ==
  ASSUME WholeInv, TypeOK', NEW t \in Thread, Alone(t), ~ AtRest(t),
         whole' = whole, before' = before,
         whole => AtRest(t)' \/ InProgress(t)'
  PROVE  WholeInv'
<1>1. ASSUME whole' PROVE whole /\ ~ Idle /\ \A u \in Thread \ {t} : AtRest(u)'
  <2>1. \A u \in Thread \ {t} : AtRest(u)' <=> AtRest(u) BY DEF Alone, AtRest
  <2> QED BY <1>1, <2>1 DEF WholeInv, Idle, AtRest
<1>2. ASSUME whole', NEW u \in Thread, ~ AtRest(u)'
      PROVE  InProgress(u)' /\ \A v \in Thread \ {u} : AtRest(v)'
  <2>1. u = t BY <1>1, <1>2
  <2> QED BY <1>1, <1>2, <2>1
<1>3. whole' => /\ before' = <<before'[1], before'[2]>>
                /\ before'[1] \in Seq(Cell) /\ before'[2] \in [Desc -> Nat]
  BY <1>1 DEF WholeInv
<1> QED BY <1>2, <1>3 DEF WholeInv

\* The steps of a write.
LEMMA WholeWrite == ASSUME WholeInv, TypeOK', NEW t \in Thread, WriteStep(t) PROVE WholeInv'
<1>1. Alone(t) /\ TypeOK /\ InCall(t) BY WriteAlone DEF WholeInv, TypeOK
<1>2. ASSUME NEW d \in Payloads, write_offset(t, d) PROVE WholeInv'
  <2>1. /\ pc'[t] = "w_open" /\ arg'[t] = d /\ offset'[t] = At(t)
        /\ UNCHANGED <<setup, bytes, pos>> /\ Begin(t)
    BY <1>2 DEF write_offset, Begin, Step, TypeOK, WholeInv
  <2>2. whole' => before' = <<bytes, pos>> BY <2>1 DEF Begin
  <2>3. whole' => InProgress(t)'
    BY <2>1, <2>2 DEF InProgress, WritePlaces, ReadPlaces, At, DescOf
  <2> QED BY <1>1, <2>1, <2>3, WholeBegins
<1>3. ASSUME write_open(t) PROVE WholeInv'
  <2>1. /\ pc[t] = "w_open" /\ pc'[t] = "w_head" /\ arg'[t] = arg[t] /\ offset'[t] = offset[t]
        /\ UNCHANGED <<setup, bytes, pos, whole, before>>
        /\ buf'[t] = aes_encrypt(Overlay(Zeros(Lead(t)), 0,
                       Window(bytes, offset[t] - Lead(t), Lead(t))) \o arg[t])
    BY <1>3 DEF write_open, started, Step, TypeOK, WholeInv
  <2>2. ~ AtRest(t) BY <2>1 DEF AtRest
  <2>3. ASSUME whole PROVE InProgress(t)'
    <3>1. InProgress(t) BY <2>2, <2>3 DEF WholeInv
    <3>2. Lead(t)' = Lead(t) /\ DescOf(t)' = DescOf(t) BY <2>1 DEF Lead, DescOf
    <3>3. offset[t] = before[2][DescOf(t)] /\ pos = before[2] /\ arg[t] \in Payloads /\ bytes = before[1]
      BY <2>1, <3>1 DEF InProgress, WritePlaces
    <3>4. Prefix(t)' = Overlay(Zeros(Lead(t)), 0, Window(bytes, offset[t] - Lead(t), Lead(t)))
      BY <2>1, <3>2, <3>3 DEF Prefix
    <3> QED BY <2>1, <3>2, <3>3, <3>4 DEF InProgress, WritePlaces, ReadPlaces
  <2> QED BY <1>1, <2>1, <2>2, <2>3, WholeGoesOn
<1>4. ASSUME write_head(t) PROVE WholeInv'
  <2>1. /\ pc[t] = "w_head" /\ pc'[t] = "w_data" /\ arg'[t] = arg[t] /\ offset'[t] = offset[t]
        /\ UNCHANGED <<setup, pos, whole, before>> /\ buf'[t] = buf[t]
        /\ bytes' = Overlay(bytes, offset[t] - Lead(t), SubSeq(buf[t], 1, Lead(t)))
    BY <1>4 DEF write_head, started, Step, TypeOK, WholeInv
  <2>2. ~ AtRest(t) BY <2>1 DEF AtRest
  <2>3. ASSUME whole PROVE InProgress(t)'
    <3>1. InProgress(t) BY <2>2, <2>3 DEF WholeInv
    <3>2. Lead(t)' = Lead(t) /\ DescOf(t)' = DescOf(t) BY <2>1 DEF Lead, DescOf
    <3>3. /\ offset[t] = before[2][DescOf(t)] /\ pos = before[2] /\ arg[t] \in Payloads
          /\ bytes = before[1] /\ buf[t] = aes_encrypt(Prefix(t) \o arg[t])
      BY <2>1, <3>1 DEF InProgress, WritePlaces
    <3>4. Prefix(t)' = Prefix(t) BY <2>1, <3>2 DEF Prefix
    <3> QED BY <2>1, <3>2, <3>3, <3>4 DEF InProgress, WritePlaces, ReadPlaces
  <2> QED BY <1>1, <2>1, <2>2, <2>3, WholeGoesOn
<1>5. ASSUME write_data(t) PROVE WholeInv'
  <2>1. pc[t] = "w_data" /\ pc'[t] = "idle" /\ UNCHANGED <<whole, before>>
    BY <1>5 DEF write_data, started, Step, TypeOK, WholeInv
  <2>2. ~ AtRest(t) /\ AtRest(t)' BY <2>1 DEF AtRest
  <2> QED BY <1>1, <2>1, <2>2, WholeGoesOn
<1> QED BY <1>2, <1>3, <1>4, <1>5 DEF WriteStep

\* The steps of a read.
LEMMA WholeRead == ASSUME WholeInv, TypeOK', NEW t \in Thread, ReadStep(t) PROVE WholeInv'
<1>1. /\ Alone(t) /\ TypeOK /\ InCall(t)
      /\ DescOf(t) \in Desc /\ At(t) \in Nat /\ H \in Nat /\ (At(t) = 0 \/ At(t) >= H)
  BY ReadAlone, Place, Sizes DEF WholeInv, TypeOK, At
<1>2. ASSUME NEW n \in ReadSizes, read_offset(t, n) PROVE WholeInv'
  <2>1. /\ pc'[t] = (IF At(t) < H THEN "r_skip" ELSE "r_head") /\ arg'[t] = n
        /\ offset'[t] = (IF At(t) < H THEN At(t) + H ELSE At(t))
        /\ UNCHANGED <<setup, bytes, pos>> /\ Begin(t)
    BY <1>2 DEF read_offset, Begin, Step, TypeOK, WholeInv
  <2>2. whole' => before' = <<bytes, pos>> BY <2>1 DEF Begin
  <2>3. pos \in [Desc -> Nat] /\ DescOf(t)' = DescOf(t) BY <1>1, <2>1 DEF TypeOK, DescOf
  <2>4. ~ (At(t) < H) => [pos EXCEPT ![DescOf(t)] = Larger(At(t), H)] = pos
    BY <1>1, <2>3 DEF Larger, At
  <2>5. whole' => InProgress(t)'
    BY <1>1, <2>1, <2>2, <2>3, <2>4 DEF InProgress, WritePlaces, ReadPlaces, At
  <2> QED BY <1>1, <2>1, <2>5, WholeBegins
<1>3. ASSUME read_skip(t) PROVE WholeInv'
  <2>1. /\ pc[t] = "r_skip" /\ pc'[t] = "r_head" /\ arg'[t] = arg[t] /\ offset'[t] = offset[t]
        /\ UNCHANGED <<setup, bytes, whole, before>> /\ pos' = [pos EXCEPT ![DescOf(t)] = H]
    BY <1>3 DEF read_skip, Seek, started, Step, TypeOK, WholeInv
  <2>2. ~ AtRest(t) BY <2>1 DEF AtRest
  <2>3. ASSUME whole PROVE InProgress(t)'
    <3>1. InProgress(t) /\ before[2] \in [Desc -> Nat] BY <2>2, <2>3 DEF WholeInv, Idle, AtRest
    <3>2. DescOf(t)' = DescOf(t) BY <2>1 DEF DescOf
    <3>3. /\ before[2][DescOf(t)] < H /\ pos = before[2]
          /\ bytes = before[1] /\ arg[t] \in ReadSizes
          /\ offset[t] = IF before[2][DescOf(t)] < H THEN before[2][DescOf(t)] + H
                         ELSE before[2][DescOf(t)]
      BY <2>1, <3>1 DEF InProgress, ReadPlaces
    <3>4. Larger(before[2][DescOf(t)], H) = H BY <1>1, <3>1, <3>3 DEF Larger
    <3> QED BY <2>1, <3>2, <3>3, <3>4 DEF InProgress, WritePlaces, ReadPlaces
  <2> QED BY <1>1, <2>1, <2>2, <2>3, WholeGoesOn
<1>4. ASSUME read_head(t) PROVE WholeInv'
  <2> DEFINE w == Window(bytes, offset[t] - Lead(t), Lead(t))
  <2>1. /\ pc[t] = "r_head" /\ pc'[t] = "r_data" /\ arg'[t] = arg[t] /\ offset'[t] = offset[t]
        /\ UNCHANGED <<setup, pos, bytes, whole, before>> /\ buf'[t] = Append(buf[t], w)
    BY <1>4 DEF read_head, Collect, started, Step, TypeOK, WholeInv
  <2>2. ~ AtRest(t) BY <2>1 DEF AtRest
  <2>3. buf'[t] = <<w>>
    <3>1. buf[t] = <<>> BY <1>1, <2>1 DEF InCall
    <3> HIDE DEF w
    <3> QED BY <2>1, <3>1
  <2>4. ASSUME whole PROVE InProgress(t)'
    <3>1. InProgress(t) BY <2>2, <2>4 DEF WholeInv
    <3>2. DescOf(t)' = DescOf(t) /\ Lead(t)' = Lead(t) BY <2>1 DEF DescOf, Lead
    <3> QED BY <2>1, <2>3, <3>1, <3>2 DEF InProgress, WritePlaces, ReadPlaces
  <2> QED BY <1>1, <2>1, <2>2, <2>4, WholeGoesOn
<1>5. ASSUME read_data(t) PROVE WholeInv'
  <2> DEFINE v == Window(bytes, offset[t] - Lead(t), Lead(t))
             w == Window(bytes, At(t), arg[t])
  <2>1. /\ pc[t] = "r_data" /\ pc'[t] = "r_tail" /\ arg'[t] = arg[t] /\ offset'[t] = offset[t]
        /\ UNCHANGED <<setup, bytes, whole, before>> /\ buf'[t] = Append(buf[t], w)
        /\ pos' = [pos EXCEPT ![DescOf(t)] = At(t) + Len(w)]
    BY <1>5 DEF read_data, Seek, Collect, started, Step, TypeOK, WholeInv
  <2>2. ~ AtRest(t) BY <2>1 DEF AtRest
  <2>3. v \in Seq(Cell) /\ w \in Seq(Cell)
    <3>1. /\ bytes \in Seq(Cell) /\ offset[t] - Lead(t) \in Nat /\ Lead(t) \in Nat
      BY <1>1, Place, Sizes DEF TypeOK
    <3>2. arg[t] \in Nat BY <1>1, <2>1 DEF InCall, ReadPlaces
    <3> QED BY <1>1, <3>1, <3>2, WindowType
  <2>4. ASSUME whole PROVE InProgress(t)'
    <3> DEFINE from == Larger(before[2][DescOf(t)], H)
    <3>1. InProgress(t) /\ before[2] \in [Desc -> Nat] BY <2>2, <2>4 DEF WholeInv, Idle, AtRest
    <3>2. DescOf(t)' = DescOf(t) /\ Lead(t)' = Lead(t) BY <2>1 DEF DescOf, Lead
    <3>3. /\ bytes = before[1] /\ arg[t] \in ReadSizes /\ buf[t] = <<v>>
          /\ pos = [before[2] EXCEPT ![DescOf(t)] = from]
          /\ offset[t] = IF before[2][DescOf(t)] < H THEN before[2][DescOf(t)] + H
                         ELSE before[2][DescOf(t)]
      BY <2>1, <3>1 DEF InProgress, ReadPlaces
    <3>4. At(t) = from BY <1>1, <3>1, <3>3 DEF At
    <3>5. buf'[t] = <<v, w>>
      <4> HIDE DEF v, w
      <4> QED BY <2>1, <2>3, <3>3, AppendPair
    <3>6. pos' = [before[2] EXCEPT ![DescOf(t)] = from + Len(w)]
      <4> HIDE DEF from, w
      <4> QED BY <1>1, <2>1, <3>1, <3>3, <3>4
    <3> QED BY <2>1, <3>2, <3>3, <3>4, <3>5, <3>6 DEF InProgress, WritePlaces, ReadPlaces
  <2> QED BY <1>1, <2>1, <2>2, <2>4, WholeGoesOn
<1>6. ASSUME read_tail(t) PROVE WholeInv'
  <2>1. pc[t] = "r_tail" /\ pc'[t] = "idle" /\ UNCHANGED <<whole, before>>
    BY <1>6 DEF read_tail, started, Step, TypeOK, WholeInv
  <2>2. ~ AtRest(t) /\ AtRest(t)' BY <2>1 DEF AtRest
  <2> QED BY <1>1, <2>1, <2>2, WholeGoesOn
<1> QED BY <1>2, <1>3, <1>4, <1>5, <1>6 DEF ReadStep

\* Every step keeps WholeInv.
LEMMA WholeStep == WholeInv /\ [Next]_vars => WholeInv'
<1> SUFFICES ASSUME WholeInv, [Next]_vars PROVE WholeInv' OBVIOUS
<1>1. TypeOK' BY TypeStep DEF WholeInv
<1>2. CASE UNCHANGED vars
  <2>1. UNCHANGED <<whole, before, pc, setup, bytes, pos, offset, arg, buf>> BY <1>2 DEF vars
  <2>2. \A t \in Thread : (AtRest(t)' <=> AtRest(t)) /\ (InProgress(t) => InProgress(t)')
    BY <2>1 DEF AtRest, InProgress, Prefix, Lead, DescOf
  <2> QED BY <1>1, <2>1, <2>2 DEF WholeInv, Idle
<1>3. CASE Crash
  <2>1. \A t \in Thread : AtRest(t)' BY <1>3 DEF Crash, AtRest
  <2> QED BY <1>1, <2>1 DEF WholeInv, Idle, AtRest
<1>4. ASSUME NEW t \in Thread, SeekStep(t) PROVE WholeInv'
  <2>1. pc' = pc /\ Begin(t) BY <1>4 DEF SeekStep, lseek
  <2>2. whole' => \A u \in Thread : AtRest(u)' BY <2>1 DEF Begin, Idle, AtRest
  <2> QED BY <1>1, <2>2 DEF WholeInv, Idle, AtRest
<1>5. ASSUME NEW t \in Thread, WriteStep(t) \/ ReadStep(t) PROVE WholeInv'
  BY <1>1, <1>5, WholeWrite, WholeRead
<1> QED BY <1>2, <1>3, <1>4, <1>5 DEF Next, WriteStep, ReadStep, SeekStep

\* At first all threads are at rest.
LEMMA WholeInit == Init => WholeInv
<1> SUFFICES ASSUME Init PROVE WholeInv OBVIOUS
<1>1. \A t \in Thread : AtRest(t) BY DEF Init, AtRest
<1> QED BY <1>1, InitType DEF WholeInv, Idle, AtRest

\* What Linker sees of a descriptor.
LEMMA Mapped ==
  ASSUME NEW d \in Desc
  PROVE  /\ d \in 1..(NumDesc + 1) /\ d \in Whole!OpenFds /\ Whole!SpareFd
         /\ Whole!Tracked(d) /\ Whole!IsFirst(d, d)
         /\ Whole!File(d) = "file" /\ Whole!Pos(d) = Seen[2][d]
         /\ Whole!Acc(d) = "rw" /\ Whole!App(d) = FALSE
         /\ Whole!Handled(d)
<1>1. NumDesc \in Nat \ {0} /\ d \in 1..NumDesc /\ d \in 1..(NumDesc + 1) /\ d # 0
      /\ NumDesc + 1 \in 1..(NumDesc + 1) /\ NumDesc + 1 \notin Desc
  BY StepsAssumption DEF Desc
<1>2. d \in Whole!OpenFds BY <1>1 DEF Whole!OpenFds
<1>3. Whole!SpareFd
  <2>1. NumDesc + 1 \notin Whole!OpenFds BY <1>1 DEF Whole!OpenFds
  <2> QED BY <1>1, <2>1 DEF Whole!SpareFd
<1>4. /\ Whole!File(d) = "file" /\ Whole!Pos(d) = Seen[2][d]
      /\ Whole!Acc(d) = "rw" /\ Whole!App(d) = FALSE
  BY <1>1 DEF Whole!File, Whole!Pos, Whole!Acc, Whole!App
<1> DEFINE list == [i \in Desc |-> [fd |-> i, path |-> "file"]]
<1>5. Len(list) = NumDesc /\ \A i \in Desc : list[i].fd = i
  <2>1. list \in [1..NumDesc -> [fd : Desc, path : {"file"}]] BY DEF Desc
  <2>2. Len(list) = NumDesc BY <1>1, <2>1, MakeSeq
  <2> QED BY <2>2
<1>6. Whole!Tracked(d) BY <1>1, <1>5 DEF Whole!Tracked
<1>7. Whole!IsFirst(d, d)
  <2>1. \A j \in 1..(d - 1) : j \in Desc /\ j # d BY <1>1 DEF Desc
  <2> QED BY <1>1, <1>5, <2>1 DEF Whole!IsFirst
<1>8. Whole!Handled(d) BY <1>6 DEF Whole!Handled
<1> QED BY <1>1, <1>2, <1>3, <1>4, <1>6, <1>7, <1>8

\* The descriptions Linker sees for the offsets q.
Table(q) ==
  [o \in 1..(NumDesc + 1) |->
     IF o \in Desc THEN [path |-> "file", pos |-> q[o], acc |-> "rw", app |-> FALSE]
     ELSE [path |-> "none", pos |-> 0, acc |-> "r", app |-> FALSE]]

\* An entry of that table with another offset.
LEMMA EntryMoved ==
  \A p, to, e : e = [path |-> "file", pos |-> p, acc |-> "rw", app |-> FALSE]
               => [e EXCEPT !.pos = to] = [path |-> "file", pos |-> to, acc |-> "rw", app |-> FALSE]
<1>1. \A a \in BOOLEAN : \A p, to, e :
        e = [path |-> "file", pos |-> p, acc |-> "rw", app |-> a]
        => [e EXCEPT !.pos = to] = [path |-> "file", pos |-> to, acc |-> "rw", app |-> a]
  BY SMT
<1> QED BY <1>1, Zenon

\* Moving an offset is moving it in the table.
LEMMA TableMoved ==
  ASSUME NEW q \in [Desc -> Nat], NEW d \in Desc, NEW to \in Nat, NEW r,
         r = [q EXCEPT ![d] = to]
  PROVE  Table(r) = [Table(q) EXCEPT ![d].pos = to]
<1> DEFINE T == 1..(NumDesc + 1)
           old == Table(q)
           new == [old EXCEPT ![d].pos = to]
<1>1. d \in T BY Mapped
<1>2. r[d] = to /\ \A o \in Desc \ {d} : r[o] = q[o] OBVIOUS
<1>3. DOMAIN old = T /\ old[d] = [path |-> "file", pos |-> q[d], acc |-> "rw", app |-> FALSE]
  BY <1>1 DEF Table
<1>5. \A o \in T \ {d} : Table(r)[o] = old[o] BY <1>2 DEF Table
<1>6. Table(r)[d] = [path |-> "file", pos |-> to, acc |-> "rw", app |-> FALSE]
  BY <1>1, <1>2 DEF Table
<1>7. Table(r) = [o \in T |-> Table(r)[o]] BY DEF Table
<1> HIDE DEF old
<1>8. new[d] = [path |-> "file", pos |-> to, acc |-> "rw", app |-> FALSE]
  <2>1. new[d] = [old[d] EXCEPT !.pos = to] BY <1>1, <1>3
  <2>2. \A e : e = [path |-> "file", pos |-> q[d], acc |-> "rw", app |-> FALSE]
               => [e EXCEPT !.pos = to] = [path |-> "file", pos |-> to, acc |-> "rw", app |-> FALSE]
    BY EntryMoved, Zenon
  <2> HIDE DEF new
  <2> QED BY <1>3, <2>1, <2>2, Zenon
<1>9. \A o \in T \ {d} : new[o] = old[o] BY <1>3
<1>10. new = [o \in T |-> new[o]] BY <1>3
<1> HIDE DEF new, T
<1>11. \A o \in T : new[o] = Table(r)[o] BY <1>5, <1>6, <1>8, <1>9
<1>12. new = Table(r) BY <1>7, <1>10, <1>11
<1> QED BY <1>12 DEF new, old

\* A descriptor is its own description.
LEMMA Itself ==
  ASSUME NEW d \in Desc
  PROVE  [fd \in 1..(NumDesc + 1) |-> IF fd \in Desc THEN fd ELSE 0][d] = d
  BY Mapped

\* The call Linker sees is the one whose last step this is.
LEMMA SeenThen ==
  ASSUME WholeInv, whole, NEW t \in Thread, ~ AtRest(t)
  PROVE  /\ Seen[1] = before[1] /\ Seen[2] = before[2]
         /\ InProgress(t) /\ before[1] \in Seq(Cell) /\ before[2] \in [Desc -> Nat]
         /\ \A u \in Thread \ {t} : AtRest(u)
<1>1. ~ Idle BY DEF Idle, AtRest
<1> QED BY <1>1 DEF WholeInv, Seen

\* After the last system call of a call Linker sees the file as it is.
LEMMA SeenAtEnd ==
  ASSUME WholeInv, TypeOK, whole', whole, NEW t \in Thread, Alone(t), ~ AtRest(t), AtRest(t)'
  PROVE  Seen'[1] = bytes' /\ Seen'[2] = pos'
<1>1. \A u \in Thread \ {t} : AtRest(u) BY SeenThen
<1>2. \A u \in Thread \ {t} : AtRest(u)' BY <1>1 DEF Alone, AtRest
<1>3. Idle' BY <1>2 DEF Idle, AtRest
<1> QED BY <1>3 DEF Seen

\* The operators of the format are the same ones in both modules.
LEMMA SameFormat ==
  /\ \A s, at, n : Whole!Window(s, at, n) = Window(s, at, n)
  /\ \A s, at, d : Whole!Overlay(s, at, d) = Overlay(s, at, d)
  /\ \A n : Whole!Zeros(n) = Zeros(n)
  /\ \A s : Whole!aes_encrypt(s) = aes_encrypt(s)
  /\ \A s : Whole!aes_decrypt(s) = aes_decrypt(s)
  /\ \A a, b : Whole!Larger(a, b) = Larger(a, b)
  /\ Whole!FILE_HEADER_POLL_SIZE = H
<1>1. /\ \A a, b : Whole!Larger(a, b) = Larger(a, b) /\ Whole!Smaller(a, b) = Smaller(a, b)
  BY DEF Whole!Larger, Larger, Whole!Smaller, Smaller
<1>2. \A s, at, n : Whole!Window(s, at, n) = Window(s, at, n)
  BY <1>1 DEF Whole!Window, Window
<1>3. \A s, at, d : Whole!Overlay(s, at, d) = Overlay(s, at, d)
  BY <1>1 DEF Whole!Overlay, Overlay
<1>4. \A n : Whole!Zeros(n) = Zeros(n) BY DEF Whole!Zeros, Zeros
<1>5. /\ \A n, k : Whole!InWholeBlock(n, k) <=> InWholeBlock(n, k)
      /\ \A s, k : Whole!BlockAt(s, k) = BlockAt(s, k)
  BY DEF Whole!InWholeBlock, InWholeBlock, Whole!BlockAt, BlockAt
<1>6. \A s : Whole!aes_encrypt(s) = aes_encrypt(s)
  BY <1>5 DEF Whole!aes_encrypt, aes_encrypt
<1>7. \A s : Whole!aes_decrypt(s) = aes_decrypt(s)
  BY <1>5 DEF Whole!aes_decrypt, aes_decrypt
<1>8. Whole!FILE_HEADER_POLL_SIZE = H BY DEF Whole!FILE_HEADER_POLL_SIZE, H, FILE_HEADER_POLL_SIZE
<1> QED BY <1>1, <1>2, <1>3, <1>4, <1>6, <1>7, <1>8

\* So what read makes of the pieces is the same, too.
LEMMA SameCollected ==
  ASSUME NEW lead, NEW n, NEW head, NEW middle, NEW tail
  PROVE  Whole!Collected(lead, n, head, middle, tail) = Collected(lead, n, head, middle, tail)
  BY SameFormat DEF Whole!Collected, Collected

\* What is in hand when the last system call of a read is made is what Linker
\* says the whole read delivers.
LEMMA WholeDelivers ==
  ASSUME WholeInv, whole, NEW t \in Thread, pc[t] = "r_tail"
  PROVE  Collected(Lead(t), arg[t], buf[t][1], buf[t][2], Window(bytes, TailFrom(t), TailCount(t)))
           = Whole!ReadData(DescOf(t), arg[t])
<1> DEFINE d == DescOf(t)
           n == arg[t]
           file == before[1]
           from == Larger(before[2][d], H)
           head == Window(file, offset[t] - Lead(t), Lead(t))
           data == Window(file, from, n)
           tail == Window(file, offset[t] + n, TailCount(t))
<1>1. ~ AtRest(t) /\ d \in Desc BY Place DEF AtRest, WholeInv
<1>2. Seen[1] = file /\ Seen[2] = before[2] /\ InProgress(t) BY <1>1, SeenThen
<1>3. /\ bytes = file /\ buf[t] = <<head, data>>
      /\ offset[t] = IF before[2][d] < H THEN before[2][d] + H ELSE before[2][d]
  BY <1>2 DEF InProgress, ReadPlaces
<1>4. buf[t][1] = head /\ buf[t][2] = data BY <1>3
<1>5. Whole!Handled(d) /\ Whole!File(d) = "file" /\ Whole!Pos(d) = before[2][d]
  BY <1>1, <1>2, Mapped
<1>6. Whole!Offset(d) = offset[t] /\ Whole!SkipHeader(d) = from
  BY <1>3, <1>5, SameFormat DEF Whole!Offset, Whole!SkipHeader
<1>7. Whole!TailCount(d, n) = TailCount(t) BY <1>6 DEF Whole!TailCount, TailCount
<1>8. [p \in {"file"} |-> Seen[1]][Whole!File(d)] = file BY <1>2, <1>5
<1> HIDE DEF d, n, file, from
<1>9. Whole!Decrypted(d, n) = Collected(Lead(t), n, head, data, tail)
  BY <1>6, <1>7, <1>8, SameFormat, SameCollected DEF Whole!Decrypted, Lead
<1> USE DEF d, n, file
<1>10. Window(bytes, TailFrom(t), TailCount(t)) = tail BY <1>3 DEF TailFrom
<1> QED BY <1>4, <1>5, <1>9, <1>10 DEF Whole!ReadData

\* A read that nothing overlaps returns what Linker says a read delivers: the five
\* system calls together are the single step of Linker.
THEOREM ReadsWhole == Spec => ReadsAsWhole
<1>1. ASSUME WholeInv, [Next]_vars, NEW t \in Thread, whole, pc[t] = "r_tail", pc'[t] = "idle"
      PROVE  got'[t] = Whole!ReadData(DescOf(t), arg[t])
  <2>1. TypeOK BY <1>1 DEF WholeInv
  <2>2. read_tail(t)
    <3>1. ~ Crash BY <1>1 DEF Crash
    <3>2. ~ UNCHANGED vars BY <1>1 DEF vars
    <3>3. PICK u \in Thread : WriteStep(u) \/ ReadStep(u) \/ SeekStep(u)
      BY <1>1, <3>1, <3>2 DEF Next, WriteStep, ReadStep, SeekStep
    <3>4. Alone(u) BY <2>1, <3>3, WriteAlone, ReadAlone, SeekAlone
    <3>5. u = t BY <1>1, <3>4 DEF Alone
    <3> QED
      BY <1>1, <3>3, <3>5 DEF WriteStep, ReadStep, SeekStep, write_offset, write_open,
         write_head, write_data, read_offset, read_skip, read_head, read_data, lseek, Step
  <2>3. got'[t] = Collected(Lead(t), arg[t], buf[t][1], buf[t][2],
                            Window(bytes, TailFrom(t), TailCount(t)))
    BY <2>1, <2>2 DEF read_tail, TypeOK
  <2> QED BY <1>1, <2>3, WholeDelivers
<1>2. WholeInv /\ [Next]_vars => [\A t \in Thread :
        (whole /\ pc[t] = "r_tail" /\ pc'[t] = "idle") =>
           got'[t] = Whole!ReadData(DescOf(t), arg[t])]_vars
  BY <1>1
<1> QED BY <1>2, WholeInit, WholeStep, PTL DEF Spec, ReadsAsWhole

\* A step that shows Linker neither another file nor another offset.
LEMMA NothingSeen ==
  ASSUME Seen'[1] = Seen[1], Seen'[2] = Seen[2]
  PROVE  UNCHANGED Whole!vars
  BY DEF Whole!vars

\* A step in the middle of a call shows nothing.
LEMMA MiddleUnseen ==
  ASSUME WholeInv, whole, NEW t \in Thread, ~ AtRest(t), ~ AtRest(t)',
         whole' = whole, before' = before
  PROVE  UNCHANGED Whole!vars
<1>1. Seen[1] = before[1] /\ Seen[2] = before[2] BY SeenThen
<1>2. ~ Idle' BY DEF Idle, AtRest
<1>3. Seen' = before' BY <1>2 DEF Seen
<1> QED BY <1>1, <1>3, NothingSeen

\* Nor does the first step of a call.
LEMMA BeginUnseen ==
  ASSUME NEW t \in Thread, Begin(t), whole', UNCHANGED pos
  PROVE  UNCHANGED Whole!vars
<1>1. Idle /\ before' = <<bytes, pos>> /\ bytes' = bytes BY DEF Begin
<1>2. Seen = <<bytes, pos>> BY <1>1 DEF Seen
<1>3. Seen' = <<bytes, pos>> BY <1>1 DEF Seen
<1> QED BY <1>2, <1>3, NothingSeen

\* Nor the end of the process.
LEMMA CrashUnseen == ASSUME Crash, whole' PROVE UNCHANGED Whole!vars
<1>1. Idle /\ UNCHANGED <<bytes, pos>> /\ pc' = [t \in Thread |-> "dead"] BY DEF Crash
<1>2. Idle' BY <1>1 DEF Idle
<1>3. Seen = <<bytes, pos>> /\ Seen' = <<bytes, pos>> BY <1>1, <1>2 DEF Seen
<1> QED BY <1>3, NothingSeen

\* lseek is one step here too.
LEMMA SeekIsCall ==
  ASSUME WholeInv, NEW t \in Thread, NEW s \in Seeks, lseek(t, s[1], s[2]), whole',
         NEW d, d = DescOf(t)
  PROVE  Whole!lseek(d, s[1], s[2])
<1> DEFINE to == SeekTarget(t, s[1], s[2])
<1>1. TypeOK /\ d \in Desc /\ At(t) \in Nat /\ bytes \in Seq(Cell) /\ pos \in [Desc -> Nat]
  BY Place DEF WholeInv, TypeOK
<1>2. s[1] \in Nat /\ s[2] \in {"SET", "CUR", "END"} BY StepsAssumption
<1>3. to \in 0..MaxLen
  <2>1. Len(bytes) \in Nat /\ H \in Nat /\ MaxLen \in Nat BY <1>1, Sizes
  <2>2. to \in Nat BY <1>1, <1>2, <2>1 DEF SeekTarget
  <2>3. to <= MaxLen BY DEF lseek
  <2> QED BY <2>1, <2>2, <2>3
<1>4. /\ Idle /\ bytes' = bytes /\ pc' = pc /\ pos' = [pos EXCEPT ![d] = to]
  BY DEF lseek, Begin, Seek
<1>5. Idle' BY <1>4 DEF Idle
<1>6. Seen = <<bytes, pos>> /\ Seen' = <<bytes', pos'>> BY <1>4, <1>5 DEF Seen
<1>7. Seen[1] = bytes /\ Seen[2] = pos /\ Seen'[1] = bytes /\ Seen'[2] = pos'
  BY <1>4, <1>6
<1>8. Whole!SeekTarget(d, s[1], s[2]) = to
  <2>1. Whole!Handled(d) /\ Whole!File(d) = "file" /\ Whole!Pos(d) = At(t)
    BY <1>1, <1>7, Mapped DEF At
  <2>2. [p \in {"file"} |-> Seen[1]][Whole!File(d)] = bytes BY <1>7, <2>1
  <2> QED BY <2>1, <2>2, SameFormat DEF Whole!SeekTarget, SeekTarget
<1> HIDE DEF to
<1>9. Whole!SetPos(d, Whole!SeekTarget(d, s[1], s[2]))
  <2>1. /\ d \in Desc /\ to \in Nat
        /\ Seen[2] \in [Desc -> Nat] /\ Seen'[2] = [Seen[2] EXCEPT ![d] = to]
    BY <1>1, <1>3, <1>4, <1>7
  <2>2. Table(Seen'[2]) = [Table(Seen[2]) EXCEPT ![d].pos = to] BY <2>1, TableMoved
  <2>3. [fd \in 1..(NumDesc + 1) |-> IF fd \in Desc THEN fd ELSE 0][d] = d BY <1>1, Itself
  <2> QED BY <1>8, <2>2, <2>3 DEF Whole!SetPos, Table
<1>10. [p \in {"file"} |-> Seen[1]]' = [p \in {"file"} |-> Seen[1]] BY <1>7
<1>11. d \in Whole!OpenFds BY <1>1, Mapped
<1>12. Whole!SeekTarget(d, s[1], s[2]) \in 0..MaxLen BY <1>3, <1>8
<1>13. Whole!lseek(d, s[1], s[2])
  BY <1>9, <1>10, <1>11, <1>12 DEF Whole!lseek
<1> QED BY <1>13

\* The last system call of a read makes the whole read.
LEMMA ReadIsCall ==
  ASSUME WholeInv, whole', NEW t \in Thread, read_tail(t),
         NEW d, d = DescOf(t), NEW n, n = arg[t]
  PROVE  Whole!read(d, n) /\ n \in ReadSizes
<1> DEFINE from == Larger(before[2][d], H)
           data == Window(before[1], from, n)
           to == from + Len(data)
<1>1. /\ TypeOK /\ Alone(t) /\ pc[t] = "r_tail" /\ whole /\ d \in Desc
      /\ bytes' = bytes /\ pos' = pos
  BY Place, ReadAlone DEF WholeInv, read_tail, started, Step, ReadStep
<1>2. ~ AtRest(t) /\ AtRest(t)' BY <1>1 DEF AtRest, read_tail, Step, TypeOK
<1>3. /\ Seen[1] = before[1] /\ Seen[2] = before[2] /\ InProgress(t)
      /\ before[1] \in Seq(Cell) /\ before[2] \in [Desc -> Nat]
  BY <1>1, <1>2, SeenThen
<1>4. /\ bytes = before[1] /\ n \in ReadSizes /\ pos = [before[2] EXCEPT ![d] = to]
  BY <1>1, <1>3 DEF InProgress, ReadPlaces
<1>5. Seen'[1] = before[1] /\ Seen'[2] = pos BY <1>1, <1>2, <1>4, SeenAtEnd
<1>6. from \in Nat /\ to \in Nat
  <2>1. from \in Nat BY <1>1, <1>3, Sizes DEF Larger
  <2>2. n \in Nat BY <1>4, StepsAssumption
  <2>3. data \in Seq(Cell) BY <1>3, <2>1, <2>2, WindowType
  <2> HIDE DEF data, from
  <2> QED BY <2>1, <2>3
<1>7. /\ Whole!Handled(d) /\ Whole!File(d) = "file" /\ Whole!Pos(d) = before[2][d]
      /\ Whole!Acc(d) = "rw" /\ d \in Whole!OpenFds
  BY <1>1, <1>3, Mapped
<1>8. Whole!SkipHeader(d) = from BY <1>7, SameFormat DEF Whole!SkipHeader
<1>9. [p \in {"file"} |-> Seen[1]][Whole!File(d)] = before[1] BY <1>3, <1>7
<1>10. Whole!Window(before[1], from, n) = data BY SameFormat
<1> HIDE DEF from, data
<1>11. Table(Seen'[2]) = [Table(Seen[2]) EXCEPT ![d].pos = to]
  <2>1. d \in Desc /\ to \in Nat /\ Seen[2] \in [Desc -> Nat] /\ Seen'[2] = [Seen[2] EXCEPT ![d] = to]
    BY <1>1, <1>3, <1>4, <1>5, <1>6
  <2> HIDE DEF to
  <2> QED BY <2>1, TableMoved
<1>12. [fd \in 1..(NumDesc + 1) |-> IF fd \in Desc THEN fd ELSE 0][d] = d BY <1>1, Itself
<1>13. [p \in {"file"} |-> Seen[1]]' = [p \in {"file"} |-> Seen[1]] BY <1>3, <1>5
<1>14. Whole!read(d, n)
  BY <1>7, <1>8, <1>9, <1>10, <1>11, <1>12, <1>13 DEF Whole!read, Whole!SetPos, Table
<1> QED BY <1>4, <1>14

\* The last system call of a write makes the whole write.
LEMMA WriteIsCall ==
  ASSUME WholeInv, whole', NEW t \in Thread, write_data(t), TypeOK',
         NEW d, d = DescOf(t), NEW w, w = arg[t]
  PROVE  Whole!write(d, w) /\ w \in Payloads
<1> DEFINE file == before[1]
           at == before[2][d]
           lead == Lead(t)
           prefix == Prefix(t)
           temp == aes_encrypt(prefix \o w)
           mid == Overlay(file, at - lead, SubSeq(temp, 1, lead))
           new == Overlay(mid, at, SubSeq(temp, lead + 1, Len(temp)))
           to == at + Len(w)
<1>1. TypeOK /\ Alone(t) /\ pc[t] = "w_data" /\ whole /\ d \in Desc
  BY Place, WriteAlone DEF WholeInv, write_data, started, Step, WriteStep
<1>2. ~ AtRest(t) /\ AtRest(t)' BY <1>1 DEF AtRest, write_data, Step, TypeOK
<1>3. /\ Seen[1] = file /\ Seen[2] = before[2] /\ InProgress(t)
      /\ file \in Seq(Cell) /\ before[2] \in [Desc -> Nat]
  BY <1>1, <1>2, SeenThen
<1>4. /\ offset[t] = at /\ pos = before[2] /\ w \in Payloads
      /\ buf[t] = temp /\ bytes = mid
  BY <1>1, <1>3 DEF InProgress, WritePlaces
<1>5. At(t) = at BY <1>4 DEF At
<1>6. bytes' = new /\ pos' = [before[2] EXCEPT ![d] = to]
  <2>1. /\ bytes' = Overlay(bytes, At(t), SubSeq(buf[t], Lead(t) + 1, Len(buf[t])))
        /\ pos' = [pos EXCEPT ![DescOf(t)] = At(t) + Len(arg[t])]
    BY DEF write_data, Seek
  <2> QED BY <1>4, <1>5, <2>1
<1>7. Seen'[1] = new /\ Seen'[2] = [before[2] EXCEPT ![d] = to]
  BY <1>1, <1>2, <1>6, SeenAtEnd
<1>8. Len(new) <= MaxLen BY <1>6 DEF TypeOK
<1>9. w \in Seq(Cell) /\ w # <<>> /\ at \in Nat /\ to \in Nat /\ lead \in Nat /\ at - lead \in Nat
  <2>1. w \in Seq(Cell) /\ w # <<>> BY <1>4, StepsAssumption
  <2>2. at \in Nat /\ Len(w) \in Nat BY <1>1, <1>3, <2>1
  <2>3. lead \in Nat /\ at - lead \in Nat BY <1>1, <1>4, Place, Sizes
  <2> QED BY <2>1, <2>2, <2>3
<1>10. prefix = Overlay(Zeros(lead), 0, Window(file, at - lead, lead)) BY <1>4 DEF Prefix
<1>11. Len(prefix) = lead
  <2> DEFINE piece == Window(file, at - lead, lead)
  <2>1. piece \in Seq(Cell) /\ Len(piece) \in 0..lead BY <1>3, <1>9, WindowType
  <2>2. Zeros(lead) \in Seq(Cell) /\ Len(Zeros(lead)) = lead BY <1>9, ZerosType
  <2> HIDE DEF piece, lead
  <2>3. 0 + Len(piece) <= Len(Zeros(lead)) /\ 0 \in Nat BY <1>9, <2>1, <2>2
  <2>4. Len(Overlay(Zeros(lead), 0, piece)) = Len(Zeros(lead)) BY <2>1, <2>2, <2>3, OverlayInside
  <2> QED BY <1>10, <2>2, <2>4 DEF piece
<1>12. lead = at % Block BY <1>4 DEF Lead
<1>13. /\ Whole!Tracked(d) /\ Whole!SpareFd /\ Whole!IsFirst(d, d) /\ d \in Whole!OpenFds
       /\ Whole!File(d) = "file" /\ Whole!Pos(d) = at /\ Whole!Acc(d) = "rw"
       /\ Whole!App(d) = FALSE
  BY <1>1, <1>3, Mapped
<1>14. [p \in {"file"} |-> Seen[1]]["file"] = file BY <1>3
<1>15. Table(Seen'[2]) = [Table(Seen[2]) EXCEPT ![d].pos = to]
  <2>1. d \in Desc /\ to \in Nat /\ Seen[2] \in [Desc -> Nat] /\ Seen'[2] = [Seen[2] EXCEPT ![d] = to]
    BY <1>1, <1>3, <1>7, <1>9
  <2> HIDE DEF to
  <2> QED BY <2>1, TableMoved
<1>16. [fd \in 1..(NumDesc + 1) |-> IF fd \in Desc THEN fd ELSE 0][d] = d BY <1>1, Itself
<1> HIDE DEF file, at, lead, prefix, to
<1>17. prefix \in Whole!BlockPrefix(d, at % Block)
  <2>1. d \in 1..Len([i \in Desc |-> [fd |-> i, path |-> "file"]])
    BY <1>13 DEF Whole!IsFirst
  <2>2. [i \in Desc |-> [fd |-> i, path |-> "file"]][d].path = "file" BY <1>1
  <2>3. prefix = Whole!Overlay(Whole!Zeros(lead), 0, Whole!Window(file, at - lead, lead))
    BY <1>10, SameFormat
  <2> QED BY <1>12, <1>13, <1>14, <2>1, <2>2, <2>3 DEF Whole!BlockPrefix
<1>18. Whole!Written(d, prefix, w) = new
  BY <1>11, <1>13, <1>14, SameFormat DEF Whole!Written, Whole!Landing
<1> HIDE DEF new
<1>19. [p \in {"file"} |-> Seen[1]]' = [[p \in {"file"} |-> Seen[1]] EXCEPT !["file"] = new]
  BY <1>7
<1>20. Whole!PosAfter(d, new, w) = to BY <1>13 DEF Whole!PosAfter, to
<1>21. new \in {Whole!Written(d, p, w) : p \in Whole!BlockPrefix(d, Whole!Pos(d) % Block)}
  BY <1>13, <1>17, <1>18
<1>22. Whole!write(d, w)
  <2>1. d \in Whole!OpenFds /\ Whole!Acc(d) # "r" /\ w # <<>> BY <1>9, <1>13
  <2>2. \E s \in {Whole!Written(d, p, w) : p \in Whole!BlockPrefix(d, Whole!Pos(d) % Block)} :
          Whole!StoreFile(d, s) /\ Whole!SetPos(d, Whole!PosAfter(d, s, w))
    BY <1>8, <1>13, <1>15, <1>16, <1>19, <1>20, <1>21
       DEF Whole!StoreFile, Whole!SetPos, Table
  <2> QED BY <2>1, <2>2 DEF Whole!write
<1> QED BY <1>4, <1>22

\* Every step of LinkerSteps is a call of Linker or does not show.
LEMMA StepIsCall ==
  ASSUME WholeInv, [Next]_vars, whole'
  PROVE  Whole!Next \/ UNCHANGED Whole!vars
<1>1. TypeOK' BY TypeStep DEF WholeInv
<1>2. CASE UNCHANGED vars
  <2>1. UNCHANGED <<whole, before, pc, bytes, pos>> BY <1>2 DEF vars
  <2>2. Idle' <=> Idle BY <2>1 DEF Idle
  <2>3. Seen'[1] = Seen[1] /\ Seen'[2] = Seen[2] BY <2>1, <2>2 DEF Seen
  <2> QED BY <2>3, NothingSeen
<1>3. CASE Crash BY <1>3, CrashUnseen
<1>4. \A t \in Thread : DescOf(t) \in 1..(NumDesc + 1)
  <2> SUFFICES ASSUME NEW t \in Thread PROVE DescOf(t) \in 1..(NumDesc + 1) OBVIOUS
  <2>1. DescOf(t) \in Desc BY Place DEF WholeInv
  <2> QED BY <2>1, Mapped
<1>5. ASSUME NEW t \in Thread,
             \/ \E s \in Seeks : lseek(t, s[1], s[2])
             \/ read_tail(t) \/ write_data(t)
      PROVE  Whole!Next
  <2>1. PICK d \in 1..(NumDesc + 1) : d = DescOf(t) BY <1>4
  <2>2. PICK w : w = arg[t] OBVIOUS
  <2>3. ASSUME NEW s \in Seeks, lseek(t, s[1], s[2]) PROVE Whole!Next
    <3>1. Whole!lseek(d, s[1], s[2]) BY <2>1, <2>3, SeekIsCall
    <3> QED BY <3>1 DEF Whole!Next
  <2>4. CASE read_tail(t)
    <3>1. Whole!read(d, w) /\ w \in ReadSizes BY <2>1, <2>2, <2>4, ReadIsCall
    <3> QED BY <3>1 DEF Whole!Next
  <2>5. CASE write_data(t)
    <3>1. Whole!write(d, w) /\ w \in Payloads BY <1>1, <2>1, <2>2, <2>5, WriteIsCall
    <3> QED BY <3>1 DEF Whole!Next
  <2> QED BY <1>5, <2>3, <2>4, <2>5
<1>6. ASSUME NEW t \in Thread,
             (\E d \in Payloads : write_offset(t, d)) \/ \E n \in ReadSizes : read_offset(t, n)
      PROVE  UNCHANGED Whole!vars
  <2>1. Begin(t) /\ UNCHANGED pos BY <1>6 DEF write_offset, read_offset
  <2> QED BY <2>1, BeginUnseen
<1>7. ASSUME NEW t \in Thread,
             write_open(t) \/ write_head(t) \/ read_skip(t) \/ read_head(t) \/ read_data(t)
      PROVE  UNCHANGED Whole!vars
  <2>1. whole' = whole /\ before' = before
    BY <1>7 DEF write_open, write_head, read_skip, read_head, read_data, started
  <2>2. /\ pc[t] \in {"w_open", "w_head", "r_skip", "r_head", "r_data"}
        /\ pc'[t] \in {"w_head", "w_data", "r_head", "r_data", "r_tail"}
    BY <1>7 DEF write_open, write_head, read_skip, read_head, read_data, Step, WholeInv, TypeOK
  <2>3. ~ AtRest(t) /\ ~ AtRest(t)' BY <2>2 DEF AtRest
  <2> QED BY <2>1, <2>3, MiddleUnseen
<1> QED BY <1>2, <1>3, <1>5, <1>6, <1>7 DEF Next

\* As long as no two calls overlap, the system calls of read, write and lseek add
\* up to the calls of Linker: every step is a call of Linker as a whole, or a step
\* within a call of which Linker sees nothing.
THEOREM StepsMakeCalls == Spec => StepsAreCalls
<1>1. WholeInv /\ [Next]_vars => [whole' => Whole!Next]_(Whole!vars)
  BY StepIsCall
<1> QED BY <1>1, WholeInit, WholeStep, PTL DEF Spec, StepsAreCalls
=============================================================================
