--------------------------- MODULE OpenRaceProofs ---------------------------
(***************************************************************************)
(* Theorems about OpenRace for any number of processes and threads, every  *)
(* size of the file and any number of calls.                               *)
(***************************************************************************)
EXTENDS OpenRace, SequenceTheorems, TLAPS

-----------------------------------------------------------------------------
(* The inductive invariant of the control: who may be where when what is   *)
(* under the two names.                                                    *)

Inode == 0..Len(data)
PageSet == [from : Int, enc : Int]

CallPlace == {"idle", "access", "check", "open", "new", "secure", "size", "small_open",
              "small_read", "small_write", "join", "reopen", "done"}
WorkerPlace == {"none", "remove", "create", "size", "header", "wait", "again",
                "open_old", "open_new", "copy", "null", "path"}
Calls == [pc : CallPlace, creat : BOOLEAN, fs : BOOLEAN, header : BOOLEAN, fd : Nat,
          recorded : BOOLEAN, size : Nat, buffer : Seq(PageSet)]
Workers == [pc : WorkerPlace, ofd : Nat, nfd : Nat, offset : Nat, bsize : Int]

TypeOK ==
  /\ data \in Seq(Seq(PageSet)) /\ text \in Seq(PageSet)
  /\ path \in Inode /\ secure \in Inode
  /\ call \in [Process -> Calls]
  /\ \A p \in Process : call[p].fd <= Len(data)
  /\ worker \in [Process -> [Worker -> Workers]]
  /\ stores \in Nat
  /\ late \in [Process -> BOOLEAN] /\ unrenamed \in [Process -> BOOLEAN]
  /\ strayed \in BOOLEAN /\ clash \in BOOLEAN

\* There is no file and nothing that needs one until the path leads to it.
NoFileYet == path = None => data = <<>> /\ secure = None /\ text = <<>>

Sealed == Headed(data[path])
Found(p) == call[p].pc \notin {"idle", "access", "open"}
Holding(p) == call[p].pc \in {"new", "secure", "small_read", "small_write", "done"}

\* What a call knows from the steps it has made.
CallKnows(p) ==
  /\ Found(p) \/ call[p].fs => path # None
  /\ At(p, "check") => call[p].fs
  /\ Holding(p) => call[p].fd # None
  /\ call[p].header => At(p, "open") /\ path # None /\ Sealed
  /\ call[p].fs => call[p].pc \in {"check", "open"}
  /\ call[p].recorded => call[p].pc \in {"reopen", "done"}

\* A call that was overtaken has the old file, and the path leads to a headed one.
HasFile(p) ==
  /\ call[p].pc \in {"new", "small_read", "small_write"} => call[p].fd = path
  /\ call[p].pc \in {"secure", "done"} /\ call[p].fd # path => Sealed
  /\ Done(p) /\ ~ late[p] => call[p].fd = path

\* When a descriptor is recorded the file has its header, unless rename failed.
RecordedHeaded(p) ==
  /\ late[p] => At(p, "idle") \/ (Done(p) /\ ~ call[p].recorded)
  /\ unrenamed[p] => call[p].pc \in {"idle", "reopen", "done"}
  /\ unrenamed[p] /\ ~ At(p, "idle") =>
       call[p].recorded /\ secure # None /\ \A q \in Process : ~ Rebuilding(q)
  /\ call[p].recorded /\ ~ unrenamed[p] => Sealed

\* While there is a "<path>.s" the path leads to a plain file.
SecureAside ==
  secure # None => /\ secure # path /\ ~ Sealed
                   /\ \A p \in Process : call[p].fd # secure /\ ~ Creating(p)

\* A process that rebuilds is the only one to do so, and the others that have the
\* file open came late.
Alone(p) ==
  Rebuilding(p) => /\ ~ Sealed
                   /\ \A q \in Others(p) : /\ ~ Rebuilding(q) /\ ~ Creating(q)
                                           /\ Done(q) => late[q]

\* A call that came late has the file under the path, until that is replaced.
LateFile(p) == Done(p) /\ late[p] => secure # None \/ Sealed

Preparing == {"remove", "create", "size", "header"}
Ended == {"null", "path"}

\* The first thread makes the new file, the others wait for its header.
Stages(p) ==
  LET first == worker[p][0].pc
  IN  /\ call[p].pc \in {"size", "small_open", "small_read", "small_write"} => secure = None
      /\ call[p].pc \in {"small_open", "small_read"} => call[p].size = Len(data[path])
      /\ At(p, "join") =>
           /\ first \in {"remove", "create"} => secure = None
           /\ first \in {"size", "header"} =>
                secure # None /\ worker[p][0].nfd = secure /\ ~ Headed(data[secure])
           /\ first = "size" => data[secure] = <<>>
           /\ first \in Preparing => \A w \in Worker \ {0} : worker[p][w].pc = "wait"
           /\ first \notin Preparing => secure # None /\ Headed(data[secure])
           /\ \A w \in Worker :
                /\ w # 0 => worker[p][w].pc \notin Preparing
                /\ worker[p][w].pc # "none"
                /\ worker[p][w].pc \in {"open_new", "copy"} => worker[p][w].ofd = path
                /\ worker[p][w].pc = "copy" => worker[p][w].nfd = secure

Control ==
  /\ TypeOK /\ NoFileYet /\ SecureAside
  /\ \A p \in Process : /\ CallKnows(p) /\ HasFile(p) /\ RecordedHeaded(p)
                        /\ Alone(p) /\ LateFile(p) /\ Stages(p)

\* What a descriptor leads to that is not recorded has no header, and nobody is about
\* to give it one.
PlainCaller(p) == Done(p) /\ ~ call[p].recorded
PlainFiles ==
  \A p \in Process : PlainCaller(p) =>
    ~ Headed(data[call[p].fd]) /\ \A q \in Process : ~ Creating(q)

InTurnControl == ~ clash => Control /\ PlainFiles

-----------------------------------------------------------------------------
(* The inductive invariant of the data, while no page has strayed.         *)

\* What a caller that came late has is the plain file, which is the text until
\* somebody writes.
LateReads(p) ==
  Done(p) /\ late[p] /\ stores = 0 => data[call[p].fd] = text /\ ~ Headed(data[call[p].fd])

Share(w) == IF w < Last THEN Average(Len(text)) * (w + 1) ELSE Len(text)
Begin(w) == Average(Len(text)) * w

SmallReads(p) ==
  /\ call[p].pc \in {"small_open", "small_read", "small_write", "join"} =>
       call[p].size = Len(text) /\ Len(text) > 0
  /\ At(p, "small_write") => call[p].buffer = text

\* Where a thread is in its share of the pages.
Place(me, w) ==
  /\ me.offset >= Begin(w)
  /\ me.pc \notin {"copy", "null", "path"} => me.offset = Begin(w)
  /\ me.offset + me.bsize = Share(w) \/ me.offset >= Len(text)
  /\ me.pc \in Ended => me.offset >= Share(w) \/ me.offset >= Len(text)

Once(x) == [x EXCEPT !.enc = @ + 1]

\* What the threads have copied: each its share up to its offset.
Copied(p) ==
  \A w \in Worker : \A k \in Begin(w)..(worker[p][w].offset - 1) :
    k < Len(text) => data[secure][k + 2] = Once(text[k + 1])

ThreadsCopy(p) ==
  At(p, "join") =>
    /\ \A w \in Worker : Place(worker[p][w], w)
    /\ worker[p][0].pc \notin {"remove", "create", "size"} =>
         Len(data[secure]) = Len(text) + 1 /\ Copied(p)

Content ==
  /\ stores = 0 => ~ strayed
  /\ ~ strayed => /\ Reads = text
                  /\ \A p \in Process : SmallReads(p) /\ ThreadsCopy(p)
  /\ \A p \in Process : LateReads(p)

InTurnContent == ~ clash => Content

-----------------------------------------------------------------------------
(* Pages and files.                                                        *)

\* A function on 1..n is a sequence of length n.
LEMMA MakeSeq ==
  ASSUME NEW S, NEW n \in Nat, NEW f \in [1..n -> S]
  PROVE  f \in Seq(S) /\ Len(f) = n /\ DOMAIN f = 1..n
  OBVIOUS

LEMMA PageTypes ==
  /\ Header \in PageSet /\ Hole \in PageSet /\ Hole # Header
  /\ \A k \in Int : Page(k) \in PageSet /\ (k >= 0 => Page(k) # Header)
  BY DEF Header, Hole, Page, PageSet

LEMMA PageEqual ==
  ASSUME NEW x \in PageSet, NEW y \in PageSet, x.from = y.from, x.enc = y.enc
  PROVE  x = y
  BY DEF PageSet

LEMMA LayerOfPage ==
  ASSUME NEW x \in PageSet, NEW n \in Int
  PROVE  /\ [x EXCEPT !.enc = @ + n] \in PageSet
         /\ [x EXCEPT !.enc = @ + n].enc = x.enc + n
         /\ [x EXCEPT !.enc = @ + n].from = x.from
<1>1. x.from \in Int /\ x.enc \in Int BY DEF PageSet
<1>2. [x EXCEPT !.enc = x.enc + n] \in PageSet BY <1>1 DEF PageSet
<1>3. /\ [x EXCEPT !.enc = x.enc + n].enc = x.enc + n
      /\ [x EXCEPT !.enc = x.enc + n].from = x.from
  BY <1>1 DEF PageSet
<1> QED BY <1>2, <1>3

\* What was encrypted once is decrypted.
LEMMA DecryptPage ==
  ASSUME NEW x \in PageSet
  PROVE  [[x EXCEPT !.enc = @ + 1] EXCEPT !.enc = @ + -1] = x
<1> DEFINE y == [x EXCEPT !.enc = @ + 1]
           z == [y EXCEPT !.enc = @ + -1]
<1>1. x.enc \in Int BY DEF PageSet
<1>2. y \in PageSet /\ y.enc = x.enc + 1 /\ y.from = x.from BY LayerOfPage
<1> HIDE DEF y
<1>3. z \in PageSet /\ z.enc = y.enc + -1 /\ z.from = y.from BY <1>2, LayerOfPage
<1> HIDE DEF z
<1>4. z = x BY <1>1, <1>2, <1>3, PageEqual
<1> QED BY <1>4 DEF y, z

\* Encrypting, or decrypting, goes page by page.
LEMMA LayersForm ==
  ASSUME NEW s \in Seq(PageSet), NEW n \in Int
  PROVE  /\ Layers(s, n) \in Seq(PageSet) /\ Len(Layers(s, n)) = Len(s)
         /\ \A i \in 1..Len(s) : Layers(s, n)[i] = [s[i] EXCEPT !.enc = @ + n]
<1>1. DOMAIN s = 1..Len(s) /\ Len(s) \in Nat BY LenProperties
<1>2. \A i \in 1..Len(s) : [s[i] EXCEPT !.enc = @ + n] \in PageSet
  <2> SUFFICES ASSUME NEW i \in 1..Len(s) PROVE [s[i] EXCEPT !.enc = @ + n] \in PageSet
    OBVIOUS
  <2>1. s[i] \in PageSet BY ElementOfSeq
  <2> QED BY <2>1, LayerOfPage
<1>3. Layers(s, n) \in [1..Len(s) -> PageSet] BY <1>1, <1>2 DEF Layers
<1>4. Layers(s, n) \in Seq(PageSet) /\ Len(Layers(s, n)) = Len(s) BY <1>1, <1>3, MakeSeq, Zenon
<1> QED BY <1>1, <1>4 DEF Layers

\* pwrite: the length of the file and its pages.
Longer(m, n) == IF m > n THEN m ELSE n

LEMMA PutForm ==
  ASSUME NEW s \in Seq(PageSet), NEW i \in Nat, i >= 1, NEW new \in Seq(PageSet)
  PROVE  /\ Longer(i + Len(new) - 1, Len(s)) \in Nat
         /\ Put(s, i, new) \in Seq(PageSet)
         /\ Len(Put(s, i, new)) = Longer(i + Len(new) - 1, Len(s))
         /\ \A k \in 1..Longer(i + Len(new) - 1, Len(s)) :
              Put(s, i, new)[k] = IF k \in i..(i + Len(new) - 1) THEN new[k - i + 1]
                                  ELSE IF k <= Len(s) THEN s[k] ELSE Hole
<1> DEFINE end == i + Len(new) - 1
           size == Longer(end, Len(s))
<1>1. Len(s) \in Nat /\ Len(new) \in Nat BY LenProperties
<1>2. end \in Int /\ size \in Nat BY <1>1 DEF Longer
<1>3. ASSUME NEW k \in 1..size
      PROVE  (IF k \in i..end THEN new[k - i + 1]
              ELSE IF k <= Len(s) THEN s[k] ELSE Hole) \in PageSet
  <2>1. CASE k \in i..end
    <3>1. k - i + 1 \in 1..Len(new) BY <1>1, <2>1
    <3> QED BY <2>1, <3>1, ElementOfSeq
  <2>2. CASE k \notin i..end /\ k <= Len(s)
    <3>1. k \in 1..Len(s) BY <1>1, <1>2, <2>2
    <3> QED BY <2>2, <3>1, ElementOfSeq
  <2> QED BY <2>1, <2>2, PageTypes
<1>4. Put(s, i, new) \in [1..size -> PageSet] BY <1>3 DEF Put, Longer
<1>5. Put(s, i, new) \in Seq(PageSet) /\ Len(Put(s, i, new)) = size BY <1>2, <1>4, MakeSeq, Zenon
<1> QED BY <1>2, <1>5 DEF Put, Longer

\* One page is written.
LEMMA PutOne ==
  ASSUME NEW s \in Seq(PageSet), NEW i \in Nat, i >= 1, NEW x \in PageSet
  PROVE  /\ Put(s, i, <<x>>) \in Seq(PageSet)
         /\ Len(Put(s, i, <<x>>)) = Longer(i, Len(s))
         /\ Put(s, i, <<x>>)[i] = x
         /\ \A k \in 1..Len(s) : k # i => Put(s, i, <<x>>)[k] = s[k]
<1> DEFINE new == <<x>>
           t == Put(s, i, new)
<1>1. Len(s) \in Nat BY LenProperties
<1>2. new \in Seq(PageSet) /\ Len(new) = 1 /\ new[1] = x OBVIOUS
<1> HIDE DEF new
<1>3. i + Len(new) - 1 = i BY <1>2
<1>4. /\ t \in Seq(PageSet) /\ Len(t) = Longer(i, Len(s))
      /\ \A k \in 1..Longer(i, Len(s)) :
           t[k] = IF k \in i..i THEN new[k - i + 1] ELSE IF k <= Len(s) THEN s[k] ELSE Hole
  <2>1. /\ t \in Seq(PageSet) /\ Len(t) = Longer(i + Len(new) - 1, Len(s))
        /\ \A k \in 1..Longer(i + Len(new) - 1, Len(s)) :
             t[k] = IF k \in i..(i + Len(new) - 1) THEN new[k - i + 1]
                    ELSE IF k <= Len(s) THEN s[k] ELSE Hole
    BY <1>2, PutForm
  <2> HIDE DEF t
  <2> QED BY <1>3, <2>1
<1> HIDE DEF t
<1>5. t[i] = x
  <2>1. i \in 1..Longer(i, Len(s)) /\ i \in i..i /\ i - i + 1 = 1 BY <1>1 DEF Longer
  <2>2. t[i] = new[1] BY <1>4, <2>1
  <2> QED BY <1>2, <2>2
<1>6. ASSUME NEW k \in 1..Len(s), k # i PROVE t[k] = s[k]
  <2>1. k \in 1..Longer(i, Len(s)) /\ k \notin i..i /\ k <= Len(s) BY <1>1, <1>6 DEF Longer
  <2> QED BY <1>4, <2>1
<1> QED BY <1>4, <1>5, <1>6 DEF t, new

\* A file that begins with a header does so whatever is written behind it, and
\* the header can be written again.
LEMMA HeadedKept ==
  ASSUME NEW s \in Seq(PageSet), NEW x \in PageSet
  PROVE  /\ Headed(Put(s, 1, <<Header>>))
         /\ Headed(s) => Put(s, 1, <<Header>>) = s
         /\ Headed(s) => \A i \in Nat : i >= 2 => Headed(Put(s, i, <<x>>))
         /\ x # Header => ~ Headed(Put(s, 1, <<x>>))
<1>0. Len(s) \in Nat /\ (s # <<>> => Len(s) >= 1) BY LenProperties, EmptySeq
<1>1. Headed(Put(s, 1, <<Header>>)) /\ (x # Header => ~ Headed(Put(s, 1, <<x>>)))
  <2>1. ASSUME NEW y \in PageSet
        PROVE  Put(s, 1, <<y>>) # <<>> /\ Put(s, 1, <<y>>)[1] = y
    <3> DEFINE t == Put(s, 1, <<y>>)
    <3>1. t \in Seq(PageSet) /\ t[1] = y /\ Len(t) = Longer(1, Len(s)) BY PutOne
    <3>2. Len(t) >= 1 BY <1>0, <3>1 DEF Longer
    <3>3. t # <<>> BY <3>2
    <3> QED BY <3>1, <3>3
  <2> QED BY <2>1, PageTypes DEF Headed
<1>2. ASSUME Headed(s) PROVE Put(s, 1, <<Header>>) = s
  <2> DEFINE t == Put(s, 1, <<Header>>)
  <2>1. Len(s) >= 1 /\ s[1] = Header BY <1>0, <1>2 DEF Headed
  <2>2. /\ t \in Seq(PageSet) /\ Len(t) = Len(s) /\ t[1] = Header
        /\ \A k \in 1..Len(s) : k # 1 => t[k] = s[k]
    <3>1. /\ t \in Seq(PageSet) /\ Len(t) = Longer(1, Len(s)) /\ t[1] = Header
          /\ \A k \in 1..Len(s) : k # 1 => t[k] = s[k]
      <4> Header \in PageSet BY PageTypes
      <4> HIDE DEF t
      <4> QED BY PutOne DEF t
    <3> QED BY <1>0, <2>1, <3>1 DEF Longer
  <2>3. \A k \in 1..Len(t) : t[k] = s[k] BY <2>1, <2>2
  <2> QED BY <2>2, <2>3, SeqEqual
<1>3. ASSUME Headed(s), NEW i \in Nat, i >= 2 PROVE Headed(Put(s, i, <<x>>))
  <2> DEFINE t == Put(s, i, <<x>>)
  <2>1. Len(s) >= 1 /\ s[1] = Header BY <1>0, <1>3 DEF Headed
  <2>2. t \in Seq(PageSet) /\ Len(t) >= 1 /\ t[1] = s[1]
    <3>1. i >= 1 BY <1>3
    <3>2. /\ t \in Seq(PageSet) /\ Len(t) = Longer(i, Len(s))
          /\ \A k \in 1..Len(s) : k # i => t[k] = s[k]
      BY <3>1, PutOne
    <3>3. 1 \in 1..Len(s) /\ 1 # i BY <1>0, <1>3, <2>1
    <3> QED BY <1>0, <2>1, <3>1, <3>2, <3>3 DEF Longer
  <2>3. t # <<>> BY <2>2
  <2> QED BY <2>1, <2>2, <2>3 DEF Headed
<1> QED BY <1>1, <1>2, <1>3

\* What is read behind a header.
LEMMA PlainForm ==
  ASSUME NEW s \in Seq(PageSet), Headed(s)
  PROVE  /\ Plain(s) \in Seq(PageSet) /\ Len(s) \in Nat /\ Len(Plain(s)) = Len(s) - 1
         /\ \A k \in 1..(Len(s) - 1) : Plain(s)[k] = [s[k + 1] EXCEPT !.enc = @ + -1]
<1> DEFINE t == Tail(s)
<1>1. s # <<>> /\ Len(s) \in Nat BY LenProperties DEF Headed
<1>2. /\ t \in Seq(PageSet) /\ Len(t) = Len(s) - 1
      /\ \A k \in 1..Len(t) : t[k] = s[k + 1]
  BY <1>1, HeadTailProperties
<1> HIDE DEF t
<1>3. /\ Layers(t, -1) \in Seq(PageSet) /\ Len(Layers(t, -1)) = Len(t)
      /\ \A k \in 1..Len(t) : Layers(t, -1)[k] = [t[k] EXCEPT !.enc = @ + -1]
  <2>1. -1 \in Int OBVIOUS
  <2> QED BY <1>2, <2>1, LayersForm
<1>4. Plain(s) = Layers(t, -1) BY DEF Plain, Decrypted, t
<1> QED BY <1>1, <1>2, <1>3, <1>4

\* A header with the encrypted pages of r behind it reads as r.
LEMMA SealedReads ==
  ASSUME NEW s \in Seq(PageSet), NEW r \in Seq(PageSet), Headed(s), Len(s) = Len(r) + 1,
         \A k \in 1..Len(r) : s[k + 1] = [r[k] EXCEPT !.enc = @ + 1]
  PROVE  Plain(s) = r
<1>1. Len(r) \in Nat /\ Len(s) - 1 = Len(r) BY LenProperties
<1>2. /\ Plain(s) \in Seq(PageSet) /\ Len(Plain(s)) = Len(r)
      /\ \A k \in 1..Len(r) : Plain(s)[k] = [s[k + 1] EXCEPT !.enc = @ + -1]
  BY <1>1, PlainForm
<1>3. ASSUME NEW k \in 1..Len(r) PROVE Plain(s)[k] = r[k]
  <2>1. r[k] \in PageSet BY ElementOfSeq
  <2>2. Plain(s)[k] = [[r[k] EXCEPT !.enc = @ + 1] EXCEPT !.enc = @ + -1] BY <1>2
  <2> QED BY <2>1, <2>2, DecryptPage
<1> QED BY <1>2, <1>3, SeqEqual

LEMMA EncryptedOne ==
  ASSUME NEW x \in PageSet
  PROVE  /\ Encrypted(<<x>>) = <<[x EXCEPT !.enc = @ + 1]>>
         /\ [x EXCEPT !.enc = @ + 1] \in PageSet
<1> DEFINE y == [x EXCEPT !.enc = @ + 1]
           s == <<x>>
           t == Layers(s, 1)
<1>1. y \in PageSet BY LayerOfPage
<1>2. s \in Seq(PageSet) /\ Len(s) = 1 /\ s[1] = x OBVIOUS
<1> HIDE DEF s
<1>3. t \in Seq(PageSet) /\ Len(t) = 1 /\ t[1] = [s[1] EXCEPT !.enc = @ + 1]
  <2> HIDE DEF t
  <2>1. /\ t \in Seq(PageSet) /\ Len(t) = Len(s)
        /\ \A i \in 1..Len(s) : t[i] = [s[i] EXCEPT !.enc = @ + 1]
    <3> 1 \in Int OBVIOUS
    <3> QED BY <1>2, LayersForm, Zenon DEF t
  <2>2. 1 \in 1..Len(s) BY <1>2
  <2> QED BY <1>2, <2>1, <2>2
<1>4. t[1] = y BY <1>2, <1>3
<1> HIDE DEF t, y
<1>5. t = <<y>> BY <1>1, <1>3, <1>4
<1> QED BY <1>1, <1>5 DEF Encrypted, t, s, y

\* A page that is encrypted as write does it reads as the page.
LEMMA PlainPut ==
  ASSUME NEW s \in Seq(PageSet), Headed(s), NEW x \in PageSet
  PROVE  LET t == Put(s, 2, Encrypted(<<x>>))
         IN  t \in Seq(PageSet) /\ Headed(t) /\ Plain(t) = Put(Plain(s), 1, <<x>>)
<1> DEFINE y == [x EXCEPT !.enc = @ + 1]
           t == Put(s, 2, <<y>>)
           a == Plain(s)
           b == Put(a, 1, <<x>>)
<1>1. y \in PageSet /\ Encrypted(<<x>>) = <<y>> BY EncryptedOne
<1>2. [y EXCEPT !.enc = @ + -1] = x BY DecryptPage
<1> HIDE DEF y
<1>3. a \in Seq(PageSet) /\ Len(s) \in Nat /\ Len(a) = Len(s) - 1 BY PlainForm
<1>4. Len(s) >= 1 BY <1>3, EmptySeq DEF Headed
<1>5. /\ t \in Seq(PageSet) /\ Len(t) = Longer(2, Len(s)) /\ t[2] = y
      /\ \A k \in 1..Len(s) : k # 2 => t[k] = s[k]
  <2> 2 \in Nat /\ 2 >= 1 OBVIOUS
  <2> QED BY <1>1, PutOne, ZenonT(40)
<1>6. Headed(t) BY <1>1, HeadedKept
<1>7. /\ b \in Seq(PageSet) /\ Len(b) = Longer(1, Len(a)) /\ b[1] = x
      /\ \A k \in 1..Len(a) : k # 1 => b[k] = a[k]
  <2> 1 \in Nat /\ 1 >= 1 OBVIOUS
  <2> HIDE DEF a
  <2> QED BY <1>3, PutOne, ZenonT(40)
<1>8. \A k \in 1..(Len(s) - 1) : a[k] = [s[k + 1] EXCEPT !.enc = @ + -1] BY PlainForm
<1> HIDE DEF t, b, a
<1>9. /\ Plain(t) \in Seq(PageSet) /\ Len(Plain(t)) = Len(t) - 1
      /\ \A k \in 1..(Len(t) - 1) : Plain(t)[k] = [t[k + 1] EXCEPT !.enc = @ + -1]
  BY <1>5, <1>6, PlainForm
<1>10. Len(Plain(t)) = Len(b) BY <1>3, <1>4, <1>5, <1>7, <1>9 DEF Longer
<1>11. ASSUME NEW k \in 1..Len(Plain(t)) PROVE Plain(t)[k] = b[k]
  <2>1. k \in 1..(Len(t) - 1) /\ Plain(t)[k] = [t[k + 1] EXCEPT !.enc = @ + -1] BY <1>9
  <2>2. CASE k = 1
    <3>1. t[k + 1] = y BY <1>5, <2>2
    <3> QED BY <1>2, <1>7, <2>1, <2>2, <3>1
  <2>3. CASE k # 1
    <3>1. k + 1 \in 1..Len(s) /\ k + 1 # 2 /\ k \in 1..Len(a)
      BY <1>3, <1>4, <1>5, <2>1, <2>3 DEF Longer
    <3>2. t[k + 1] = s[k + 1] /\ b[k] = a[k] BY <1>5, <1>7, <2>3, <3>1
    <3>3. k \in 1..(Len(s) - 1) BY <1>3, <3>1
    <3> QED BY <1>8, <2>1, <3>2, <3>3
  <2> QED BY <2>2, <2>3
<1>12. Plain(t) = b BY <1>7, <1>9, <1>10, <1>11, SeqEqual
<1> QED BY <1>1, <1>5, <1>6, <1>12 DEF t, b, a

\* A small file is rebuilt in its place.
LEMMA PutSealed ==
  ASSUME NEW s \in Seq(PageSet), NEW r \in Seq(PageSet)
  PROVE  LET t == Put(s, 1, <<Header>> \o Encrypted(r))
         IN  /\ t \in Seq(PageSet) /\ Headed(t)
             /\ Len(s) = Len(r) => Plain(t) = r
<1> DEFINE e == Layers(r, 1)
           h == <<Header>>
           new == h \o e
           t == Put(s, 1, new)
<1>1. Len(s) \in Nat /\ Len(r) \in Nat BY LenProperties
<1>2. /\ e \in Seq(PageSet) /\ Len(e) = Len(r)
      /\ \A k \in 1..Len(r) : e[k] = [r[k] EXCEPT !.enc = @ + 1]
  BY LayersForm
<1> HIDE DEF e
<1>3. h \in Seq(PageSet) /\ Len(h) = 1 /\ h[1] = Header BY PageTypes
<1> HIDE DEF h
<1>4. /\ new \in Seq(PageSet) /\ Len(new) = Len(r) + 1 /\ new[1] = Header
      /\ \A k \in 1..Len(r) : new[k + 1] = e[k]
  <2>1. /\ new \in Seq(PageSet) /\ Len(new) = Len(h) + Len(e)
        /\ \A i \in 1..(Len(h) + Len(e)) : new[i] = IF i <= Len(h) THEN h[i] ELSE e[i - Len(h)]
    <3>1. h \in Seq(PageSet) /\ e \in Seq(PageSet) BY <1>2, <1>3
    <3> QED BY <3>1, ConcatProperties
  <2>2. new[1] = Header BY <1>1, <1>2, <1>3, <2>1
  <2>3. ASSUME NEW k \in 1..Len(r) PROVE new[k + 1] = e[k]
    <3>1. k + 1 \in 1..(Len(h) + Len(e)) /\ ~ (k + 1 <= Len(h)) /\ k + 1 - Len(h) = k
      BY <1>1, <1>2, <1>3
    <3> QED BY <2>1, <3>1
  <2> QED BY <1>1, <1>2, <1>3, <2>1, <2>2, <2>3
<1> HIDE DEF new
<1>5. 1 + Len(new) - 1 = Len(r) + 1 BY <1>1, <1>4
<1>6. /\ t \in Seq(PageSet) /\ Len(t) = Longer(Len(r) + 1, Len(s))
      /\ \A k \in 1..Longer(Len(r) + 1, Len(s)) :
           t[k] = IF k \in 1..(Len(r) + 1) THEN new[k - 1 + 1]
                  ELSE IF k <= Len(s) THEN s[k] ELSE Hole
  <2>1. /\ t \in Seq(PageSet) /\ Len(t) = Longer(1 + Len(new) - 1, Len(s))
        /\ \A k \in 1..Longer(1 + Len(new) - 1, Len(s)) :
             t[k] = IF k \in 1..(1 + Len(new) - 1) THEN new[k - 1 + 1]
                    ELSE IF k <= Len(s) THEN s[k] ELSE Hole
    <3> 1 \in Nat /\ 1 >= 1 OBVIOUS
    <3> QED BY <1>4, PutForm, Zenon
  <2> HIDE DEF t
  <2> QED BY <1>5, <2>1
<1> HIDE DEF t
<1>7. ASSUME NEW k \in 1..(Len(r) + 1) PROVE t[k] = new[k]
  <2>1. k \in 1..Longer(Len(r) + 1, Len(s)) /\ k - 1 + 1 = k BY <1>1, <1>7 DEF Longer
  <2> QED BY <1>6, <2>1
<1>8. Headed(t)
  <2>1. t[1] = Header BY <1>1, <1>4, <1>7
  <2>2. Len(t) >= 1 BY <1>1, <1>6 DEF Longer
  <2>3. t # <<>> BY <2>2
  <2> QED BY <2>1, <2>3 DEF Headed
<1>9. ASSUME Len(s) = Len(r) PROVE Plain(t) = r
  <2>1. Len(t) = Len(r) + 1 BY <1>1, <1>6, <1>9 DEF Longer
  <2>2. \A k \in 1..Len(r) : t[k + 1] = [r[k] EXCEPT !.enc = @ + 1] BY <1>1, <1>2, <1>4, <1>7
  <2> QED BY <1>6, <1>8, <2>1, <2>2, SealedReads
<1> QED BY <1>6, <1>8, <1>9 DEF t, new, h, e, Encrypted

\* A header in a new file.
LEMMA PutFirst == Headed(<<Header>>) /\ Put(<<>>, 1, <<Header>>) = <<Header>> /\ Plain(<<Header>>) = <<>>
<1> DEFINE t == Put(<<>>, 1, <<Header>>)
<1>1. Header \in PageSet /\ <<>> \in Seq(PageSet) /\ Len(<<>>) = 0 BY PageTypes
<1>2. t \in Seq(PageSet) /\ Len(t) = Longer(1, Len(<<>>)) /\ t[1] = Header
  <2> 1 \in Nat /\ 1 >= 1 OBVIOUS
  <2> QED BY <1>1, PutOne, ZenonT(40)
<1> HIDE DEF t
<1>3. Len(t) = 1 BY <1>1, <1>2 DEF Longer
<1>4. t = <<Header>> BY <1>1, <1>2, <1>3
<1>5. Headed(<<Header>>) BY DEF Headed
<1>6. Plain(<<Header>>) = <<>>
  <2>1. <<Header>> \in Seq(PageSet) /\ Len(<<Header>>) = 1 BY <1>1
  <2> DEFINE h == <<Header>>
  <2> HIDE DEF h
  <2>2. Plain(h) = <<>>
    <3>1. h \in Seq(PageSet) /\ Len(h) = 1 /\ Headed(h) BY <1>5, <2>1 DEF h
    <3>2. Plain(h) \in Seq(PageSet) /\ Len(Plain(h)) = 0 BY <3>1, PlainForm
    <3> QED BY <3>2
  <2> QED BY <2>2 DEF h
<1> QED BY <1>4, <1>5, <1>6 DEF t

-----------------------------------------------------------------------------
(* The control: what every step has to keep.                               *)

\* What a step of p has to do for the others.  It leaves both names alone and
\* the processes other than p; the path does not lose its header, and gets one only
\* when nobody else rebuilds.
Quiet(p) ==
  /\ path' = path /\ secure' = secure
  /\ \A q \in Others(p) : /\ call'[q] = call[q] /\ worker'[q] = worker[q]
                          /\ late'[q] = late[q] /\ unrenamed'[q] = unrenamed[q]
  /\ Sealed => Sealed'
  /\ Sealed' /\ ~ Sealed => secure = None /\ \A q \in Others(p) : ~ Rebuilding(q)
  /\ \A q \in Others(p) :
       /\ At(q, "join") /\ secure # None => data'[secure] = data[secure]
       /\ call[q].pc \in {"small_open", "small_read"} => Len(data'[path]) = Len(data[path])

\* How the place of p may change with respect to the others.
Orderly(p) ==
  /\ secure # None => call'[p].fd # secure /\ ~ Creating(p)'
  /\ Rebuilding(p)' => Rebuilding(p) \/ secure = None
  /\ Creating(p)' => \A q \in Others(p) : ~ Rebuilding(q)
  /\ Done(p)' => late'[p] \/ \A q \in Others(p) : ~ Rebuilding(q)

OwnControl(p) == /\ CallKnows(p) /\ HasFile(p) /\ RecordedHeaded(p)
                 /\ Alone(p) /\ LateFile(p) /\ Stages(p)

LEMMA StepKept ==
  ASSUME Control, NEW p \in Process, Quiet(p), Orderly(p), TypeOK', NoFileYet', OwnControl(p)'
  PROVE  Control'
<1>1. /\ path' = path /\ secure' = secure
      /\ Sealed => Sealed'
      /\ Sealed' /\ ~ Sealed => secure = None /\ \A q \in Others(p) : ~ Rebuilding(q)
  BY DEF Quiet
<1>2. SecureAside'
  <2> SUFFICES ASSUME secure # None
               PROVE  /\ secure # path /\ ~ Sealed'
                      /\ \A q \in Process : call'[q].fd # secure /\ ~ Creating(q)'
    BY <1>1 DEF SecureAside
  <2>1. secure # path /\ ~ Sealed /\ \A q \in Process : call[q].fd # secure /\ ~ Creating(q)
    BY DEF Control, SecureAside
  <2>2. ~ Sealed' BY <1>1, <2>1
  <2>3. ASSUME NEW q \in Process PROVE call'[q].fd # secure /\ ~ Creating(q)'
    <3>1. CASE q = p BY <3>1 DEF Orderly
    <3>2. CASE q # p
      <4>1. call'[q] = call[q] BY <3>2 DEF Quiet, Others
      <4> QED BY <2>1, <4>1 DEF Creating, At
    <3> QED BY <3>1, <3>2
  <2> QED BY <2>1, <2>2, <2>3
<1>3. ASSUME NEW q \in Process, q # p PROVE OwnControl(q)'
  <2>1. q \in Others(p) BY <1>3 DEF Others
  <2>2. call'[q] = call[q] /\ worker'[q] = worker[q] /\ late'[q] = late[q] /\ unrenamed'[q] = unrenamed[q]
    BY <2>1 DEF Quiet
  <2>3. OwnControl(q) BY DEF Control, OwnControl
  <2>4. /\ Rebuilding(q)' <=> Rebuilding(q)
        /\ Creating(q)' <=> Creating(q)
        /\ Done(q)' <=> Done(q)
        /\ Found(q)' <=> Found(q)
    BY <2>2 DEF Rebuilding, Creating, Done, Found, At
  <2>5. CallKnows(q)'
    <3>1. CallKnows(q) BY <2>3 DEF OwnControl
    <3> HIDE DEF Sealed
    <3> QED BY <1>1, <2>2, <2>4, <3>1 DEF CallKnows, Holding, At
  <2>6. HasFile(q)'
    <3>1. HasFile(q) BY <2>3 DEF OwnControl
    <3> QED BY <1>1, <2>2, <2>4, <3>1 DEF HasFile
  <2>7. RecordedHeaded(q)'
    <3>1. RecordedHeaded(q) BY <2>3 DEF OwnControl
    <3>2. ASSUME unrenamed[q], ~ At(q, "idle") PROVE \A r \in Process : ~ Rebuilding(r)'
      <4>1. secure # None /\ \A r \in Process : ~ Rebuilding(r)
        BY <3>1, <3>2 DEF RecordedHeaded
      <4>2. ~ Rebuilding(p)' BY <4>1 DEF Orderly
      <4>3. ASSUME NEW r \in Process, r # p PROVE ~ Rebuilding(r)'
        <5>1. call'[r] = call[r] BY <4>3 DEF Quiet, Others
        <5> QED BY <4>1, <5>1 DEF Rebuilding, At
      <4> QED BY <4>2, <4>3
    <3>3. At(q, "idle")' <=> At(q, "idle") BY <2>2 DEF At
    <3> QED BY <1>1, <2>2, <2>4, <3>1, <3>2, <3>3 DEF RecordedHeaded
  <2>8. Alone(q)'
    <3> SUFFICES ASSUME Rebuilding(q)
                 PROVE  ~ Sealed' /\ \A r \in Others(q) : /\ ~ Rebuilding(r)' /\ ~ Creating(r)'
                                                          /\ Done(r)' => late'[r]
      BY <2>4 DEF Alone, Others
    <3>1. /\ ~ Sealed
          /\ \A r \in Others(q) : ~ Rebuilding(r) /\ ~ Creating(r) /\ (Done(r) => late[r])
      BY <2>3 DEF OwnControl, Alone
    <3>2. ~ Sealed' BY <1>1, <2>1, <3>1
    <3>3. ~ Creating(p)' /\ (Done(p)' => late'[p]) BY <2>1 DEF Orderly
    <3>4. ~ Rebuilding(p)'
      <4>1. Rebuilding(p)' => ~ Rebuilding(q)' BY <2>1 DEF OwnControl, Alone, Others
      <4> QED BY <2>4, <4>1
    <3>5. ASSUME NEW r \in Others(q), r # p
          PROVE  ~ Rebuilding(r)' /\ ~ Creating(r)' /\ (Done(r)' => late'[r])
      <4>1. call'[r] = call[r] /\ late'[r] = late[r] BY <3>5 DEF Quiet, Others
      <4> QED BY <3>1, <4>1 DEF Rebuilding, Creating, Done, At
    <3> QED BY <3>2, <3>3, <3>4, <3>5 DEF Others
  <2>9. LateFile(q)'
    <3>1. LateFile(q) BY <2>3 DEF OwnControl
    <3> QED BY <1>1, <2>2, <2>4, <3>1 DEF LateFile
  <2>10. Stages(q)'
    <3>1. Stages(q) BY <2>3 DEF OwnControl
    <3>2. /\ At(q, "join") /\ secure # None => data'[secure] = data[secure]
          /\ call[q].pc \in {"small_open", "small_read"} => Len(data'[path]) = Len(data[path])
      BY <2>1 DEF Quiet
    <3>3. At(q, "join") => worker'[q][0].pc = worker[q][0].pc BY <2>2
    <3> HIDE DEF Preparing
    <3> QED BY <1>1, <2>2, <3>1, <3>2 DEF Stages, At, Headed
  <2> QED BY <2>5, <2>6, <2>7, <2>8, <2>9, <2>10 DEF OwnControl
<1> QED BY <1>2, <1>3 DEF Control, OwnControl

\* The types, once more, in the form the steps use them.
LEMMA Typed ==
  ASSUME TypeOK, NEW p \in Process
  PROVE  /\ path \in Nat /\ path <= Len(data) /\ secure \in Nat /\ secure <= Len(data)
         /\ Len(data) \in Nat /\ \A i \in 1..Len(data) : data[i] \in Seq(PageSet)
         /\ call[p] \in Calls /\ call[p].fd \in Nat /\ call[p].fd <= Len(data)
         /\ worker[p] \in [Worker -> Workers]
         /\ (path # None => path \in 1..Len(data)) /\ (secure # None => secure \in 1..Len(data))
         /\ (call[p].fd # None => call[p].fd \in 1..Len(data))
<1>1. Len(data) \in Nat /\ \A i \in 1..Len(data) : data[i] \in Seq(PageSet)
  BY LenProperties, ElementOfSeq DEF TypeOK
<1>2. call[p] \in Calls /\ call[p].fd \in Nat BY DEF TypeOK, Calls
<1> QED BY <1>1, <1>2 DEF TypeOK, Inode, None

\* A call of p moves on.
LEMMA CallMoves ==
  ASSUME TypeOK, NEW p \in Process, NEW c \in Calls, c.fd <= Len(data),
         call' = [call EXCEPT ![p] = c], Len(data') = Len(data)
  PROVE  /\ call' \in [Process -> Calls] /\ call'[p] = c
         /\ \A q \in Others(p) : call'[q] = call[q]
         /\ \A q \in Process : call'[q].fd <= Len(data')
  BY DEF TypeOK, Others

\* Before there is a file nobody has got past the access of the path.
LEMMA NobodyYet ==
  ASSUME Control, path = None, NEW q \in Process
  PROVE  secure = None /\ ~ Found(q) /\ ~ Rebuilding(q) /\ ~ Done(q) /\ call[q].header = FALSE
<1>1. CallKnows(q) /\ call[q] \in Calls BY DEF Control, TypeOK
<1> QED BY <1>1 DEF Control, NoFileYet, CallKnows, Found, Rebuilding, Done, At, Calls

\* A step of p that leaves the files alone.
LEMMA CallStep ==
  ASSUME Control, NEW p \in Process, NEW c \in Calls, c.fd <= Len(data),
         UNCHANGED <<disk, stores, text, strayed>>, clash' \in BOOLEAN,
         call' = [call EXCEPT ![p] = c],
         worker' \in [Process -> [Worker -> Workers]],
         late' \in [Process -> BOOLEAN], unrenamed' \in [Process -> BOOLEAN],
         \A q \in Others(p) : /\ worker'[q] = worker[q]
                              /\ late'[q] = late[q] /\ unrenamed'[q] = unrenamed[q]
  PROVE  /\ TypeOK' /\ NoFileYet' /\ Quiet(p) /\ call'[p] = c
         /\ path' = path /\ secure' = secure /\ data' = data /\ (Sealed' <=> Sealed)
<1>0. TypeOK BY DEF Control
<1>1. /\ call' \in [Process -> Calls] /\ call'[p] = c
      /\ \A q \in Others(p) : call'[q] = call[q]
      /\ \A q \in Process : call'[q].fd <= Len(data')
  BY <1>0, CallMoves DEF disk
<1>2. data' = data /\ path' = path /\ secure' = secure BY DEF disk
<1>3. Sealed' <=> Sealed BY <1>2 DEF Sealed, Headed
<1>4. TypeOK' BY <1>0, <1>1, <1>2 DEF TypeOK, Inode
<1>5. NoFileYet' BY <1>2 DEF Control, NoFileYet
<1>6. Quiet(p) BY <1>1, <1>2, <1>3 DEF Quiet
<1> QED BY <1>1, <1>2, <1>3, <1>4, <1>5, <1>6

LEMMA AccessStep ==
  ASSUME Control, NEW p \in Process, access_path(p)
  PROVE  Control'
<1>0. TypeOK /\ OwnControl(p) /\ SecureAside BY DEF Control, OwnControl
<1>1. At(p, "access") /\ UNCHANGED <<disk, worker, opens, stores, history>> BY DEF access_path
<1> DEFINE c == [call[p] EXCEPT !.fs = (path # None), !.pc = IF path # None THEN "check" ELSE "open"]
<1>2. /\ c \in Calls /\ c.fd = call[p].fd /\ c.header = call[p].header /\ c.recorded = call[p].recorded
      /\ c.fs = (path # None) /\ c.pc = IF path # None THEN "check" ELSE "open"
  BY <1>0, Typed DEF Calls, CallPlace
<1>3. call' = [call EXCEPT ![p] = c] BY DEF access_path
<1> HIDE DEF c
<1>4. /\ TypeOK' /\ NoFileYet' /\ Quiet(p) /\ call'[p] = c
      /\ path' = path /\ secure' = secure /\ data' = data /\ (Sealed' <=> Sealed)
  BY <1>0, <1>1, <1>2, <1>3, Typed, CallStep DEF TypeOK, history, disk
<1>5. Orderly(p)
  <2>1. secure # None => c.fd # secure BY <1>0, <1>2 DEF SecureAside
  <2>2. ~ Rebuilding(p)' /\ ~ Done(p)' BY <1>2, <1>4 DEF Rebuilding, Done, At
  <2>3. Creating(p)' => path = None BY <1>2, <1>4 DEF Creating, At
  <2>4. path = None => secure = None /\ \A q \in Others(p) : ~ Rebuilding(q)
    BY NobodyYet DEF Others
  <2> QED BY <1>4, <2>1, <2>2, <2>3, <2>4 DEF Orderly
<1>6. OwnControl(p)'
  BY <1>0, <1>1, <1>2, <1>4 DEF OwnControl, CallKnows, HasFile, RecordedHeaded, Alone, LateFile,
     Stages, Found, Holding, Rebuilding, Creating, Done, At, disk, history
<1> QED BY <1>4, <1>5, <1>6, StepKept

\* The calls that begin anew.
LEMMA IdleCall ==
  /\ Idle \in Calls /\ Idle.pc = "idle" /\ Idle.fd = None /\ Idle.recorded = FALSE
  /\ Idle.fs = FALSE /\ Idle.header = FALSE
  BY DEF Calls, CallPlace, Idle, None

LEMMA IdleCreat ==
  ASSUME NEW place \in CallPlace, NEW creat \in BOOLEAN
  PROVE  /\ [Idle EXCEPT !.pc = place, !.creat = creat] \in Calls
         /\ [Idle EXCEPT !.pc = place, !.creat = creat].pc = place
  BY IdleCall DEF Calls

LEMMA IdleWith ==
  ASSUME NEW place \in CallPlace, NEW fd \in Nat
  PROVE  /\ [Idle EXCEPT !.pc = place, !.fd = fd] \in Calls
         /\ [Idle EXCEPT !.pc = place, !.fd = fd].pc = place
         /\ [Idle EXCEPT !.pc = place, !.fd = fd].fd = fd
         /\ [Idle EXCEPT !.pc = place, !.fd = fd].recorded = FALSE
         /\ [Idle EXCEPT !.pc = place, !.fd = fd].fs = FALSE
         /\ [Idle EXCEPT !.pc = place, !.fd = fd].header = FALSE
  BY IdleCall DEF Calls

LEMMA ReturnedCall ==
  ASSUME NEW fd \in Nat, NEW recorded \in BOOLEAN
  PROVE  LET d == Returned(fd, recorded)
         IN  d \in Calls /\ d.pc = "done" /\ d.fd = fd /\ d.recorded = recorded
             /\ d.fs = FALSE /\ d.header = FALSE
<1>1. [Idle EXCEPT !.pc = "done", !.fd = fd] \in Calls BY IdleCall DEF Calls, CallPlace
<1> QED BY IdleCall DEF Calls, CallPlace, Returned

\* Where they are, whatever the descriptor.
LEMMA Places ==
  /\ \A fd, recorded : Returned(fd, recorded).pc = "done"
  /\ \A place, fd : [Idle EXCEPT !.pc = place, !.fd = fd].pc = place
  BY DEF Returned, Idle

LEMMA OpenStep ==
  ASSUME Control, NEW p \in Process, NEW creat \in BOOLEAN, Open(p, creat)
  PROVE  Control'
<1>0. TypeOK /\ OwnControl(p) /\ SecureAside BY DEF Control, OwnControl
<1>1. /\ At(p, "idle") /\ UNCHANGED <<disk, worker, stores, text, strayed, clash>>
      /\ late' = [late EXCEPT ![p] = FALSE] /\ unrenamed' = [unrenamed EXCEPT ![p] = FALSE]
  BY DEF Open
<1> DEFINE c == [Idle EXCEPT !.pc = "access", !.creat = creat]
<1>2. /\ c \in Calls /\ c.fd = None /\ c.header = FALSE /\ c.recorded = FALSE
      /\ c.fs = FALSE /\ c.pc = "access"
  <2>1. "access" \in CallPlace BY DEF CallPlace
  <2>2. c \in Calls /\ c.pc = "access" BY <2>1, IdleCreat
  <2> QED BY <2>2, IdleCall DEF Idle
<1>3. call' = [call EXCEPT ![p] = c] BY DEF Open
<1> HIDE DEF c
<1>4. /\ TypeOK' /\ NoFileYet' /\ Quiet(p) /\ call'[p] = c
      /\ path' = path /\ secure' = secure /\ data' = data /\ (Sealed' <=> Sealed)
  <2>1. c.fd <= Len(data) BY <1>0, <1>2, Typed DEF None
  <2>2. /\ worker' \in [Process -> [Worker -> Workers]] /\ clash' \in BOOLEAN
        /\ late' \in [Process -> BOOLEAN] /\ unrenamed' \in [Process -> BOOLEAN]
        /\ \A q \in Others(p) : /\ worker'[q] = worker[q]
                                /\ late'[q] = late[q] /\ unrenamed'[q] = unrenamed[q]
    BY <1>0, <1>1 DEF TypeOK, Others
  <2> QED BY <1>1, <1>2, <1>3, <2>1, <2>2, CallStep
<1>5. late'[p] = FALSE /\ unrenamed'[p] = FALSE BY <1>0, <1>1 DEF TypeOK
<1>6. Orderly(p) BY <1>2, <1>4 DEF Orderly, Rebuilding, Creating, Done, At, None
<1>7. OwnControl(p)'
  BY <1>0, <1>1, <1>2, <1>4, <1>5 DEF OwnControl, CallKnows, HasFile, RecordedHeaded, Alone, LateFile,
     Stages, Found, Holding, Rebuilding, Creating, Done, At
<1> QED BY <1>4, <1>6, <1>7, StepKept

LEMMA CheckStep ==
  ASSUME Control, NEW p \in Process, check_header(p)
  PROVE  Control'
<1>0. TypeOK /\ OwnControl(p) /\ SecureAside BY DEF Control, OwnControl
<1>1. At(p, "check") /\ UNCHANGED <<disk, worker, opens, stores, history>> BY DEF check_header
<1> DEFINE c == [call[p] EXCEPT !.header = Headed(data[path]), !.pc = "open"]
<1>2. /\ c \in Calls /\ c.fd = call[p].fd /\ c.recorded = call[p].recorded
      /\ c.fs = call[p].fs /\ c.pc = "open" /\ (c.header <=> Sealed)
  BY <1>0, Typed DEF Calls, CallPlace, Headed, Sealed
<1>3. call' = [call EXCEPT ![p] = c] BY DEF check_header
<1> HIDE DEF c
<1>4. /\ TypeOK' /\ NoFileYet' /\ Quiet(p) /\ call'[p] = c
      /\ path' = path /\ secure' = secure /\ data' = data /\ (Sealed' <=> Sealed)
  BY <1>0, <1>1, <1>2, <1>3, Typed, CallStep DEF TypeOK, history, disk
<1>5. c.fs /\ path # None BY <1>0, <1>1, <1>2 DEF OwnControl, CallKnows, Found, At
<1>6. Orderly(p)
  <2>1. secure # None => c.fd # secure BY <1>0, <1>2 DEF SecureAside
  <2> QED BY <1>2, <1>4, <1>5, <2>1 DEF Orderly, Rebuilding, Creating, Done, At
<1>7. OwnControl(p)'
  <2> HIDE DEF Sealed
  <2> QED BY <1>0, <1>1, <1>2, <1>4, <1>5 DEF OwnControl, CallKnows, HasFile, RecordedHeaded, Alone,
         LateFile, Stages, Found, Holding, Rebuilding, Creating, Done, At, history
<1> QED BY <1>4, <1>6, <1>7, StepKept

\* A process that rebuilds has a plain file before it, and no other creates one.
LEMMA WhileRebuilding ==
  ASSUME Control, NEW q \in Process, Rebuilding(q)
  PROVE  /\ path # None /\ ~ Sealed /\ ~ Creating(q)
         /\ \A r \in Process : ~ Creating(r)
         /\ \A r \in Process : r # q => ~ Rebuilding(r) /\ (Done(r) => late[r])
<1>1. CallKnows(q) /\ Alone(q) BY DEF Control
<1>2. Found(q) /\ ~ Creating(q) BY DEF Rebuilding, Found, Creating, At
<1> QED BY <1>1, <1>2 DEF CallKnows, Alone, Others

\* The open that creates no file.
LEMMA FindStep ==
  ASSUME Control, NEW p \in Process, linker_open(p), path # None \/ ~ call[p].creat
  PROVE  Control'
<1>0. TypeOK /\ OwnControl(p) /\ SecureAside BY DEF Control, OwnControl
<1>1. At(p, "open") /\ UNCHANGED <<disk, worker, opens, stores, history>>
  BY DEF linker_open, disk
<1>2. PICK c \in Calls :
        /\ call' = [call EXCEPT ![p] = c] /\ c.fs = FALSE /\ c.header = FALSE
        /\ \/ c.pc = "idle" /\ c.fd = None /\ ~ c.recorded
           \/ path # None /\ call[p].header /\ c.pc = "done" /\ c.fd = path /\ c.recorded
           \/ path # None /\ call[p].fs /\ c.pc = "secure" /\ c.fd = path /\ ~ c.recorded
           \/ path # None /\ ~ call[p].fs /\ c.pc = "new" /\ c.fd = path /\ ~ c.recorded
  <2>1. CASE path = None
    <3>1. call' = [call EXCEPT ![p] = Idle] BY <2>1 DEF linker_open
    <3>2. Idle \in Calls BY DEF Calls, CallPlace, Idle, None
    <3> QED BY <3>1, <3>2 DEF Idle
  <2>2. CASE path # None /\ call[p].fs /\ call[p].header
    <3>1. call' = [call EXCEPT ![p] = Returned(path, TRUE)] BY <2>2 DEF linker_open
    <3>2. Returned(path, TRUE) \in Calls BY <1>0, Typed, ReturnedCall
    <3> QED BY <2>2, <3>1, <3>2, <1>0, Typed, ReturnedCall
  <2>3. CASE path # None /\ ~ (call[p].fs /\ call[p].header)
    <3> DEFINE place == IF call[p].fs THEN "secure" ELSE "new"
               d == [Idle EXCEPT !.pc = place, !.fd = path]
    <3>1. call' = [call EXCEPT ![p] = d] BY <2>3 DEF linker_open
    <3>2. place \in CallPlace /\ path \in Nat BY <1>0, Typed DEF CallPlace
    <3>3. place = (IF call[p].fs THEN "secure" ELSE "new") OBVIOUS
    <3> HIDE DEF place
    <3>4. /\ d \in Calls /\ d.pc = place /\ d.fd = path
          /\ d.recorded = FALSE /\ d.fs = FALSE /\ d.header = FALSE
      BY <3>2, IdleWith, ZenonT(40)
    <3> HIDE DEF d
    <3> QED BY <2>3, <3>1, <3>3, <3>4
  <2> QED BY <2>1, <2>2, <2>3
<1>3. c.fd <= Len(data) BY <1>0, <1>2, Typed DEF None
<1>4. /\ TypeOK' /\ NoFileYet' /\ Quiet(p) /\ call'[p] = c
      /\ path' = path /\ secure' = secure /\ data' = data /\ (Sealed' <=> Sealed)
  BY <1>0, <1>1, <1>2, <1>3, CallStep DEF TypeOK, history, disk
<1>5. call[p].header => Sealed BY <1>0 DEF OwnControl, CallKnows
<1>6. Orderly(p)
  <2>1. secure # None => c.fd # secure BY <1>0, <1>2 DEF SecureAside, None
  <2>2. ~ Rebuilding(p)' BY <1>2, <1>4 DEF Rebuilding, At
  <2>3. Creating(p)' => Creating(p) BY <1>1, <1>2, <1>4 DEF Creating, At
  <2>4. Creating(p) => secure = None /\ \A q \in Others(p) : ~ Rebuilding(q)
    BY <1>0, WhileRebuilding DEF Others, SecureAside
  <2>5. Done(p)' => \A q \in Others(p) : ~ Rebuilding(q)
    <3>1. Done(p)' => Sealed BY <1>2, <1>4, <1>5 DEF Done, At
    <3> QED BY <3>1, WhileRebuilding DEF Others
  <2> QED BY <1>4, <2>1, <2>2, <2>3, <2>4, <2>5 DEF Orderly
<1>7. OwnControl(p)'
  <2>1. late'[p] = late[p] /\ unrenamed'[p] = unrenamed[p] BY <1>1 DEF history
  <2>2. late[p] = FALSE /\ unrenamed[p] = FALSE
    BY <1>0, <1>1 DEF OwnControl, RecordedHeaded, At, Done, TypeOK
  <2> HIDE DEF Sealed
  <2> QED BY <1>1, <1>2, <1>4, <1>5, <2>1, <2>2 DEF OwnControl, CallKnows, HasFile, RecordedHeaded, Alone,
         LateFile, Stages, Found, Holding, Rebuilding, Creating, Done, At, None
<1> QED BY <1>4, <1>6, <1>7, StepKept

\* The first file, which the open creates or a process that is not encrypted.
LEMMA FirstFile ==
  ASSUME Control, path = None, TypeOK', path' # None, ~ Sealed', secure' = secure,
         late' = late, unrenamed' = unrenamed,
         \A q \in Process :
           \/ call'[q] = call[q]
           \/ /\ call'[q].pc = "new" /\ call'[q].fd = path' /\ call'[q].recorded = FALSE
              /\ call'[q].fs = FALSE /\ call'[q].header = FALSE
              /\ late[q] = FALSE /\ unrenamed[q] = FALSE
  PROVE  Control'
<1>1. secure = None BY DEF Control, NoFileYet
<1>2. NoFileYet' /\ SecureAside' BY <1>1 DEF NoFileYet, SecureAside
<1>3. ASSUME NEW q \in Process PROVE OwnControl(q)'
  <2>1. /\ ~ Found(q) /\ ~ Rebuilding(q) /\ ~ Done(q) /\ call[q].header = FALSE
        /\ CallKnows(q) /\ RecordedHeaded(q)
    BY NobodyYet DEF Control
  <2>2. ~ Rebuilding(q)'
    <3>1. CASE call'[q] = call[q] BY <2>1, <3>1 DEF Rebuilding, At
    <3>2. CASE call'[q].pc = "new" BY <3>2 DEF Rebuilding, At
    <3> QED BY <3>1, <3>2
  <2> HIDE DEF Sealed
  <2>3. CASE call'[q] = call[q]
    <3>1. call[q].pc \in {"idle", "access", "open"} BY <2>1 DEF Found
    <3>2. ~ Done(q)' /\ ~ Holding(q)' /\ ~ Found(q)'
      BY <2>3, <3>1 DEF Done, Holding, Found, At
    <3>3. CallKnows(q)' BY <2>1, <2>3, <3>1, <3>2 DEF CallKnows, At
    <3>4. RecordedHeaded(q)' BY <2>1, <2>3, <3>1, <3>2 DEF RecordedHeaded, CallKnows, At, Done
    <3>5. Stages(q)' BY <2>3, <3>1 DEF Stages, At
    <3> QED BY <2>2, <2>3, <3>1, <3>2, <3>3, <3>4, <3>5 DEF OwnControl, HasFile, Alone, LateFile
  <2>4. CASE /\ call'[q].pc = "new" /\ call'[q].fd = path' /\ call'[q].recorded = FALSE
             /\ call'[q].fs = FALSE /\ call'[q].header = FALSE
             /\ late[q] = FALSE /\ unrenamed[q] = FALSE
    BY <2>2, <2>4 DEF OwnControl, CallKnows, HasFile, RecordedHeaded, Alone, LateFile, Stages, Found,
       Done, At
  <2> QED BY <2>3, <2>4
<1> QED BY <1>2, <1>3 DEF Control, OwnControl

LEMMA CreateStep ==
  ASSUME Control, NEW p \in Process, linker_open(p), path = None, call[p].creat
  PROVE  Control'
<1>0. TypeOK /\ OwnControl(p) BY DEF Control, OwnControl
<1>1. /\ At(p, "open") /\ UNCHANGED <<secure, worker, opens, stores, history>>
      /\ data' = Append(data, <<>>) /\ path' = Len(data')
  BY DEF linker_open
<1>2. call[p].fs = FALSE BY <1>0, Typed DEF OwnControl, CallKnows, Calls
<1> DEFINE d == [Idle EXCEPT !.pc = "new", !.fd = path']
<1>3. call' = [call EXCEPT ![p] = d] BY <1>2 DEF linker_open
<1>4. <<>> \in Seq(PageSet) OBVIOUS
<1>5. data' \in Seq(Seq(PageSet)) /\ Len(data') = Len(data) + 1 /\ data'[Len(data) + 1] = <<>>
  BY <1>0, <1>1, <1>4, AppendProperties DEF TypeOK
<1>6. /\ d \in Calls /\ d.pc = "new" /\ d.fd = path' /\ d.recorded = FALSE
      /\ d.fs = FALSE /\ d.header = FALSE
  <2>1. path' \in Nat /\ "new" \in CallPlace BY <1>0, <1>1, <1>5, Typed DEF CallPlace
  <2> QED BY <2>1, IdleWith
<1> HIDE DEF d
<1>7. call' \in [Process -> Calls] /\ call'[p] = d /\ \A q \in Process : q # p => call'[q] = call[q]
  BY <1>0, <1>3, <1>6 DEF TypeOK
<1>8. TypeOK'
  <2>1. path' \in Nat /\ path' <= Len(data') /\ secure \in Nat /\ secure <= Len(data')
        /\ Len(data') \in Nat
    BY <1>0, <1>1, <1>5, Typed
  <2>2. \A q \in Process : call'[q].fd <= Len(data')
    <3>1. \A q \in Process : call[q].fd \in Nat /\ call[q].fd <= Len(data) BY <1>0, Typed
    <3>2. Len(data) \in Nat /\ Len(data') = Len(data) + 1 /\ d.fd = Len(data')
      BY <1>0, <1>1, <1>5, <1>6, Typed
    <3>3. ASSUME NEW q \in Process, q # p PROVE call'[q].fd <= Len(data')
      <4>1. call'[q] = call[q] BY <1>7, <3>3
      <4> QED BY <3>1, <3>2, <4>1
    <3>4. call'[p].fd <= Len(data') BY <1>7, <3>2
    <3> QED BY <3>3, <3>4
  <2> QED BY <1>0, <1>1, <1>5, <1>7, <2>1, <2>2 DEF TypeOK, Inode, history
<1>9. path' # None /\ ~ Sealed'
  <2>1. path' = Len(data) + 1 /\ data'[path'] = <<>> BY <1>1, <1>5
  <2> QED BY <1>0, <2>1, Typed DEF Sealed, Headed, None
<1>10. late[p] = FALSE /\ unrenamed[p] = FALSE
  BY <1>0, <1>1 DEF OwnControl, RecordedHeaded, At, Done, TypeOK
<1> QED BY <1>1, <1>6, <1>7, <1>8, <1>9, <1>10, FirstFile DEF history

LEMMA OutsiderStep ==
  ASSUME Control, Outsider
  PROVE  Control'
<1>0. TypeOK BY DEF Control
<1> DEFINE t == <<Page(1), Page(2)>>
<1>1. /\ path = None /\ data' = Append(data, t) /\ path' = Len(data') /\ text' = t
      /\ UNCHANGED <<secure, call, worker, opens, stores, late, unrenamed, strayed, clash>>
  BY DEF Outsider
<1>2. t \in Seq(PageSet) /\ t[1] = Page(1) /\ Page(1) # Header BY PageTypes
<1>3. ~ Headed(t) BY <1>2 DEF Headed
<1> HIDE DEF t
<1>4. data' \in Seq(Seq(PageSet)) /\ Len(data') = Len(data) + 1 /\ data'[Len(data) + 1] = t
  BY <1>0, <1>1, <1>2, AppendProperties DEF TypeOK
<1>5. TypeOK'
  <2>1. /\ path' \in Nat /\ path' <= Len(data') /\ secure \in Nat /\ secure <= Len(data')
        /\ Len(data') \in Nat
    <3>1. secure \in Nat /\ secure <= Len(data) /\ Len(data) \in Nat BY <1>0 DEF TypeOK, Inode
    <3> QED BY <1>1, <1>4, <3>1
  <2>2. \A q \in Process : call'[q].fd <= Len(data')
    <3>1. \A q \in Process : call[q].fd \in Nat /\ call[q].fd <= Len(data) BY <1>0, Typed
    <3>2. Len(data) \in Nat BY <1>0 DEF TypeOK
    <3> QED BY <1>1, <1>4, <3>1, <3>2
  <2> QED BY <1>0, <1>1, <1>2, <1>4, <2>1, <2>2 DEF TypeOK, Inode
<1>6. path' # None /\ ~ Sealed'
  <2>1. path' = Len(data) + 1 /\ data'[path'] = t BY <1>1, <1>4
  <2>2. Len(data) \in Nat BY <1>0 DEF TypeOK
  <2> QED BY <1>3, <2>1, <2>2 DEF Sealed, Headed, None
<1> QED BY <1>1, <1>5, <1>6, FirstFile

\* What is left of the types, when the names stay.
Unmoved(p) ==
  /\ path # None /\ path' = path /\ secure' = secure
  /\ stores' \in Nat /\ text' \in Seq(PageSet) /\ strayed' \in BOOLEAN /\ clash' \in BOOLEAN
  /\ worker' \in [Process -> [Worker -> Workers]]
  /\ late' \in [Process -> BOOLEAN] /\ unrenamed' \in [Process -> BOOLEAN]
  /\ \A q \in Others(p) : /\ worker'[q] = worker[q]
                          /\ late'[q] = late[q] /\ unrenamed'[q] = unrenamed[q]

\* A step of p that writes to one file.
LEMMA FileStep ==
  ASSUME Control, NEW p \in Process, NEW c \in Calls, c.fd <= Len(data),
         NEW f \in 1..Len(data), NEW t \in Seq(PageSet), data' = [data EXCEPT ![f] = t],
         call' = [call EXCEPT ![p] = c], Unmoved(p)
  PROVE  /\ TypeOK' /\ NoFileYet' /\ call'[p] = c /\ \A q \in Others(p) : call'[q] = call[q]
         /\ Len(data') = Len(data) /\ data'[f] = t
         /\ \A g \in 1..Len(data) : g # f => data'[g] = data[g]
         /\ path \in 1..Len(data)
<1>0. TypeOK BY DEF Control
<1>1. /\ data' \in Seq(Seq(PageSet)) /\ Len(data') = Len(data) /\ data'[f] = t
      /\ \A g \in 1..Len(data) : g # f => data'[g] = data[g]
  <2>1. data \in Seq(Seq(PageSet)) BY <1>0 DEF TypeOK
  <2> QED BY <2>1, ExceptSeq
<1>2. /\ call' \in [Process -> Calls] /\ call'[p] = c
      /\ \A q \in Others(p) : call'[q] = call[q]
      /\ \A q \in Process : call'[q].fd <= Len(data')
  BY <1>0, <1>1, CallMoves
<1>3. TypeOK' BY <1>0, <1>1, <1>2 DEF TypeOK, Inode, Unmoved
<1>4. NoFileYet' BY DEF NoFileYet, Unmoved
<1>5. path \in 1..Len(data) BY <1>0, Typed DEF Unmoved
<1> QED BY <1>1, <1>2, <1>3, <1>4, <1>5

LEMMA HeaderStep ==
  ASSUME Control, NEW p \in Process, write_header(p)
  PROVE  Control'
<1>0. TypeOK /\ OwnControl(p) /\ SecureAside BY DEF Control, OwnControl
<1>1. /\ At(p, "new") /\ clash' \in BOOLEAN
      /\ UNCHANGED <<path, secure, worker, opens, stores, text, late, unrenamed, strayed>>
  BY DEF write_header
<1>2. Creating(p) /\ call[p].fd = path /\ path # None
  BY <1>0, <1>1 DEF OwnControl, CallKnows, HasFile, Creating, Found, At
<1>3. path \in 1..Len(data) /\ data[path] \in Seq(PageSet) BY <1>0, <1>2, Typed
<1> DEFINE t == Put(data[path], 1, <<Header>>)
           c == Returned(path, TRUE)
<1>4. t \in Seq(PageSet) /\ Headed(t)
  <2>1. Header \in PageSet /\ 1 \in Nat /\ 1 >= 1 BY PageTypes
  <2> QED BY <1>3, <2>1, PutOne, HeadedKept, Zenon
<1>5. data' = [data EXCEPT ![path] = t] BY <1>2 DEF write_header
<1>6. call' = [call EXCEPT ![p] = c] BY <1>2 DEF write_header
<1>7. /\ c \in Calls /\ c.pc = "done" /\ c.fd = path /\ c.recorded = TRUE
      /\ c.fs = FALSE /\ c.header = FALSE
  BY <1>0, Typed, ReturnedCall
<1> HIDE DEF c, t
<1>8. /\ TypeOK' /\ NoFileYet' /\ call'[p] = c /\ \A q \in Others(p) : call'[q] = call[q]
      /\ Len(data') = Len(data) /\ data'[path] = t
      /\ \A g \in 1..Len(data) : g # path => data'[g] = data[g]
  <2>1. c.fd <= Len(data) BY <1>3, <1>7
  <2>2. Unmoved(p) BY <1>0, <1>1, <1>2 DEF TypeOK, Unmoved
  <2>3. path \in 1..Len(data) /\ t \in Seq(PageSet) /\ c \in Calls BY <1>3, <1>4, <1>7
  <2> QED BY <1>5, <1>6, <2>1, <2>2, <2>3, FileStep, ZenonT(40)
<1>9. Sealed' BY <1>1, <1>4, <1>8 DEF Sealed, Headed
<1>10. \A q \in Process : ~ Rebuilding(q) BY <1>2, WhileRebuilding
<1>11. secure = None BY <1>0, <1>2 DEF SecureAside
<1>12. Quiet(p)
  <2>1. \A q \in Others(p) : ~ At(q, "join") /\ call[q].pc \notin {"small_open", "small_read"}
    BY <1>10 DEF Rebuilding, Others, At
  <2>2. \A q \in Others(p) : ~ Rebuilding(q) BY <1>10 DEF Others
  <2> QED BY <1>1, <1>8, <1>9, <1>11, <2>1, <2>2 DEF Quiet
<1>13. Orderly(p)
  BY <1>7, <1>8, <1>10, <1>11 DEF Orderly, Rebuilding, Creating, Done, At, Others
<1>14. late[p] = FALSE /\ unrenamed[p] = FALSE
  BY <1>0, <1>1 DEF OwnControl, RecordedHeaded, At, Done, TypeOK
<1>15. OwnControl(p)'
  <2> HIDE DEF Sealed
  <2> QED BY <1>1, <1>2, <1>7, <1>8, <1>9, <1>14 DEF OwnControl, CallKnows, HasFile, RecordedHeaded,
         Alone, LateFile, Stages, Found, Holding, Rebuilding, Creating, Done, At
<1> QED BY <1>8, <1>12, <1>13, <1>15, StepKept

\* "<path>.s" is there: the call came late, or a rename failed.
LEMMA LateStep ==
  ASSUME Control, NEW p \in Process, access_secure(p), secure # None
  PROVE  Control'
<1>0. TypeOK /\ OwnControl(p) /\ SecureAside BY DEF Control, OwnControl
<1> DEFINE c == Returned(call[p].fd, FALSE)
           l == \E q \in Others(p) : Rebuilding(q)
<1>1. /\ At(p, "secure") /\ call' = [call EXCEPT ![p] = c] /\ late' = [late EXCEPT ![p] = l]
      /\ UNCHANGED <<disk, worker, opens, stores, text, unrenamed, strayed, clash>>
  BY DEF access_secure
<1>2. /\ c \in Calls /\ c.pc = "done" /\ c.fd = call[p].fd /\ c.recorded = FALSE
      /\ c.fs = FALSE /\ c.header = FALSE
  BY <1>0, Typed, ReturnedCall
<1>3. l \in BOOLEAN OBVIOUS
<1>4. l \/ \A q \in Others(p) : ~ Rebuilding(q) OBVIOUS
<1> HIDE DEF c, l
<1>5. /\ TypeOK' /\ NoFileYet' /\ Quiet(p) /\ call'[p] = c
      /\ path' = path /\ secure' = secure /\ data' = data /\ (Sealed' <=> Sealed)
  <2>1. /\ worker' \in [Process -> [Worker -> Workers]] /\ clash' \in BOOLEAN
        /\ late' \in [Process -> BOOLEAN] /\ unrenamed' \in [Process -> BOOLEAN]
        /\ \A q \in Others(p) : /\ worker'[q] = worker[q]
                                /\ late'[q] = late[q] /\ unrenamed'[q] = unrenamed[q]
    BY <1>0, <1>1, <1>3 DEF TypeOK, Others
  <2>2. c.fd <= Len(data) /\ UNCHANGED <<disk, stores, text, strayed>> BY <1>0, <1>1, <1>2, Typed
  <2> QED BY <1>1, <1>2, <2>1, <2>2, CallStep
<1>6. late'[p] = l /\ unrenamed'[p] = unrenamed[p] BY <1>0, <1>1 DEF TypeOK
<1>7. Orderly(p)
  <2>1. c.fd # secure BY <1>0, <1>2 DEF SecureAside
  <2> QED BY <1>2, <1>4, <1>5, <1>6, <2>1 DEF Orderly, Rebuilding, Creating, Done, At
<1>8. unrenamed[p] = FALSE BY <1>0, <1>1 DEF OwnControl, RecordedHeaded, At, TypeOK
<1>9. call[p].fd = path /\ path # None
  BY <1>0, <1>1 DEF OwnControl, CallKnows, HasFile, Found, At, SecureAside
<1>10. OwnControl(p)'
  <2> HIDE DEF Sealed
  <2> QED BY <1>1, <1>2, <1>5, <1>6, <1>8, <1>9 DEF OwnControl, CallKnows, HasFile, RecordedHeaded,
         Alone, LateFile, Stages, Found, Holding, Rebuilding, Creating, Done, At
<1> QED BY <1>5, <1>7, <1>10, StepKept

\* A rebuild that is not out of turn begins when nobody else has the file.
LEMMA RebuildStep ==
  ASSUME Control, NEW p \in Process, access_secure(p), secure = None, ~ clash'
  PROVE  Control' /\ path # None /\ \A q \in Process : ~ Done(q)
<1>0. TypeOK /\ OwnControl(p) BY DEF Control, OwnControl
<1> DEFINE c == [call[p] EXCEPT !.pc = "size", !.fd = None]
<1>1. /\ At(p, "secure") /\ call' = [call EXCEPT ![p] = c]
      /\ UNCHANGED <<disk, worker, opens, stores, text, late, unrenamed, strayed>>
  BY DEF access_secure
<1>2. /\ ~ Headed(data[path])
      /\ \A q \in Others(p) : ~ Rebuilding(q) /\ ~ Creating(q) /\ (Done(q) => Translated(q))
  BY DEF access_secure
<1>3. /\ c \in Calls /\ c.pc = "size" /\ c.fd = None /\ c.recorded = call[p].recorded
      /\ c.fs = call[p].fs /\ c.header = call[p].header
  BY <1>0, Typed DEF Calls, CallPlace, None
<1> HIDE DEF c
<1>4. /\ TypeOK' /\ NoFileYet' /\ Quiet(p) /\ call'[p] = c
      /\ path' = path /\ secure' = secure /\ data' = data /\ (Sealed' <=> Sealed)
  <2>1. /\ worker' \in [Process -> [Worker -> Workers]] /\ clash' \in BOOLEAN
        /\ late' \in [Process -> BOOLEAN] /\ unrenamed' \in [Process -> BOOLEAN]
        /\ \A q \in Others(p) : /\ worker'[q] = worker[q]
                                /\ late'[q] = late[q] /\ unrenamed'[q] = unrenamed[q]
    <3>1. clash' \in BOOLEAN BY DEF access_secure
    <3> QED BY <1>0, <1>1, <3>1 DEF TypeOK
  <2>2. c.fd <= Len(data) /\ UNCHANGED <<disk, stores, text, strayed>>
    BY <1>0, <1>1, <1>3, Typed DEF None
  <2> QED BY <1>1, <1>3, <2>1, <2>2, CallStep
<1>5. ~ Sealed BY <1>2 DEF Sealed
<1>6. ASSUME NEW q \in Process PROVE ~ Done(q)
  <2>1. HasFile(q) /\ RecordedHeaded(q) BY DEF Control
  <2>2. CASE q = p BY <1>1, <2>2 DEF Done, At
  <2>3. CASE q # p
    <3> SUFFICES ASSUME Done(q) PROVE FALSE OBVIOUS
    <3>1. Translated(q) BY <1>2, <2>3 DEF Others
    <3>2. call[q].fd = path BY <1>5, <2>1 DEF HasFile, Done, At
    <3>3. call[q].recorded BY <1>2, <3>1, <3>2 DEF Translated
    <3>4. ~ At(q, "idle") BY DEF Done, At
    <3> QED BY <1>5, <2>1, <3>3, <3>4 DEF RecordedHeaded
  <2> QED BY <2>2, <2>3
<1>7. Orderly(p)
  BY <1>3, <1>4 DEF Orderly, Rebuilding, Creating, Done, At
<1>8. OwnControl(p)'
  <2>1. CallKnows(p)' /\ HasFile(p)' /\ LateFile(p)'
    BY <1>0, <1>1, <1>3, <1>4, <1>5 DEF OwnControl, CallKnows, HasFile, LateFile, Found, Holding, Done, At
  <2>2. RecordedHeaded(p)'
    BY <1>0, <1>1, <1>3, <1>4 DEF OwnControl, CallKnows, RecordedHeaded, Done, At
  <2>3. Stages(p)' BY <1>3, <1>4 DEF Stages, At
  <2>4. Alone(p)'
    <3>1. \A q \in Others(p) : call'[q] = call[q] /\ q \in Process BY <1>4 DEF Quiet, Others
    <3>2. \A q \in Others(p) : ~ Rebuilding(q)' /\ ~ Creating(q)' /\ ~ Done(q)'
      BY <1>2, <1>6, <3>1 DEF Rebuilding, Creating, Done, At
    <3> QED BY <1>4, <1>5, <3>2 DEF Alone, Others
  <2> QED BY <2>1, <2>2, <2>3, <2>4 DEF OwnControl
<1>9. path # None BY <1>0, <1>1 DEF OwnControl, CallKnows, Found, At
<1> QED BY <1>4, <1>6, <1>7, <1>8, <1>9, StepKept

LEMMA ReopenStep ==
  ASSUME Control, NEW p \in Process, reopen(p)
  PROVE  Control'
<1>0. TypeOK /\ OwnControl(p) /\ SecureAside BY DEF Control, OwnControl
<1> DEFINE c == Returned(path, call[p].recorded)
<1>1. /\ At(p, "reopen") /\ call' = [call EXCEPT ![p] = c]
      /\ UNCHANGED <<disk, worker, opens, stores, history>>
  BY DEF reopen
<1>2. /\ c \in Calls /\ c.pc = "done" /\ c.fd = path /\ c.recorded = call[p].recorded
      /\ c.fs = FALSE /\ c.header = FALSE
  <2>1. call[p].recorded \in BOOLEAN /\ path \in Nat BY <1>0, Typed DEF Calls
  <2> QED BY <2>1, ReturnedCall
<1> HIDE DEF c
<1>3. /\ TypeOK' /\ NoFileYet' /\ Quiet(p) /\ call'[p] = c
      /\ path' = path /\ secure' = secure /\ data' = data /\ (Sealed' <=> Sealed)
  BY <1>0, <1>1, <1>2, Typed, CallStep DEF TypeOK, history
<1>4. path # None BY <1>0, <1>1 DEF OwnControl, CallKnows, Found, At
<1>5. Orderly(p)
  <2>1. secure # None => c.fd # secure BY <1>0, <1>2 DEF SecureAside
  <2>2. \A q \in Others(p) : ~ Rebuilding(q)
    <3>1. Rebuilding(p) \/ unrenamed[p] \/ Sealed
      BY <1>0, <1>1 DEF OwnControl, RecordedHeaded, Rebuilding
    <3>2. CASE Rebuilding(p) BY <3>2, WhileRebuilding DEF Others
    <3>3. CASE unrenamed[p]
      BY <1>0, <1>1, <3>3 DEF OwnControl, RecordedHeaded, At, Others
    <3>4. CASE Sealed BY <3>4, WhileRebuilding DEF Others
    <3> QED BY <3>1, <3>2, <3>3, <3>4
  <2> QED BY <1>2, <1>3, <2>1, <2>2 DEF Orderly, Rebuilding, Creating, Done, At
<1>6. OwnControl(p)'
  <2>1. late'[p] = late[p] /\ unrenamed'[p] = unrenamed[p] BY <1>1 DEF history
  <2>2. late[p] = FALSE
    BY <1>0, <1>1 DEF OwnControl, RecordedHeaded, At, Done, TypeOK
  <2>3. CallKnows(p)' /\ HasFile(p)' /\ LateFile(p)' /\ Stages(p)' /\ Alone(p)'
    BY <1>2, <1>3, <1>4, <2>1, <2>2 DEF CallKnows, HasFile, LateFile, Stages, Alone, Rebuilding,
       Found, Holding, Done, At, None
  <2>4. RecordedHeaded(p)'
    <3>1. ASSUME unrenamed[p] PROVE \A q \in Process : ~ Rebuilding(q)'
      <4>1. \A q \in Process : ~ Rebuilding(q)
        BY <1>0, <1>1, <3>1 DEF OwnControl, RecordedHeaded, At
      <4>2. \A q \in Others(p) : call'[q] = call[q] BY <1>3 DEF Quiet
      <4>3. ~ Rebuilding(p)' BY <1>2, <1>3 DEF Rebuilding, At
      <4> QED BY <4>1, <4>2, <4>3 DEF Rebuilding, At, Others
    <3> HIDE DEF Sealed
    <3> QED BY <1>0, <1>1, <1>2, <1>3, <2>1, <2>2, <3>1 DEF OwnControl, RecordedHeaded, Done, At
  <2> QED BY <2>3, <2>4 DEF OwnControl
<1> QED BY <1>3, <1>5, <1>6, StepKept

\* The pages the threads are given: average is rounded up.
LEMMA AverageType ==
  ASSUME NEW n \in Nat
  PROVE  Average(n) \in Nat /\ Average(n) * THREADS_COUNT >= n /\ (n > 0 => Average(n) > 0)
<1>1. THREADS_COUNT \in Nat /\ THREADS_COUNT >= 2 BY OpenRaceAssumption
<1> DEFINE m == n + THREADS_COUNT - 1
           a == m \div THREADS_COUNT
<1>2. m \in Nat BY <1>1
<1> HIDE DEF m
<1>3. a \in Nat /\ THREADS_COUNT * a <= m /\ m < THREADS_COUNT * a + THREADS_COUNT BY <1>1, <1>2
<1>4. a = Average(n) BY DEF Average, m
<1> HIDE DEF a
<1>5. m = n + THREADS_COUNT - 1 BY DEF m
<1>6. a * THREADS_COUNT = THREADS_COUNT * a /\ THREADS_COUNT * a \in Nat BY <1>1, <1>3
<1>7. a * THREADS_COUNT >= n BY <1>1, <1>3, <1>5, <1>6
<1>8. ASSUME n > 0, a = 0 PROVE FALSE
  <2>1. THREADS_COUNT * a = 0 BY <1>1, <1>8
  <2> QED BY <1>1, <1>7, <1>6, <1>8, <2>1
<1> QED BY <1>3, <1>4, <1>7, <1>8

LEMMA WorkerNumbers ==
  /\ 0 \in Worker /\ Last \in Worker /\ 0 # Last /\ THREADS_COUNT \in Nat
  /\ \A w \in Worker : w \in Nat /\ w <= Last /\ (w # Last => w + 1 \in Worker)
  BY OpenRaceAssumption DEF Worker, Last

LEMMA StartedType ==
  ASSUME NEW n \in Nat
  PROVE  /\ Started(n) \in [Worker -> Workers]
         /\ \A w \in Worker :
              /\ Started(n)[w].pc = IF w = 0 THEN "remove" ELSE "wait"
              /\ Started(n)[w].offset = Average(n) * w
              /\ Started(n)[w].bsize = IF w < Last THEN Average(n) ELSE n - Average(n) * w
<1>1. Average(n) \in Nat BY AverageType
<1>2. ASSUME NEW w \in Worker
      PROVE  Average(n) * w \in Nat
             /\ (IF w < Last THEN Average(n) ELSE n - Average(n) * w) \in Int
  <2>1. w \in Nat BY WorkerNumbers
  <2> QED BY <1>1, <2>1
<1>3. ASSUME NEW w \in Worker
      PROVE  LET me == Started(n)[w]
             IN  /\ me \in Workers /\ me.pc = (IF w = 0 THEN "remove" ELSE "wait")
                 /\ me.offset = Average(n) * w
                 /\ me.bsize = IF w < Last THEN Average(n) ELSE n - Average(n) * w
  <2> DEFINE o == Average(n) * w
             b == IF w < Last THEN Average(n) ELSE n - Average(n) * w
             place == IF w = 0 THEN "remove" ELSE "wait"
             me == [NoWorker EXCEPT !.pc = place, !.offset = o, !.bsize = b]
  <2>1. Started(n)[w] = me BY DEF Started
  <2>2. o \in Nat /\ b \in Int BY <1>2
  <2>3. place \in WorkerPlace BY DEF WorkerPlace
  <2> HIDE DEF o, b, place
  <2>4. me \in Workers /\ me.pc = place /\ me.offset = o /\ me.bsize = b
    <3>1. NoWorker \in Workers BY DEF NoWorker, Workers, WorkerPlace, None
    <3> QED BY <2>2, <2>3, <3>1 DEF Workers
  <2> HIDE DEF me
  <2> QED BY <2>1, <2>4 DEF o, b, place
<1>4. \A w \in Worker : Started(n)[w] \in Workers BY <1>3
<1>5. Started(n) \in [Worker -> Workers]
  <2>1. Started(n) = [w \in Worker |-> Started(n)[w]] BY DEF Started
  <2> HIDE DEF Workers
  <2> QED BY <1>4, <2>1
<1> QED BY <1>3, <1>5

LEMMA SizeStep ==
  ASSUME Control, NEW p \in Process, file_size(p)
  PROVE  Control'
<1>0. TypeOK /\ OwnControl(p) /\ SecureAside BY DEF Control, OwnControl
<1> DEFINE n == Len(data[path])
           place == IF n = 0 THEN "reopen" ELSE IF n <= THREADS_COUNT THEN "small_open" ELSE "join"
           c == [call[p] EXCEPT !.size = n, !.pc = place]
<1>1. /\ At(p, "size") /\ call' = [call EXCEPT ![p] = c]
      /\ worker' = IF place = "join" THEN [worker EXCEPT ![p] = Started(n)] ELSE worker
      /\ UNCHANGED <<disk, opens, stores, history>>
  BY DEF file_size
<1>2. path # None /\ secure = None
  BY <1>0, <1>1 DEF OwnControl, CallKnows, Stages, Found, At
<1>3. n \in Nat /\ place \in {"reopen", "small_open", "join"}
  <2>1. data[path] \in Seq(PageSet) BY <1>0, <1>2, Typed
  <2> QED BY <2>1, LenProperties
<1>4. n = Len(data[path]) OBVIOUS
<1> HIDE DEF n, place
<1>5. /\ c \in Calls /\ c.pc = place /\ c.fd = call[p].fd /\ c.recorded = call[p].recorded
      /\ c.fs = call[p].fs /\ c.header = call[p].header /\ c.size = n
  BY <1>0, <1>3, Typed DEF Calls, CallPlace
<1> HIDE DEF c
<1>6. Started(n) \in [Worker -> Workers] /\ \A w \in Worker : Started(n)[w].pc = IF w = 0 THEN "remove" ELSE "wait"
  BY <1>3, StartedType
<1>7. worker' \in [Process -> [Worker -> Workers]] /\ \A q \in Others(p) : worker'[q] = worker[q]
  BY <1>0, <1>1, <1>6 DEF TypeOK, Others
<1>8. /\ TypeOK' /\ NoFileYet' /\ Quiet(p) /\ call'[p] = c
      /\ path' = path /\ secure' = secure /\ data' = data /\ (Sealed' <=> Sealed)
  BY <1>0, <1>1, <1>5, <1>7, Typed, CallStep DEF TypeOK, history
<1>9. Rebuilding(p) BY <1>1 DEF Rebuilding, At
<1>10. Orderly(p) BY <1>2, <1>3, <1>5, <1>8, <1>9 DEF Orderly, Creating, Done, At
<1>11. call[p].recorded = FALSE BY <1>0, <1>1, Typed DEF OwnControl, CallKnows, At, Calls
<1>12. OwnControl(p)'
  <2>1. late'[p] = late[p] /\ unrenamed'[p] = unrenamed[p] BY <1>1 DEF history
  <2>2. late[p] = FALSE /\ unrenamed[p] = FALSE
    BY <1>0, <1>1 DEF OwnControl, RecordedHeaded, At, Done, TypeOK
  <2> HIDE DEF Sealed
  <2>3. CallKnows(p)'
    BY <1>0, <1>1, <1>2, <1>3, <1>5, <1>8 DEF OwnControl, CallKnows, Found, Holding, At
  <2>4. HasFile(p)' /\ LateFile(p)' /\ RecordedHeaded(p)'
    <3>1. place \notin {"secure", "done", "new", "small_read", "small_write"} BY <1>3
    <3> QED BY <1>5, <1>8, <1>11, <2>1, <2>2, <3>1 DEF HasFile, LateFile, RecordedHeaded, Done, At
  <2>5. Alone(p)'
    <3>1. \A q \in Others(p) : call'[q] = call[q] /\ late'[q] = late[q] BY <1>8 DEF Quiet
    <3> QED BY <1>0, <1>8, <1>9, <3>1 DEF OwnControl, Alone, Rebuilding, Creating, Done, At, Others
  <2>6. Stages(p)'
    <3>1. CASE place # "join" BY <1>2, <1>3, <1>4, <1>5, <1>8, <3>1 DEF Stages, At
    <3>2. CASE place = "join"
      <4>1. \A w \in Worker : worker'[p][w].pc = IF w = 0 THEN "remove" ELSE "wait"
        <5>1. worker'[p] = Started(n) BY <1>0, <1>1, <3>2 DEF TypeOK
        <5>2. \A w \in Worker : Started(n)[w].pc = IF w = 0 THEN "remove" ELSE "wait" BY <1>6
        <5> QED BY <5>1, <5>2
      <4>2. 0 \in Worker BY WorkerNumbers
      <4> QED BY <1>2, <1>5, <1>8, <3>2, <4>1, <4>2 DEF Stages, Preparing, At
    <3> QED BY <3>1, <3>2
  <2> QED BY <2>3, <2>4, <2>5, <2>6 DEF OwnControl
<1> QED BY <1>8, <1>10, <1>12, StepKept

\* What Control says to a step of p in the midst of a rebuild.
LEMMA InRebuild ==
  ASSUME Control, NEW p \in Process, Rebuilding(p)
  PROVE  /\ TypeOK /\ OwnControl(p) /\ SecureAside
         /\ path # None /\ path \in 1..Len(data) /\ data[path] \in Seq(PageSet)
         /\ late[p] = FALSE /\ unrenamed[p] = FALSE /\ call[p].recorded = FALSE
         /\ call[p].header = FALSE /\ call[p].fs = FALSE /\ ~ Sealed
<1>1. TypeOK /\ OwnControl(p) /\ SecureAside BY DEF Control, OwnControl
<1>2. ~ At(p, "idle") /\ ~ Done(p) /\ Found(p) /\ ~ At(p, "open") /\ ~ At(p, "check")
  BY DEF Rebuilding, Done, At, Found
<1>3. call[p].recorded = FALSE
  BY <1>1, Typed DEF OwnControl, CallKnows, Rebuilding, At, Calls
<1>4. late[p] = FALSE /\ unrenamed[p] = FALSE
  BY <1>1, <1>2, <1>3 DEF OwnControl, RecordedHeaded, TypeOK
<1>5. call[p].header = FALSE /\ call[p].fs = FALSE
  BY <1>1, <1>2, Typed DEF OwnControl, CallKnows, At, Calls
<1>6. path # None /\ ~ Sealed BY WhileRebuilding
<1> QED BY <1>1, <1>3, <1>4, <1>5, <1>6, Typed

\* A step of p from one place of the rebuild to another.
LEMMA StillRebuilding ==
  ASSUME Control, NEW p \in Process, Rebuilding(p), Quiet(p), Rebuilding(p)', ~ Sealed',
         secure # None => call'[p].fd # secure
  PROVE  Alone(p)' /\ Orderly(p)
<1>1. \A q \in Others(p) : call'[q] = call[q] /\ late'[q] = late[q] BY DEF Quiet
<1>2. Alone(p) BY DEF Control
<1>3. Alone(p)' BY <1>1, <1>2 DEF Alone, Rebuilding, Creating, Done, At, Others
<1>4. ~ Creating(p)' /\ ~ Done(p)' BY DEF Rebuilding, Creating, Done, At
<1> QED BY <1>3, <1>4 DEF Orderly

LEMMA SmallOpenStep ==
  ASSUME Control, NEW p \in Process, small_open(p)
  PROVE  Control'
<1>1. /\ At(p, "small_open") /\ UNCHANGED <<disk, worker, opens, stores, history>>
  BY DEF small_open
<1>2. Rebuilding(p) BY <1>1 DEF Rebuilding, At
<1>3. /\ TypeOK /\ OwnControl(p) /\ SecureAside /\ path # None /\ path \in 1..Len(data)
      /\ late[p] = FALSE /\ unrenamed[p] = FALSE /\ call[p].recorded = FALSE
      /\ call[p].header = FALSE /\ call[p].fs = FALSE /\ ~ Sealed
  BY <1>2, InRebuild
<1> DEFINE c == [call[p] EXCEPT !.fd = path, !.pc = "small_read"]
<1>4. /\ c \in Calls /\ c.pc = "small_read" /\ c.fd = path /\ c.recorded = call[p].recorded
      /\ c.fs = call[p].fs /\ c.header = call[p].header /\ c.size = call[p].size
  BY <1>3, Typed DEF Calls, CallPlace
<1>5. call' = [call EXCEPT ![p] = c] BY DEF small_open
<1> HIDE DEF c
<1>6. /\ TypeOK' /\ NoFileYet' /\ Quiet(p) /\ call'[p] = c
      /\ path' = path /\ secure' = secure /\ data' = data /\ (Sealed' <=> Sealed)
  BY <1>1, <1>3, <1>4, <1>5, Typed, CallStep DEF TypeOK, history
<1>7. Rebuilding(p)' BY <1>4, <1>6 DEF Rebuilding, At
<1>8. Alone(p)' /\ Orderly(p)
  <2>1. secure # None => call'[p].fd # secure BY <1>3, <1>4, <1>6 DEF SecureAside
  <2>2. Quiet(p) /\ ~ Sealed' BY <1>3, <1>6
  <2> QED BY <1>2, <1>7, <2>1, <2>2, StillRebuilding
<1>9. OwnControl(p)'
  <2>1. late'[p] = late[p] /\ unrenamed'[p] = unrenamed[p] BY <1>1 DEF history
  <2>2. Stages(p)' BY <1>1, <1>3, <1>4, <1>6 DEF OwnControl, Stages, At
  <2> HIDE DEF Sealed
  <2> QED BY <1>3, <1>4, <1>6, <1>8, <2>1, <2>2 DEF OwnControl, CallKnows, HasFile, RecordedHeaded,
         LateFile, Found, Holding, Done, At
<1> QED BY <1>6, <1>8, <1>9, StepKept

\* The file has the size it had: nobody else writes to it.
LEMMA SmallReadStep ==
  ASSUME Control, NEW p \in Process, small_read(p)
  PROVE  Control' /\ call'[p].pc = "small_write" /\ call'[p].buffer = data[path] /\ call[p].fd = path
<1>1. /\ At(p, "small_read") /\ UNCHANGED <<disk, worker, opens, stores, history>>
  BY DEF small_read
<1>2. Rebuilding(p) BY <1>1 DEF Rebuilding, At
<1>3. /\ TypeOK /\ OwnControl(p) /\ SecureAside /\ path # None /\ path \in 1..Len(data)
      /\ data[path] \in Seq(PageSet)
      /\ late[p] = FALSE /\ unrenamed[p] = FALSE /\ call[p].recorded = FALSE
      /\ call[p].header = FALSE /\ call[p].fs = FALSE /\ ~ Sealed
  BY <1>2, InRebuild
<1>4. call[p].fd = path /\ call[p].size = Len(data[path]) /\ Len(data[path]) \in Nat
  BY <1>1, <1>3, LenProperties DEF OwnControl, HasFile, Stages, At
<1> DEFINE c == [call[p] EXCEPT !.pc = "small_write", !.buffer = data[path]]
<1>5. /\ c \in Calls /\ c.pc = "small_write" /\ c.fd = path /\ c.recorded = call[p].recorded
      /\ c.fs = call[p].fs /\ c.header = call[p].header /\ c.buffer = data[path]
  BY <1>3, <1>4, Typed DEF Calls, CallPlace
<1>6. call' = [call EXCEPT ![p] = c]
  <2>1. ~ (Len(data[path]) < call[p].size) BY <1>4
  <2>2. SubSeq(data[path], 1, call[p].size) = data[path] BY <1>3, <1>4, SubSeqFull
  <2> QED BY <1>4, <2>1, <2>2 DEF small_read
<1> HIDE DEF c
<1>7. /\ TypeOK' /\ NoFileYet' /\ Quiet(p) /\ call'[p] = c
      /\ path' = path /\ secure' = secure /\ data' = data /\ (Sealed' <=> Sealed)
  <2>1. c.fd <= Len(data) BY <1>3, <1>5
  <2> QED BY <1>1, <1>3, <1>5, <1>6, <2>1, CallStep DEF TypeOK, history
<1>8. Rebuilding(p)' BY <1>5, <1>7 DEF Rebuilding, At
<1>9. Alone(p)' /\ Orderly(p)
  <2>1. secure # None => call'[p].fd # secure BY <1>3, <1>5, <1>7 DEF SecureAside
  <2>2. Quiet(p) /\ ~ Sealed' BY <1>3, <1>7
  <2> QED BY <1>2, <1>8, <2>1, <2>2, StillRebuilding
<1>10. OwnControl(p)'
  <2>1. late'[p] = late[p] /\ unrenamed'[p] = unrenamed[p] BY <1>1 DEF history
  <2>2. Stages(p)' BY <1>1, <1>3, <1>5, <1>7 DEF OwnControl, Stages, At
  <2> HIDE DEF Sealed
  <2> QED BY <1>3, <1>5, <1>7, <1>9, <2>1, <2>2 DEF OwnControl, CallKnows, HasFile, RecordedHeaded,
         LateFile, Found, Holding, Done, At
<1>11. Control' BY <1>7, <1>9, <1>10, StepKept
<1> QED BY <1>4, <1>5, <1>7, <1>11

LEMMA SmallWriteStep ==
  ASSUME Control, NEW p \in Process, small_write(p)
  PROVE  /\ Control' /\ Sealed' /\ data' = [data EXCEPT ![path] = Put(data[path], 1, <<Header>> \o Encrypted(call[p].buffer))]
         /\ data'[path] = Put(data[path], 1, <<Header>> \o Encrypted(call[p].buffer))
<1>1. /\ At(p, "small_write") /\ UNCHANGED <<path, secure, worker, opens, stores, history>>
  BY DEF small_write
<1>2. Rebuilding(p) BY <1>1 DEF Rebuilding, At
<1>3. /\ TypeOK /\ OwnControl(p) /\ SecureAside /\ path # None /\ path \in 1..Len(data)
      /\ data[path] \in Seq(PageSet)
      /\ late[p] = FALSE /\ unrenamed[p] = FALSE /\ call[p].recorded = FALSE
      /\ call[p].header = FALSE /\ call[p].fs = FALSE /\ ~ Sealed
  BY <1>2, InRebuild
<1>4. call[p].fd = path /\ secure = None BY <1>1, <1>3 DEF OwnControl, HasFile, Stages, At
<1> DEFINE t == Put(data[path], 1, <<Header>> \o Encrypted(call[p].buffer))
           c == [call[p] EXCEPT !.pc = "reopen", !.recorded = TRUE, !.buffer = <<>>]
<1>5. t \in Seq(PageSet) /\ Headed(t)
  <2>1. call[p].buffer \in Seq(PageSet) BY <1>3, Typed DEF Calls
  <2> QED BY <1>3, <2>1, PutSealed
<1>6. /\ c \in Calls /\ c.pc = "reopen" /\ c.fd = path /\ c.recorded = TRUE
      /\ c.fs = call[p].fs /\ c.header = call[p].header
  <2>1. call[p] \in Calls /\ "reopen" \in CallPlace /\ <<>> \in Seq(PageSet)
    BY <1>3, Typed DEF CallPlace
  <2> QED BY <1>4, <2>1 DEF Calls
<1>7. data' = [data EXCEPT ![path] = t] /\ call' = [call EXCEPT ![p] = c]
  BY <1>4 DEF small_write
<1> HIDE DEF c, t
<1>8. /\ TypeOK' /\ NoFileYet' /\ call'[p] = c /\ \A q \in Others(p) : call'[q] = call[q]
      /\ Len(data') = Len(data) /\ data'[path] = t
      /\ \A g \in 1..Len(data) : g # path => data'[g] = data[g]
  <2>1. c.fd <= Len(data) BY <1>3, <1>6
  <2>2. Unmoved(p) BY <1>1, <1>3 DEF TypeOK, Unmoved, history
  <2>3. path \in 1..Len(data) /\ t \in Seq(PageSet) /\ c \in Calls BY <1>3, <1>5, <1>6
  <2> QED BY <1>7, <2>1, <2>2, <2>3, FileStep, ZenonT(40)
<1>9. Sealed' BY <1>1, <1>5, <1>8 DEF Sealed, Headed
<1>10. Quiet(p)
  <2>1. \A q \in Others(p) : ~ Rebuilding(q) BY <1>2, WhileRebuilding DEF Others
  <2>2. \A q \in Others(p) : ~ At(q, "join") /\ call[q].pc \notin {"small_open", "small_read"}
    BY <2>1 DEF Rebuilding, At
  <2> QED BY <1>1, <1>4, <1>8, <1>9, <2>1, <2>2 DEF Quiet, history
<1>11. Orderly(p) BY <1>3, <1>4, <1>6, <1>8 DEF Orderly, Rebuilding, Creating, Done, At
<1>12. OwnControl(p)'
  <2>1. late'[p] = late[p] /\ unrenamed'[p] = unrenamed[p] BY <1>1 DEF history
  <2> HIDE DEF Sealed
  <2> QED BY <1>1, <1>3, <1>6, <1>8, <1>9, <2>1 DEF OwnControl, CallKnows, HasFile, RecordedHeaded,
         Alone, LateFile, Stages, Found, Holding, Rebuilding, Done, At
<1>13. Control' BY <1>8, <1>10, <1>11, <1>12, StepKept
<1> QED BY <1>7, <1>8, <1>9, <1>13 DEF t

LEMMA NoThreads == [w \in Worker |-> NoWorker] \in [Worker -> Workers]
<1>1. NoWorker \in Workers BY DEF NoWorker, Workers, WorkerPlace, None
<1> QED BY <1>1

LEMMA LeaveStep ==
  ASSUME Control, NEW p \in Process, Leave(p)
  PROVE  Control'
<1>0. TypeOK /\ OwnControl(p) /\ SecureAside BY DEF Control, OwnControl
<1>1. /\ call' = [call EXCEPT ![p] = Idle]
      /\ worker' = [worker EXCEPT ![p] = [w \in Worker |-> NoWorker]]
      /\ UNCHANGED <<disk, opens, stores, history>>
  BY DEF Leave
<1> DEFINE c == Idle
<1>2. /\ c \in Calls /\ c.pc = "idle" /\ c.fd = None /\ c.recorded = FALSE
      /\ c.fs = FALSE /\ c.header = FALSE
  BY IdleCall
<1>3. call' = [call EXCEPT ![p] = c] BY <1>1
<1> HIDE DEF c
<1>4. /\ TypeOK' /\ NoFileYet' /\ Quiet(p) /\ call'[p] = c
      /\ path' = path /\ secure' = secure /\ data' = data /\ (Sealed' <=> Sealed)
  <2>1. worker' \in [Process -> [Worker -> Workers]] /\ \A q \in Others(p) : worker'[q] = worker[q]
    BY <1>0, <1>1, NoThreads DEF TypeOK, Others
  <2>2. c.fd <= Len(data) BY <1>0, <1>2, Typed DEF None
  <2> QED BY <1>0, <1>1, <1>2, <1>3, <2>1, <2>2, CallStep, ZenonT(40) DEF TypeOK, history
<1>5. Orderly(p) BY <1>2, <1>4 DEF Orderly, Rebuilding, Creating, Done, At, None
<1>6. OwnControl(p)'
  BY <1>2, <1>4 DEF OwnControl, CallKnows, HasFile, RecordedHeaded, Alone, LateFile,
     Stages, Found, Holding, Rebuilding, Creating, Done, At
<1> QED BY <1>4, <1>5, <1>6, StepKept

\* What is under the names when the threads have ended.
LEMMA WhenEnded ==
  ASSUME Control, NEW p \in Process, join_rename(p)
  PROVE  /\ Rebuilding(p) /\ secure # None /\ secure # path /\ secure \in 1..Len(data)
         /\ Headed(data[secure]) /\ At(p, "join") /\ worker[p][0].pc \in Ended
<1>1. At(p, "join") /\ worker[p][0].pc \in Ended
  BY WorkerNumbers DEF join_rename, Ended
<1>2. Rebuilding(p) BY <1>1 DEF Rebuilding, At
<1>3. TypeOK /\ OwnControl(p) /\ SecureAside BY DEF Control, OwnControl
<1>4. secure # None /\ Headed(data[secure])
  <2>1. worker[p][0].pc \notin Preparing BY <1>1 DEF Ended, Preparing
  <2> QED BY <1>1, <1>3, <2>1 DEF OwnControl, Stages
<1> QED BY <1>1, <1>2, <1>3, <1>4, Typed DEF SecureAside

\* The threads are joined and the name stays, be it that rename fails.
LEMMA UnrenamedStep ==
  ASSUME Control, NEW p \in Process, join_rename(p), path' = path, secure' = secure
  PROVE  Control'
<1>1. /\ Rebuilding(p) /\ secure # None /\ secure # path /\ At(p, "join")
  BY WhenEnded
<1>2. /\ TypeOK /\ OwnControl(p) /\ SecureAside /\ path # None /\ path \in 1..Len(data)
      /\ late[p] = FALSE /\ unrenamed[p] = FALSE /\ call[p].recorded = FALSE
      /\ call[p].header = FALSE /\ call[p].fs = FALSE /\ ~ Sealed
  BY <1>1, InRebuild
<1> DEFINE r == \E w \in Worker : worker[p][w].pc = "path"
           c == [call[p] EXCEPT !.recorded = r, !.pc = "reopen"]
<1>3. /\ worker' = [worker EXCEPT ![p] = [w \in Worker |-> NoWorker]]
      /\ call' = [call EXCEPT ![p] = c]
      /\ UNCHANGED <<data, opens, stores, text, late, strayed, clash>>
      /\ \/ r /\ path' = secure /\ secure' = None
         \/ (r => secure = None) /\ UNCHANGED unrenamed
         \/ r /\ unrenamed' = [unrenamed EXCEPT ![p] = TRUE]
  BY DEF join_rename
<1>4. r \in BOOLEAN OBVIOUS
<1> HIDE DEF r
<1>5. /\ c \in Calls /\ c.pc = "reopen" /\ c.fd = call[p].fd /\ c.recorded = r
      /\ c.fs = call[p].fs /\ c.header = call[p].header
  BY <1>2, <1>4, Typed DEF Calls, CallPlace
<1> HIDE DEF c
<1>6. unrenamed' = [unrenamed EXCEPT ![p] = r] /\ (unrenamed'[p] <=> r)
  BY <1>1, <1>2, <1>3, <1>4 DEF TypeOK
<1>7. /\ TypeOK' /\ NoFileYet' /\ Quiet(p) /\ call'[p] = c
      /\ data' = data /\ (Sealed' <=> Sealed)
  <2>1. worker' \in [Process -> [Worker -> Workers]] /\ \A q \in Others(p) : worker'[q] = worker[q]
    BY <1>2, <1>3, NoThreads DEF TypeOK, Others
  <2>2. unrenamed' \in [Process -> BOOLEAN] /\ \A q \in Others(p) : unrenamed'[q] = unrenamed[q]
    BY <1>2, <1>4, <1>6 DEF TypeOK, Others
  <2>3. /\ late' \in [Process -> BOOLEAN] /\ clash' \in BOOLEAN
        /\ \A q \in Others(p) : late'[q] = late[q]
        /\ UNCHANGED <<disk, stores, text, strayed>>
    BY <1>2, <1>3 DEF TypeOK, disk
  <2>4. c.fd <= Len(data) BY <1>2, <1>5, Typed
  <2> QED BY <1>3, <1>5, <2>1, <2>2, <2>3, <2>4, CallStep, ZenonT(40)
<1>8. Orderly(p)
  <2>1. c.fd # secure BY <1>1, <1>2, <1>5 DEF SecureAside
  <2> QED BY <1>1, <1>5, <1>7, <2>1 DEF Orderly, Creating, Done, At
<1>9. \A q \in Others(p) : ~ Rebuilding(q)' /\ ~ Creating(q)' /\ (Done(q)' => late'[q])
  <2>1. \A q \in Others(p) : call'[q] = call[q] /\ late'[q] = late[q] BY <1>7 DEF Quiet
  <2> QED BY <1>1, <1>2, <2>1 DEF OwnControl, Alone, Rebuilding, Creating, Done, At
<1>10. OwnControl(p)'
  <2>1. late'[p] = late[p] BY <1>3
  <2>2. (unrenamed[p])' => \A q \in Process : ~ Rebuilding(q)'
    <3>1. r => ~ Rebuilding(p)' BY <1>5, <1>7 DEF Rebuilding, At
    <3> QED BY <1>6, <1>9, <3>1 DEF Others
  <2>3. Alone(p)' BY <1>2, <1>7, <1>9 DEF Alone, Others
  <2>4. CallKnows(p)' /\ HasFile(p)' /\ LateFile(p)' /\ Stages(p)'
    <3> HIDE DEF Sealed
    <3> QED BY <1>2, <1>5, <1>7 DEF CallKnows, HasFile, LateFile, Stages, Found, Holding, Done, At
  <2>5. RecordedHeaded(p)'
    <3> HIDE DEF Sealed
    <3> QED BY <1>1, <1>2, <1>5, <1>6, <1>7, <2>1, <2>2 DEF RecordedHeaded, At, Done
  <2> QED BY <2>3, <2>4, <2>5 DEF OwnControl
<1> QED BY <1>7, <1>8, <1>10, StepKept

\* The new file takes the path.
LEMMA RenameStep ==
  ASSUME Control, NEW p \in Process, join_rename(p), path' # path
  PROVE  /\ Control' /\ Sealed' /\ path' = secure /\ data' = data
         /\ UNCHANGED <<text, stores, strayed, late>>
         /\ \A q \in Others(p) : call'[q] = call[q] /\ worker'[q] = worker[q]
         /\ call'[p].pc = "reopen"
<1>1. /\ Rebuilding(p) /\ secure # None /\ secure # path /\ secure \in 1..Len(data)
      /\ Headed(data[secure]) /\ At(p, "join")
  BY WhenEnded
<1>2. /\ TypeOK /\ OwnControl(p) /\ SecureAside /\ path # None /\ path \in 1..Len(data)
      /\ late[p] = FALSE /\ unrenamed[p] = FALSE /\ call[p].recorded = FALSE
      /\ call[p].header = FALSE /\ call[p].fs = FALSE /\ ~ Sealed
  BY <1>1, InRebuild
<1> DEFINE r == \E w \in Worker : worker[p][w].pc = "path"
           c == [call[p] EXCEPT !.recorded = r, !.pc = "reopen"]
<1>3. /\ worker' = [worker EXCEPT ![p] = [w \in Worker |-> NoWorker]]
      /\ call' = [call EXCEPT ![p] = c]
      /\ UNCHANGED <<data, opens, stores, text, late, strayed, clash>>
      /\ r /\ path' = secure /\ secure' = None /\ UNCHANGED unrenamed
  BY DEF join_rename
<1>4. r \in BOOLEAN OBVIOUS
<1> HIDE DEF r
<1>5. /\ c \in Calls /\ c.pc = "reopen" /\ c.fd = call[p].fd /\ c.recorded = TRUE
      /\ c.fs = call[p].fs /\ c.header = call[p].header
  BY <1>2, <1>3, Typed DEF Calls, CallPlace
<1> HIDE DEF c
<1>6. /\ call' \in [Process -> Calls] /\ call'[p] = c
      /\ \A q \in Others(p) : call'[q] = call[q]
      /\ \A q \in Process : call'[q].fd <= Len(data')
  <2>1. c.fd <= Len(data) BY <1>2, <1>5, Typed
  <2> QED BY <1>2, <1>3, <1>5, <2>1, CallMoves
<1>7. worker' \in [Process -> [Worker -> Workers]] /\ \A q \in Others(p) : worker'[q] = worker[q]
  BY <1>2, <1>3, NoThreads DEF TypeOK, Others
<1>8. TypeOK' BY <1>1, <1>2, <1>3, <1>6, <1>7 DEF TypeOK, Inode, None
<1>9. Sealed' BY <1>1, <1>3 DEF Sealed, Headed
<1>10. NoFileYet' /\ SecureAside' BY <1>1, <1>3 DEF NoFileYet, SecureAside
<1>11. ~ Rebuilding(p)' BY <1>5, <1>6 DEF Rebuilding, At
<1>12. ASSUME NEW q \in Process PROVE OwnControl(q)'
  <2> HIDE DEF Sealed
  <2>1. late'[q] = late[q] /\ unrenamed'[q] = unrenamed[q] BY <1>3
  <2>2. CASE q = p
    BY <1>1, <1>2, <1>3, <1>5, <1>6, <1>9, <1>11, <2>1, <2>2 DEF OwnControl, CallKnows, HasFile,
       RecordedHeaded, Alone, LateFile, Stages, Found, Holding, Done, At
  <2>3. CASE q # p
    <3>1. call'[q] = call[q] /\ ~ Rebuilding(q) /\ ~ Creating(q) /\ (Done(q) => late[q])
      BY <1>1, <1>2, <1>6, <2>3 DEF OwnControl, Alone, Others
    <3>2. CallKnows(q) /\ HasFile(q) /\ RecordedHeaded(q) BY DEF Control
    <3>3. ~ Rebuilding(q)' /\ ~ Creating(q)' /\ (Done(q)' => late'[q])
      BY <2>1, <3>1 DEF Rebuilding, Creating, Done, At
    <3>4. Alone(q)' /\ LateFile(q)' BY <1>9, <3>3 DEF Alone, LateFile
    <3>5. Stages(q)' BY <3>3 DEF Stages, Rebuilding, At
    <3>6. unrenamed[q] => At(q, "idle") BY <1>1, <3>2 DEF RecordedHeaded
    <3>7. RecordedHeaded(q)'
      <4>1. RecordedHeaded(q)' BY <1>9, <2>1, <3>1, <3>2, <3>6 DEF RecordedHeaded, Done, At
      <4> QED BY <4>1
    <3>8. CallKnows(q)' BY <1>1, <1>3, <1>9, <3>1, <3>2 DEF CallKnows, Found, Holding, At
    <3>9. HasFile(q)'
      <4>1. call[q].pc \notin {"new", "small_read", "small_write"}
        BY <3>1, <3>2 DEF Rebuilding, Creating, CallKnows, At
      <4> QED BY <1>9, <3>1, <3>3, <4>1 DEF HasFile, Done, At
    <3> QED BY <3>4, <3>5, <3>7, <3>8, <3>9 DEF OwnControl
  <2> QED BY <2>2, <2>3
<1>13. Control' BY <1>8, <1>10, <1>12 DEF Control, OwnControl
<1> QED BY <1>3, <1>5, <1>6, <1>7, <1>9, <1>13

\* A thread of p moves on.
LEMMA WorkerMoves ==
  ASSUME TypeOK, NEW p \in Process, NEW w \in Worker, NEW v \in Workers,
         worker' = [worker EXCEPT ![p][w] = v]
  PROVE  /\ worker' \in [Process -> [Worker -> Workers]]
         /\ worker'[p][w] = v /\ \A u \in Worker : u # w => worker'[p][u] = worker[p][u]
         /\ \A q \in Others(p) : worker'[q] = worker[q]
<1> DEFINE m == [worker[p] EXCEPT ![w] = v]
<1>1. worker' = [worker EXCEPT ![p] = m] OBVIOUS
<1>2. worker \in [Process -> [Worker -> Workers]] BY DEF TypeOK
<1>3. m \in [Worker -> Workers] /\ m[w] = v /\ \A u \in Worker : u # w => m[u] = worker[p][u]
  BY <1>2
<1> HIDE DEF m
<1>4. worker' \in [Process -> [Worker -> Workers]] /\ worker'[p] = m
  BY <1>1, <1>2, <1>3
<1>5. \A q \in Others(p) : worker'[q] = worker[q] BY <1>1, <1>2 DEF Others
<1> QED BY <1>3, <1>4, <1>5

\* What a thread of p does concerns p and the file under "<path>.s".
LEMMA ThreadStep ==
  ASSUME Control, NEW p \in Process, At(p, "join"),
         UNCHANGED <<path, secure, call, stores, history>>,
         worker' \in [Process -> [Worker -> Workers]], \A q \in Others(p) : worker'[q] = worker[q],
         data' \in Seq(Seq(PageSet)), Len(data') = Len(data), data'[path] = data[path],
         Stages(p)'
  PROVE  Control'
<1>1. Rebuilding(p) BY DEF Rebuilding, At
<1>2. /\ TypeOK /\ OwnControl(p) /\ SecureAside /\ path # None BY <1>1, InRebuild
<1>3. path' = path /\ secure' = secure /\ call' = call /\ late' = late /\ unrenamed' = unrenamed
  BY DEF history
<1>4. Sealed' <=> Sealed BY <1>3 DEF Sealed, Headed
<1>5. TypeOK' BY <1>2, <1>3 DEF TypeOK, Inode, history
<1>6. NoFileYet' BY <1>2, <1>3 DEF NoFileYet
<1>7. Quiet(p)
  <2>1. \A q \in Others(p) : ~ At(q, "join") /\ call[q].pc \notin {"small_open", "small_read"}
    BY <1>1, WhileRebuilding DEF Others, Rebuilding, At
  <2> QED BY <1>3, <1>4, <2>1 DEF Quiet
<1>8. Rebuilding(p)' /\ ~ Sealed'
  <2>1. ~ Sealed BY <1>1, WhileRebuilding
  <2> QED BY <1>1, <1>3, <1>4, <2>1 DEF Rebuilding, At
<1>9. Alone(p)' /\ Orderly(p)
  <2>1. secure # None => call'[p].fd # secure BY <1>2, <1>3 DEF SecureAside
  <2> QED BY <1>1, <1>7, <1>8, <2>1, StillRebuilding
<1>10. OwnControl(p)'
  <2> HIDE DEF Sealed
  <2>1. CallKnows(p)' /\ HasFile(p)' /\ LateFile(p)'
    BY <1>2, <1>3, <1>4 DEF OwnControl, CallKnows, HasFile, LateFile, Found, Holding, Done, At
  <2>2. RecordedHeaded(p)'
    <3>1. ~ unrenamed[p] BY <1>2 DEF OwnControl, RecordedHeaded, At
    <3> QED BY <1>2, <1>3, <1>4, <3>1 DEF OwnControl, RecordedHeaded, Done, At
  <2> QED BY <1>9, <2>1, <2>2 DEF OwnControl
<1> QED BY <1>5, <1>6, <1>7, <1>9, <1>10, StepKept

\* What the stages say to a thread.
LEMMA AtStage ==
  ASSUME Control, NEW p \in Process, NEW w \in Worker, At(p, "join")
  PROVE  /\ TypeOK /\ Stages(p) /\ path # None /\ path \in 1..Len(data) /\ ~ Sealed
         /\ data \in Seq(Seq(PageSet)) /\ worker[p][w] \in Workers
         /\ (secure # None => secure # path /\ secure \in 1..Len(data) /\ data[secure] \in Seq(PageSet))
         /\ (worker[p][w].pc \notin Preparing \cup {"wait"} =>
               worker[p][0].pc \notin Preparing /\ secure # None /\ Headed(data[secure]))
<1>1. Rebuilding(p) BY DEF Rebuilding, At
<1>2. /\ TypeOK /\ OwnControl(p) /\ SecureAside /\ path # None /\ path \in 1..Len(data) /\ ~ Sealed
  BY <1>1, InRebuild
<1>3. secure # None => secure # path /\ secure \in 1..Len(data) /\ data[secure] \in Seq(PageSet)
  BY <1>2, Typed DEF SecureAside
<1>4. worker[p][w] \in Workers BY <1>2 DEF TypeOK
<1>5. Stages(p) BY <1>2 DEF OwnControl
<1>6. ASSUME worker[p][w].pc \notin Preparing \cup {"wait"}
      PROVE  worker[p][0].pc \notin Preparing /\ secure # None /\ Headed(data[secure])
  <2>1. worker[p][0].pc \notin Preparing
    <3>1. CASE w = 0 BY <1>6, <3>1
    <3>2. CASE w # 0 BY <1>5, <1>6, <3>2 DEF Stages
    <3> QED BY <3>1, <3>2
  <2> QED BY <1>5, <2>1 DEF Stages
<1> QED BY <1>2, <1>3, <1>4, <1>5, <1>6 DEF TypeOK

\* A thread that leaves the files alone: it waits no longer, or not yet copies.
LEMMA ThreadMoves ==
  ASSUME Control, NEW p \in Process, NEW w \in Worker, NEW v \in Workers, At(p, "join"),
         UNCHANGED <<disk, call, stores, history>>,
         worker' = [worker EXCEPT ![p][w] = v],
         worker[p][w].pc \notin Preparing, secure # None, Headed(data[secure]),
         v.pc \notin Preparing \cup {"none"},
         v.pc \in {"open_new", "copy"} => v.ofd = path,
         v.pc = "copy" => v.nfd = secure
  PROVE  Control'
<1>1. /\ TypeOK /\ Stages(p) /\ path # None /\ data \in Seq(Seq(PageSet)) BY AtStage
<1>2. /\ worker' \in [Process -> [Worker -> Workers]]
      /\ worker'[p][w] = v /\ \A u \in Worker : u # w => worker'[p][u] = worker[p][u]
      /\ \A q \in Others(p) : worker'[q] = worker[q]
  BY <1>1, WorkerMoves
<1>3. data' = data /\ path' = path /\ secure' = secure /\ call' = call BY DEF disk
<1>4. worker[p][0].pc \notin Preparing
  <2>1. worker[p][0].pc \notin {"remove", "create"} BY <1>1 DEF Stages
  <2>2. worker[p][0].pc \notin {"size", "header"} BY <1>1 DEF Stages
  <2> QED BY <2>1, <2>2 DEF Preparing
<1>5. worker'[p][0].pc \notin Preparing
  <2>1. 0 \in Worker BY WorkerNumbers
  <2> QED BY <1>2, <1>4, <2>1
<1>6. Stages(p)'
  <2>1. \A u \in Worker : /\ u # 0 => worker'[p][u].pc \notin Preparing
                          /\ worker'[p][u].pc # "none"
                          /\ worker'[p][u].pc \in {"open_new", "copy"} => worker'[p][u].ofd = path
                          /\ worker'[p][u].pc = "copy" => worker'[p][u].nfd = secure
    <3> SUFFICES ASSUME NEW u \in Worker
                 PROVE  /\ u # 0 => worker'[p][u].pc \notin Preparing
                        /\ worker'[p][u].pc # "none"
                        /\ worker'[p][u].pc \in {"open_new", "copy"} => worker'[p][u].ofd = path
                        /\ worker'[p][u].pc = "copy" => worker'[p][u].nfd = secure
      OBVIOUS
    <3>1. CASE u = w BY <1>2, <3>1
    <3>2. CASE u # w BY <1>1, <1>2, <3>2 DEF Stages
    <3> QED BY <3>1, <3>2
  <2>2. Headed(data[secure])' BY <1>3 DEF Headed
  <2>3. At(p, "join")' BY <1>3 DEF At
  <2> QED BY <1>3, <1>5, <2>1, <2>2, <2>3 DEF Stages, At, Preparing
<1> QED BY <1>1, <1>2, <1>3, <1>6, ThreadStep

LEMMA SpinStep ==
  ASSUME Control, NEW p \in Process, NEW w \in Worker, spin(p, w)
  PROVE  Control'
<1>1. /\ At(p, "join") /\ worker[p][w].pc = "wait" /\ secure # None /\ Headed(data[secure])
      /\ worker' = [worker EXCEPT ![p][w].pc = "again"]
      /\ UNCHANGED <<disk, call, opens, stores, history>>
  BY DEF spin, WAt, WMove
<1>2. worker[p][w] \in Workers BY <1>1, AtStage
<1> DEFINE v == [worker[p][w] EXCEPT !.pc = "again"]
<1>3. v \in Workers /\ v.pc = "again" BY <1>2 DEF Workers, WorkerPlace
<1>4. worker' = [worker EXCEPT ![p][w] = v] BY <1>1
<1> HIDE DEF v
<1>5. worker[p][w].pc \notin Preparing /\ v.pc \notin Preparing \cup {"none"} BY <1>1, <1>3 DEF Preparing
<1> QED BY <1>1, <1>3, <1>4, <1>5, ThreadMoves

LEMMA LookStep ==
  ASSUME Control, NEW p \in Process, NEW w \in Worker, look_again(p, w)
  PROVE  Control' /\ secure # None
<1>1. /\ At(p, "join") /\ worker[p][w].pc = "again"
      /\ worker' = [worker EXCEPT ![p][w].pc = IF secure # None THEN "open_old" ELSE "path"]
      /\ UNCHANGED <<disk, call, opens, stores, history>>
  BY DEF look_again, WAt, WMove
<1>2. worker[p][w] \in Workers /\ secure # None /\ Headed(data[secure])
  BY <1>1, AtStage DEF Preparing
<1> DEFINE v == [worker[p][w] EXCEPT !.pc = "open_old"]
<1>3. v \in Workers /\ v.pc = "open_old" BY <1>2 DEF Workers, WorkerPlace
<1>4. worker' = [worker EXCEPT ![p][w] = v] BY <1>1, <1>2
<1> HIDE DEF v
<1>5. worker[p][w].pc \notin Preparing /\ v.pc \notin Preparing \cup {"none"} BY <1>1, <1>3 DEF Preparing
<1> QED BY <1>1, <1>2, <1>3, <1>4, <1>5, ThreadMoves

LEMMA OpenOldStep ==
  ASSUME Control, NEW p \in Process, NEW w \in Worker, open_old(p, w)
  PROVE  Control'
<1>1. /\ At(p, "join") /\ worker[p][w].pc = "open_old"
      /\ worker' = [worker EXCEPT ![p][w].pc = "open_new", ![p][w].ofd = path]
      /\ UNCHANGED <<disk, call, opens, stores, history>>
  BY DEF open_old, WAt
<1>2. worker[p][w] \in Workers /\ secure # None /\ Headed(data[secure]) /\ TypeOK
  BY <1>1, AtStage DEF Preparing
<1> DEFINE v == [worker[p][w] EXCEPT !.pc = "open_new", !.ofd = path]
<1>3. v \in Workers /\ v.pc = "open_new" /\ v.ofd = path
  BY <1>2, Typed DEF Workers, WorkerPlace
<1>4. worker' = [worker EXCEPT ![p][w] = v] BY <1>1, <1>2 DEF TypeOK
<1> HIDE DEF v
<1>5. worker[p][w].pc \notin Preparing /\ v.pc \notin Preparing \cup {"none"} BY <1>1, <1>3 DEF Preparing
<1> QED BY <1>1, <1>2, <1>3, <1>4, <1>5, ThreadMoves

LEMMA OpenNewStep ==
  ASSUME Control, NEW p \in Process, NEW w \in Worker, open_new(p, w)
  PROVE  Control' /\ secure # None
<1>1. /\ At(p, "join") /\ worker[p][w].pc = "open_new"
      /\ worker' = [worker EXCEPT ![p][w].pc = IF secure # None THEN "copy" ELSE "null",
                                  ![p][w].nfd = secure]
      /\ UNCHANGED <<disk, call, opens, stores, history>>
  BY DEF open_new, WAt
<1>2. worker[p][w] \in Workers /\ secure # None /\ Headed(data[secure]) /\ TypeOK /\ Stages(p)
  BY <1>1, AtStage DEF Preparing
<1> DEFINE v == [worker[p][w] EXCEPT !.pc = "copy", !.nfd = secure]
<1>3. v \in Workers /\ v.pc = "copy" /\ v.ofd = worker[p][w].ofd /\ v.nfd = secure
  BY <1>2, Typed DEF Workers, WorkerPlace
<1>4. worker' = [worker EXCEPT ![p][w] = v] BY <1>1, <1>2 DEF TypeOK
<1> HIDE DEF v
<1>5. worker[p][w].pc \notin Preparing /\ v.pc \notin Preparing \cup {"none"} BY <1>1, <1>3 DEF Preparing
<1>6. v.ofd = path BY <1>1, <1>2, <1>3 DEF Stages
<1> QED BY <1>1, <1>2, <1>3, <1>4, <1>5, <1>6, ThreadMoves

\* One file is written and no other.
LEMMA WriteOne ==
  ASSUME data \in Seq(Seq(PageSet)), NEW f \in 1..Len(data), NEW t \in Seq(PageSet)
  PROVE  /\ [data EXCEPT ![f] = t] \in Seq(Seq(PageSet)) /\ Len([data EXCEPT ![f] = t]) = Len(data)
         /\ [data EXCEPT ![f] = t][f] = t
         /\ \A g \in 1..Len(data) : g # f => [data EXCEPT ![f] = t][g] = data[g]
  BY ExceptSeq

\* Copying a page writes to the new file, behind the header.
LEMMA CopyForm ==
  ASSUME Control, NEW p \in Process, NEW w \in Worker, WAt(p, w, "copy")
  PROVE  LET me == worker[p][w]
             d == CopiedPage(me)
         IN  /\ me \in Workers /\ me.ofd = path /\ me.nfd = secure /\ Len(data[path]) \in Nat
             /\ d \in Seq(Seq(PageSet)) /\ Len(d) = Len(data) /\ Headed(d[secure])
             /\ \A g \in 1..Len(data) : g # secure => d[g] = data[g]
             /\ me.offset >= Len(data[path]) => d = data
             /\ me.offset < Len(data[path]) =>
                  /\ data[path][me.offset + 1] \in PageSet
                  /\ Once(data[path][me.offset + 1]) \in PageSet
                  /\ d[secure] = Put(data[secure], me.offset + 2, <<Once(data[path][me.offset + 1])>>)
<1> DEFINE me == worker[p][w]
           d == CopiedPage(me)
<1>0. me = worker[p][w] /\ d = CopiedPage(me) OBVIOUS
<1> HIDE DEF me, d
<1>1. At(p, "join") /\ me.pc = "copy" BY <1>0 DEF WAt
<1>2. /\ TypeOK /\ Stages(p) /\ path \in 1..Len(data) /\ secure # None
      /\ data \in Seq(Seq(PageSet)) /\ me \in Workers
      /\ secure \in 1..Len(data) /\ data[secure] \in Seq(PageSet) /\ Headed(data[secure])
  BY <1>0, <1>1, AtStage DEF Preparing
<1>3. me.ofd = path /\ me.nfd = secure BY <1>0, <1>1, <1>2 DEF Stages
<1>4. data[path] \in Seq(PageSet) /\ Len(data[path]) \in Nat BY <1>2, ElementOfSeq, LenProperties
<1>5. me.offset \in Nat BY <1>2 DEF Workers
<1>6. ASSUME me.offset >= Len(data[path]) PROVE d = data
  <2>1. ~ (me.offset < Len(data[path])) BY <1>4, <1>5, <1>6
  <2> QED BY <1>0, <1>3, <2>1 DEF CopiedPage
<1>7. ASSUME me.offset < Len(data[path])
      PROVE  /\ data[path][me.offset + 1] \in PageSet
             /\ Once(data[path][me.offset + 1]) \in PageSet
             /\ d[secure] = Put(data[secure], me.offset + 2,
                                <<Once(data[path][me.offset + 1])>>)
             /\ d \in Seq(Seq(PageSet)) /\ Len(d) = Len(data) /\ Headed(d[secure])
             /\ \A g \in 1..Len(data) : g # secure => d[g] = data[g]
  <2> DEFINE x == data[path][me.offset + 1]
             y == Once(x)
             t == Put(data[secure], me.offset + 2, <<y>>)
  <2>1. x \in PageSet
    <3>1. me.offset + 1 \in 1..Len(data[path]) BY <1>4, <1>5, <1>7
    <3> QED BY <1>4, <3>1, ElementOfSeq
  <2>2. y \in PageSet /\ Encrypted(<<x>>) = <<y>>
    <3> HIDE DEF x
    <3> QED BY <2>1, EncryptedOne DEF Once
  <2>3. d = [data EXCEPT ![secure] = Put(@, me.offset + 2, Encrypted(<<x>>))]
    BY <1>0, <1>3, <1>7 DEF CopiedPage
  <2>4. d = [data EXCEPT ![secure] = t] BY <2>2, <2>3
  <2> HIDE DEF x, y
  <2>5. t \in Seq(PageSet) /\ Headed(t)
    <3>1. me.offset + 2 \in Nat /\ me.offset + 2 >= 1 /\ me.offset + 2 >= 2 BY <1>5
    <3>2. t \in Seq(PageSet) BY <1>2, <2>2, <3>1, PutOne
    <3> QED BY <1>2, <2>2, <3>1, <3>2, HeadedKept
  <2> HIDE DEF t
  <2>6. /\ d \in Seq(Seq(PageSet)) /\ Len(d) = Len(data) /\ d[secure] = t
        /\ \A g \in 1..Len(data) : g # secure => d[g] = data[g]
    BY <1>2, <2>4, <2>5, WriteOne
  <2>7. d[secure] = Put(data[secure], me.offset + 2, <<y>>) BY <2>6 DEF t
  <2>8. Headed(d[secure]) BY <2>5, <2>6
  <2> QED BY <2>1, <2>2, <2>6, <2>7, <2>8 DEF x, y
<1>8. /\ d \in Seq(Seq(PageSet)) /\ Len(d) = Len(data) /\ Headed(d[secure])
      /\ \A g \in 1..Len(data) : g # secure => d[g] = data[g]
  <2>1. CASE me.offset >= Len(data[path])
    <3>1. d = data BY <1>6, <2>1
    <3> QED BY <1>2, <3>1
  <2>2. CASE me.offset < Len(data[path]) BY <1>7, <2>2
  <2>3. me.offset >= Len(data[path]) \/ me.offset < Len(data[path]) BY <1>4, <1>5
  <2> QED BY <2>1, <2>2, <2>3
<1>9. me.offset < Len(data[path]) =>
        /\ data[path][me.offset + 1] \in PageSet
        /\ Once(data[path][me.offset + 1]) \in PageSet
        /\ d[secure] = Put(data[secure], me.offset + 2, <<Once(data[path][me.offset + 1])>>)
  BY <1>7
<1> QED BY <1>2, <1>3, <1>4, <1>6, <1>8, <1>9 DEF me, d

\* A copying thread goes on or ends.
LEMMA CopyMoves ==
  ASSUME Control, NEW p \in Process, NEW w \in Worker, WAt(p, w, "copy"), NEW v \in Workers,
         UNCHANGED <<path, secure, call, stores, history>>,
         worker' = [worker EXCEPT ![p][w] = v],
         v.pc \in {"copy", "null", "path"}, v.pc = "copy" => v.ofd = worker[p][w].ofd /\ v.nfd = worker[p][w].nfd,
         data' = data \/ data' = CopiedPage(worker[p][w])
  PROVE  /\ Control' /\ worker'[p][w] = v /\ \A u \in Worker : u # w => worker'[p][u] = worker[p][u]
         /\ \A q \in Others(p) : worker'[q] = worker[q]
<1>1. At(p, "join") /\ worker[p][w].pc = "copy" BY DEF WAt
<1>2. /\ TypeOK /\ Stages(p) /\ path \in 1..Len(data) /\ secure # None /\ secure # path
      /\ data \in Seq(Seq(PageSet)) /\ worker[p][0].pc \notin Preparing
      /\ Headed(data[secure])
  BY <1>1, AtStage DEF Preparing
<1>3. /\ worker[p][w].ofd = path /\ worker[p][w].nfd = secure
      /\ data' \in Seq(Seq(PageSet)) /\ Len(data') = Len(data) /\ Headed(data'[secure])
      /\ data'[path] = data[path]
  <2> DEFINE me == worker[p][w]
             d == CopiedPage(me)
  <2>1. /\ me.ofd = path /\ me.nfd = secure
        /\ d \in Seq(Seq(PageSet)) /\ Len(d) = Len(data) /\ Headed(d[secure])
        /\ \A g \in 1..Len(data) : g # secure => d[g] = data[g]
    BY CopyForm
  <2>2. me = worker[p][w] /\ (data' = data \/ data' = d) OBVIOUS
  <2> HIDE DEF me, d
  <2>3. path \in 1..Len(data) /\ path # secure BY <1>2
  <2>4. CASE data' = data BY <1>2, <2>1, <2>2, <2>4
  <2>5. CASE data' = d BY <2>1, <2>2, <2>3, <2>5
  <2> QED BY <2>2, <2>4, <2>5
<1>4. /\ worker' \in [Process -> [Worker -> Workers]]
      /\ worker'[p][w] = v /\ \A u \in Worker : u # w => worker'[p][u] = worker[p][u]
      /\ \A q \in Others(p) : worker'[q] = worker[q]
  BY <1>2, WorkerMoves
<1>5. path' = path /\ secure' = secure /\ call' = call OBVIOUS
<1>6. worker'[p][0].pc \notin Preparing
  <2>1. 0 \in Worker BY WorkerNumbers
  <2> QED BY <1>2, <1>4, <2>1 DEF Preparing
<1>7. Stages(p)'
  <2>1. ASSUME NEW u \in Worker
        PROVE  /\ u # 0 => worker'[p][u].pc \notin Preparing
               /\ worker'[p][u].pc # "none"
               /\ worker'[p][u].pc \in {"open_new", "copy"} => worker'[p][u].ofd = path
               /\ worker'[p][u].pc = "copy" => worker'[p][u].nfd = secure
    <3>1. CASE u = w BY <1>3, <1>4, <3>1 DEF Preparing
    <3>2. CASE u # w BY <1>1, <1>2, <1>4, <3>2 DEF Stages
    <3> QED BY <3>1, <3>2
  <2>2. Headed(data[secure])' BY <1>3, <1>5 DEF Headed
  <2>3. At(p, "join")' BY <1>1, <1>5 DEF At
  <2> QED BY <1>2, <1>5, <1>6, <2>1, <2>2, <2>3 DEF Stages, At, Preparing
<1>8. Control' BY <1>1, <1>3, <1>4, <1>7, ThreadStep
<1> QED BY <1>4, <1>8

LEMMA CopyPageStep ==
  ASSUME Control, NEW p \in Process, NEW w \in Worker, copy_page(p, w)
  PROVE  Control'
<1>1. /\ WAt(p, w, "copy") /\ data' = CopiedPage(worker[p][w])
      /\ UNCHANGED <<path, secure, call, opens, stores, history>>
  BY DEF copy_page
<1> DEFINE me == worker[p][w]
           o == IF me.offset < Len(data[me.ofd]) THEN me.offset + 1 ELSE me.offset
           v == [me EXCEPT !.bsize = me.bsize - 1, !.offset = o]
<1>2. TypeOK /\ me \in Workers BY <1>1, AtStage DEF WAt
<1>3. worker' = [worker EXCEPT ![p][w] = v] BY DEF copy_page
<1>4. o \in Nat BY <1>2 DEF Workers
<1> HIDE DEF o
<1>5. /\ v \in Workers /\ v.pc = me.pc /\ v.ofd = me.ofd /\ v.nfd = me.nfd
  <2> DEFINE b == me.bsize - 1
  <2>1. b \in Int BY <1>2 DEF Workers
  <2> HIDE DEF b
  <2>2. /\ [me EXCEPT !.bsize = b, !.offset = o] \in Workers
        /\ [me EXCEPT !.bsize = b, !.offset = o].pc = me.pc
        /\ [me EXCEPT !.bsize = b, !.offset = o].ofd = me.ofd
        /\ [me EXCEPT !.bsize = b, !.offset = o].nfd = me.nfd
    <3> HIDE DEF me
    <3> QED BY <1>2, <1>4, <2>1 DEF Workers
  <2> QED BY <2>2 DEF b
<1>6. me.pc = "copy" BY <1>1 DEF WAt
<1> HIDE DEF v
<1> QED BY <1>1, <1>3, <1>5, <1>6, CopyMoves

LEMMA CopyRestStep ==
  ASSUME Control, NEW p \in Process, NEW w \in Worker, copy_rest(p, w)
  PROVE  Control'
<1> DEFINE place == IF w = Last THEN "path" ELSE "null"
           v == [worker[p][w] EXCEPT !.pc = place]
<1>1. /\ WAt(p, w, "copy") /\ (data' = data \/ data' = CopiedPage(worker[p][w]))
      /\ UNCHANGED <<path, secure, call, opens, stores, history>>
      /\ worker' = [worker EXCEPT ![p][w].pc = place]
  BY DEF copy_rest, WMove
<1>2. worker[p][w] \in Workers
  <2>1. At(p, "join") BY <1>1 DEF WAt
  <2> QED BY <2>1, AtStage
<1>3. place \in {"null", "path"} OBVIOUS
<1> HIDE DEF place
<1>4. v \in Workers /\ v.pc = place BY <1>2, <1>3 DEF Workers, WorkerPlace
<1>5. worker' = [worker EXCEPT ![p][w] = v] BY <1>1
<1>6. v.pc \in {"copy", "null", "path"} /\ v.pc # "copy" BY <1>3, <1>4
<1> HIDE DEF v
<1>7. /\ WAt(p, w, "copy") /\ (data' = data \/ data' = CopiedPage(worker[p][w]))
      /\ UNCHANGED <<path, secure, call, stores, history>> /\ v \in Workers
  BY <1>1, <1>4
<1> QED BY <1>5, <1>6, <1>7, CopyMoves

\* The first thread goes from one stage to the next.
LEMMA Prepared ==
  ASSUME Control, NEW p \in Process, At(p, "join"), worker[p][0].pc \in Preparing,
         NEW v \in Workers, worker' = [worker EXCEPT ![p][0] = v], call' = call,
         v.pc \in {"create", "size", "header", "wait"},
         v.pc = "create" => secure' = None,
         v.pc \in {"size", "header"} => secure' # None /\ v.nfd = secure' /\ ~ Headed(data'[secure']),
         v.pc = "size" => data'[secure'] = <<>>,
         v.pc = "wait" => secure' # None /\ Headed(data'[secure'])
  PROVE  /\ Stages(p)' /\ worker' \in [Process -> [Worker -> Workers]]
         /\ worker'[p][0] = v /\ \A u \in Worker : u # 0 => worker'[p][u] = worker[p][u]
         /\ \A q \in Others(p) : worker'[q] = worker[q]
<1>1. 0 \in Worker BY WorkerNumbers
<1>2. TypeOK /\ Stages(p) BY <1>1, AtStage
<1>3. /\ worker' \in [Process -> [Worker -> Workers]]
      /\ worker'[p][0] = v /\ \A u \in Worker : u # 0 => worker'[p][u] = worker[p][u]
      /\ \A q \in Others(p) : worker'[q] = worker[q]
  BY <1>1, <1>2, WorkerMoves
<1>4. \A u \in Worker : u # 0 => worker'[p][u].pc = "wait"
  BY <1>2, <1>3 DEF Stages
<1>5. worker'[p][0].pc = v.pc /\ worker'[p][0].nfd = v.nfd /\ v.pc # "remove" BY <1>3
<1>6. At(p, "join")' BY DEF At
<1>7. \A w \in Worker : /\ w # 0 => worker'[p][w].pc \notin Preparing
                        /\ worker'[p][w].pc \notin {"none", "open_new", "copy"}
  <2>1. ASSUME NEW w \in Worker
        PROVE  (w # 0 => worker'[p][w].pc \notin Preparing)
               /\ worker'[p][w].pc \notin {"none", "open_new", "copy"}
    <3>1. CASE w = 0 BY <1>5, <3>1
    <3>2. CASE w # 0 BY <1>4, <3>2 DEF Preparing
    <3> QED BY <3>1, <3>2
  <2> QED BY <2>1
<1>8. v.pc \notin Preparing => v.pc = "wait" BY DEF Preparing
<1>9. Stages(p)'
  <2> SUFFICES /\ worker'[p][0].pc \in {"remove", "create"} => secure' = None
               /\ worker'[p][0].pc \in {"size", "header"} =>
                    secure' # None /\ worker'[p][0].nfd = secure' /\ ~ Headed(data'[secure'])
               /\ worker'[p][0].pc = "size" => data'[secure'] = <<>>
               /\ worker'[p][0].pc \notin Preparing => secure' # None /\ Headed(data'[secure'])
    BY <1>4, <1>6, <1>7 DEF Stages, Headed, At, Preparing
  <2> QED BY <1>5, <1>8
<1> QED BY <1>3, <1>9

LEMMA RemoveStep ==
  ASSUME Control, NEW p \in Process, secure_remove(p)
  PROVE  Control'
<1>1. /\ At(p, "join") /\ worker[p][0].pc = "remove" /\ secure' = None
      /\ worker' = [worker EXCEPT ![p][0].pc = "create"]
      /\ UNCHANGED <<data, path, call, opens, stores, history>>
  BY DEF secure_remove, WAt, WMove
<1>2. 0 \in Worker BY WorkerNumbers
<1>3. /\ TypeOK /\ Stages(p) /\ path # None /\ data \in Seq(Seq(PageSet)) /\ worker[p][0] \in Workers
  BY <1>1, <1>2, AtStage
<1>4. secure = None BY <1>1, <1>3 DEF Stages
<1> DEFINE v == [worker[p][0] EXCEPT !.pc = "create"]
<1>5. v \in Workers /\ v.pc = "create" BY <1>3 DEF Workers, WorkerPlace
<1>6. worker' = [worker EXCEPT ![p][0] = v] BY <1>1
<1>7. worker[p][0].pc \in Preparing BY <1>1 DEF Preparing
<1> HIDE DEF v
<1>8. /\ Stages(p)' /\ worker' \in [Process -> [Worker -> Workers]]
      /\ \A q \in Others(p) : worker'[q] = worker[q]
  <2>1. call' = call BY <1>1
  <2> QED BY <1>1, <1>5, <1>6, <1>7, <2>1, Prepared
<1>9. UNCHANGED <<path, secure, call, stores, history>> /\ data' = data BY <1>1, <1>4
<1> QED BY <1>1, <1>3, <1>8, <1>9, ThreadStep

\* The new file gets its size.
LEMMA GrowForm ==
  ASSUME NEW n \in Nat, n >= 1
  PROVE  LET t == [k \in 1..n |-> Hole]
         IN  t \in Seq(PageSet) /\ Len(t) = n /\ ~ Headed(t)
<1> DEFINE t == [k \in 1..n |-> Hole]
<1>1. t \in [1..n -> PageSet] BY PageTypes
<1>2. t[1] = Hole OBVIOUS
<1>3. t \in Seq(PageSet) /\ Len(t) = n BY <1>1, MakeSeq, Zenon
<1> HIDE DEF t
<1>4. ~ Headed(t) BY <1>2, PageTypes DEF Headed
<1> QED BY <1>3, <1>4 DEF t

LEMMA SecureSizeStep ==
  ASSUME Control, NEW p \in Process, secure_size(p)
  PROVE  /\ Control' /\ data'[secure] = [k \in 1..(call[p].size + 1) |-> Hole]
         /\ data'[path] = data[path] /\ Len(data'[secure]) = call[p].size + 1
<1>1. /\ At(p, "join") /\ worker[p][0].pc = "size"
      /\ worker' = [worker EXCEPT ![p][0].pc = "header"]
      /\ UNCHANGED <<path, secure, call, opens, stores, history>>
  BY DEF secure_size, WAt, WMove
<1>2. 0 \in Worker BY WorkerNumbers
<1>3. /\ TypeOK /\ Stages(p) /\ path \in 1..Len(data) /\ data \in Seq(Seq(PageSet))
      /\ worker[p][0] \in Workers
      /\ (secure # None => secure # path /\ secure \in 1..Len(data) /\ data[secure] \in Seq(PageSet))
  BY <1>1, <1>2, AtStage
<1>4. /\ secure # None /\ worker[p][0].nfd = secure /\ data[secure] = <<>>
      /\ secure # path /\ secure \in 1..Len(data)
  BY <1>1, <1>3 DEF Stages
<1> DEFINE n == call[p].size + 1
           t == [k \in 1..n |-> Hole]
<1>5. n \in Nat /\ n >= 1
  <2>1. call[p].size \in Nat BY <1>3, Typed DEF Calls
  <2> QED BY <2>1
<1>6. n = call[p].size + 1 OBVIOUS
<1>7. data' = [data EXCEPT ![secure] = t]
  <2>1. data' = [data EXCEPT ![secure] = [k \in 1..n |-> IF k <= Len(data[secure]) THEN data[secure][k] ELSE Hole]]
    BY <1>4 DEF secure_size
  <2>2. \A k \in 1..n : ~ (k <= Len(data[secure])) BY <1>4
  <2> QED BY <2>1, <2>2
<1> HIDE DEF n
<1>8. t \in Seq(PageSet) /\ Len(t) = n /\ ~ Headed(t) BY <1>5, GrowForm, Zenon
<1>9. t = [k \in 1..n |-> Hole] OBVIOUS
<1> HIDE DEF t
<1>10. /\ data' \in Seq(Seq(PageSet)) /\ Len(data') = Len(data) /\ data'[secure] = t
       /\ data'[path] = data[path]
  BY <1>3, <1>4, <1>7, <1>8, WriteOne
<1> DEFINE v == [worker[p][0] EXCEPT !.pc = "header"]
<1>11. v \in Workers /\ v.pc = "header" /\ v.nfd = secure BY <1>3, <1>4 DEF Workers, WorkerPlace
<1>12. worker' = [worker EXCEPT ![p][0] = v] BY <1>1
<1>13. worker[p][0].pc \in Preparing BY <1>1 DEF Preparing
<1> HIDE DEF v
<1>14. /\ Stages(p)' /\ worker' \in [Process -> [Worker -> Workers]]
       /\ \A q \in Others(p) : worker'[q] = worker[q]
  <2>1. call' = call /\ secure' = secure BY <1>1
  <2>2. ~ Headed(data'[secure']) BY <1>8, <1>10, <2>1
  <2> QED BY <1>1, <1>4, <1>11, <1>12, <1>13, <2>1, <2>2, Prepared
<1>15. Control' BY <1>1, <1>3, <1>10, <1>14, ThreadStep
<1> QED BY <1>6, <1>8, <1>9, <1>10, <1>15

LEMMA SecureHeaderStep ==
  ASSUME Control, NEW p \in Process, secure_header(p)
  PROVE  /\ Control' /\ secure # None /\ data'[secure] = Put(data[secure], 1, <<Header>>)
         /\ data'[path] = data[path] /\ data[secure] \in Seq(PageSet)
<1>1. /\ At(p, "join") /\ worker[p][0].pc = "header"
      /\ worker' = [worker EXCEPT ![p][0].pc = "wait"]
      /\ UNCHANGED <<path, secure, call, opens, stores, history>>
  BY DEF secure_header, WAt, WMove
<1>2. 0 \in Worker BY WorkerNumbers
<1>3. /\ TypeOK /\ Stages(p) /\ path \in 1..Len(data) /\ data \in Seq(Seq(PageSet))
      /\ worker[p][0] \in Workers
      /\ (secure # None => secure # path /\ secure \in 1..Len(data) /\ data[secure] \in Seq(PageSet))
  BY <1>1, <1>2, AtStage
<1>4. /\ secure # None /\ worker[p][0].nfd = secure /\ data[secure] \in Seq(PageSet)
      /\ secure # path /\ secure \in 1..Len(data)
  BY <1>1, <1>3 DEF Stages
<1> DEFINE t == Put(data[secure], 1, <<Header>>)
<1>5. data' = [data EXCEPT ![secure] = t] BY <1>4 DEF secure_header
<1>6. t \in Seq(PageSet) /\ Headed(t)
  <2> 1 \in Nat /\ 1 >= 1 OBVIOUS
  <2> QED BY <1>4, PageTypes, PutOne, HeadedKept, Zenon
<1>7. t = Put(data[secure], 1, <<Header>>) OBVIOUS
<1> HIDE DEF t
<1>8. /\ data' \in Seq(Seq(PageSet)) /\ Len(data') = Len(data) /\ data'[secure] = t
      /\ data'[path] = data[path]
  BY <1>3, <1>4, <1>5, <1>6, WriteOne, SMTT(30)
<1> DEFINE v == [worker[p][0] EXCEPT !.pc = "wait"]
<1>9. v \in Workers /\ v.pc = "wait" BY <1>3 DEF Workers, WorkerPlace
<1>10. worker' = [worker EXCEPT ![p][0] = v] BY <1>1
<1>11. worker[p][0].pc \in Preparing BY <1>1 DEF Preparing
<1> HIDE DEF v
<1>12. /\ Stages(p)' /\ worker' \in [Process -> [Worker -> Workers]]
       /\ \A q \in Others(p) : worker'[q] = worker[q]
  <2>1. call' = call /\ secure' = secure BY <1>1
  <2>2. Headed(data'[secure']) BY <1>6, <1>8, <2>1
  <2> QED BY <1>1, <1>4, <1>9, <1>10, <1>11, <2>1, <2>2, Prepared
<1>13. Control' BY <1>1, <1>3, <1>8, <1>12, ThreadStep
<1> QED BY <1>4, <1>7, <1>8, <1>13

\* The new file is one nobody has a descriptor of.
LEMMA SecureCreateStep ==
  ASSUME Control, NEW p \in Process, secure_create(p)
  PROVE  Control' /\ data'[path] = data[path]
<1>1. /\ At(p, "join") /\ worker[p][0].pc = "create"
      /\ UNCHANGED <<path, call, opens, stores, history>>
  BY DEF secure_create, WAt
<1>2. 0 \in Worker /\ Rebuilding(p) BY <1>1, WorkerNumbers DEF Rebuilding, At
<1>3. /\ TypeOK /\ Stages(p) /\ path # None /\ path \in 1..Len(data) /\ ~ Sealed
      /\ data \in Seq(Seq(PageSet)) /\ worker[p][0] \in Workers /\ SecureAside
  BY <1>1, <1>2, AtStage, InRebuild
<1>4. secure = None BY <1>1, <1>3 DEF Stages
<1>5. /\ data' = Append(data, <<>>) /\ secure' = Len(data')
      /\ worker' = [worker EXCEPT ![p][0].pc = "size", ![p][0].nfd = secure']
  BY <1>4 DEF secure_create
<1>6. <<>> \in Seq(PageSet) OBVIOUS
<1>7. /\ data' \in Seq(Seq(PageSet)) /\ Len(data') = Len(data) + 1 /\ Len(data) \in Nat
      /\ data'[Len(data) + 1] = <<>> /\ \A i \in 1..Len(data) : data'[i] = data[i]
  BY <1>3, <1>5, <1>6, AppendProperties, LenProperties
<1>8. secure' = Len(data) + 1 /\ data'[secure'] = <<>> /\ secure' # None /\ secure' # path
  BY <1>3, <1>5, <1>7 DEF None
<1>9. path' = path /\ call' = call /\ late' = late /\ unrenamed' = unrenamed /\ data'[path] = data[path]
  BY <1>1, <1>3, <1>7 DEF history
<1> DEFINE v == [worker[p][0] EXCEPT !.pc = "size", !.nfd = secure']
<1>10. v \in Workers /\ v.pc = "size" /\ v.nfd = secure'
  <2> DEFINE n == secure'
             me == worker[p][0]
  <2>1. n \in Nat /\ me \in Workers BY <1>3, <1>7, <1>8
  <2> HIDE DEF n, me
  <2>2. /\ [me EXCEPT !.pc = "size", !.nfd = n] \in Workers
        /\ [me EXCEPT !.pc = "size", !.nfd = n].pc = "size"
        /\ [me EXCEPT !.pc = "size", !.nfd = n].nfd = n
    BY <2>1 DEF Workers, WorkerPlace
  <2> QED BY <2>2 DEF n, me
<1>11. worker' = [worker EXCEPT ![p][0] = v] BY <1>2, <1>3, <1>5 DEF TypeOK
<1>12. worker[p][0].pc \in Preparing BY <1>1 DEF Preparing
<1> HIDE DEF v
<1>13. /\ Stages(p)' /\ worker' \in [Process -> [Worker -> Workers]]
       /\ \A q \in Others(p) : worker'[q] = worker[q]
  <2>1. ~ Headed(data'[secure']) BY <1>8 DEF Headed
  <2> QED BY <1>1, <1>8, <1>9, <1>10, <1>11, <1>12, <2>1, Prepared
<1>14. Sealed' <=> Sealed BY <1>9 DEF Sealed, Headed
<1>15. \A q \in Process : call'[q].fd \in Nat /\ call'[q].fd <= Len(data)
  BY <1>3, <1>9, Typed
<1>16. TypeOK'
  <2>1. /\ path' \in Nat /\ path' <= Len(data') /\ secure' \in Nat /\ secure' <= Len(data')
        /\ \A q \in Process : call'[q].fd <= Len(data')
    <3>1. path' \in Nat /\ path' <= Len(data) BY <1>3, <1>7, <1>9
    <3>2. secure' = Len(data) + 1 /\ Len(data') = Len(data) + 1 /\ Len(data) \in Nat BY <1>7, <1>8
    <3>3. path' <= Len(data') /\ secure' \in Nat /\ secure' <= Len(data') BY <3>1, <3>2
    <3>4. ASSUME NEW q \in Process PROVE call'[q].fd <= Len(data') BY <1>15, <3>2
    <3> QED BY <3>1, <3>3, <3>4
  <2>2. path' \in Inode' /\ secure' \in Inode'
    <3> Len(data') \in Nat BY <1>7
    <3> QED BY <2>1 DEF Inode
  <2>3. /\ text' \in Seq(PageSet) /\ stores' \in Nat /\ call' \in [Process -> Calls]
        /\ late' \in [Process -> BOOLEAN] /\ unrenamed' \in [Process -> BOOLEAN]
        /\ strayed' \in BOOLEAN /\ clash' \in BOOLEAN
    BY <1>1, <1>3 DEF TypeOK, history
  <2> QED BY <1>7, <1>13, <2>1, <2>2, <2>3 DEF TypeOK
<1>17. NoFileYet' BY <1>3, <1>9 DEF NoFileYet
<1>18. SecureAside'
  <2>1. \A q \in Process : call'[q].fd # secure' BY <1>7, <1>8, <1>15
  <2>2. \A q \in Process : ~ Creating(q)'
    <3>1. \A q \in Process : ~ Creating(q) BY <1>2, WhileRebuilding
    <3> QED BY <1>9, <3>1 DEF Creating, At
  <2> QED BY <1>3, <1>8, <1>9, <1>14, <2>1, <2>2 DEF SecureAside
<1>19. ASSUME NEW q \in Process PROVE OwnControl(q)'
  <2> HIDE DEF Sealed
  <2>1. OwnControl(q) BY DEF Control, OwnControl
  <2>2. CallKnows(q)' /\ HasFile(q)' /\ LateFile(q)'
    BY <1>3, <1>8, <1>9, <1>14, <2>1 DEF OwnControl, CallKnows, HasFile, LateFile, Found, Holding, Done, At
  <2>3. RecordedHeaded(q)'
    <3>1. ~ (unrenamed[q] /\ ~ At(q, "idle")) BY <1>4, <2>1 DEF OwnControl, RecordedHeaded
    <3> QED BY <1>9, <1>14, <2>1, <3>1 DEF OwnControl, RecordedHeaded, Done, At
  <2>4. Alone(q)'
    BY <1>9, <1>14, <2>1 DEF OwnControl, Alone, Rebuilding, Creating, Done, At, Others
  <2>5. Stages(q)'
    <3>1. CASE q = p BY <1>13, <3>1
    <3>2. CASE q # p
      <4>1. ~ Rebuilding(q) BY <1>2, <3>2, WhileRebuilding
      <4> QED BY <1>9, <4>1 DEF Stages, Rebuilding, At
    <3> QED BY <3>1, <3>2
  <2> QED BY <2>2, <2>3, <2>4, <2>5 DEF OwnControl
<1> QED BY <1>9, <1>16, <1>17, <1>18, <1>19 DEF Control, OwnControl

\* A second page does not make a header of the first.
LEMMA PutSecond ==
  ASSUME NEW s \in Seq(PageSet), ~ Headed(s), NEW x \in PageSet
  PROVE  LET t == Put(s, 2, <<x>>) IN t \in Seq(PageSet) /\ ~ Headed(t)
<1> DEFINE new == <<x>>
           t == Put(s, 2, new)
<1>1. Len(s) \in Nat /\ new \in Seq(PageSet) /\ Len(new) = 1 BY LenProperties
<1> HIDE DEF new
<1>2. /\ t \in Seq(PageSet)
      /\ \A k \in 1..Longer(2 + Len(new) - 1, Len(s)) :
           t[k] = IF k \in 2..(2 + Len(new) - 1) THEN new[k - 2 + 1]
                  ELSE IF k <= Len(s) THEN s[k] ELSE Hole
  <2> 2 \in Nat /\ 2 >= 1 OBVIOUS
  <2> QED BY <1>1, PutForm, Zenon
<1> HIDE DEF t
<1>3. t[1] = IF 1 <= Len(s) THEN s[1] ELSE Hole
  <2>1. 1 \in 1..Longer(2 + Len(new) - 1, Len(s)) BY <1>1 DEF Longer
  <2>2. ~ (1 \in 2..(2 + Len(new) - 1)) OBVIOUS
  <2> QED BY <1>2, <2>1, <2>2
<1>4. ~ Headed(t)
  <2>1. CASE 1 <= Len(s)
    <3>1. s # <<>> BY <2>1
    <3> QED BY <1>3, <2>1, <3>1 DEF Headed
  <2>2. CASE ~ (1 <= Len(s)) BY <1>3, <2>2, PageTypes DEF Headed
  <2> QED BY <2>1, <2>2
<1> QED BY <1>2, <1>4 DEF t, new

\* The file a caller writes to, and that nobody is rebuilding it unseen.
Written(p) ==
  Put(data[call[p].fd], IF call[p].recorded THEN 2 ELSE 1, Encrypted(<<Page(Stored + stores)>>))

\* A page that is encrypted is no header.
LEMMA CipherPage ==
  ASSUME NEW k \in Int
  PROVE  Page(k) \in PageSet /\ [Page(k) EXCEPT !.enc = @ + 1] # Header
<1>1. Page(k) \in PageSet /\ Page(k).enc = 0 /\ Header.enc = 0 /\ 1 \in Int
  BY PageTypes DEF Page, Header
<1> DEFINE x == Page(k)
<1> HIDE DEF x
<1>2. [x EXCEPT !.enc = @ + 1].enc = x.enc + 1 BY <1>1, LayerOfPage DEF x
<1>3. [x EXCEPT !.enc = @ + 1].enc # Header.enc BY <1>1, <1>2 DEF x
<1> QED BY <1>1, <1>3 DEF x

LEMMA WrittenForm ==
  ASSUME Control, PlainFiles, NEW p \in Process, Done(p)
  PROVE  /\ call[p].fd \in 1..Len(data) /\ data[call[p].fd] \in Seq(PageSet)
         /\ Page(Stored + stores) \in PageSet
         /\ Encrypted(<<Page(Stored + stores)>>) \in Seq(PageSet)
         /\ Written(p) \in Seq(PageSet) /\ (Headed(Written(p)) <=> Headed(data[call[p].fd]))
<1>1. TypeOK /\ CallKnows(p) BY DEF Control
<1>2. call[p].fd \in 1..Len(data) /\ data[call[p].fd] \in Seq(PageSet)
  BY <1>1, Typed DEF CallKnows, Holding, Done, At
<1> DEFINE s == data[call[p].fd]
           x == Page(Stored + stores)
           y == [x EXCEPT !.enc = @ + 1]
<1>3. x \in PageSet /\ y # Header
  <2>1. Stored + stores \in Int BY <1>1 DEF TypeOK, Stored
  <2> QED BY <2>1, CipherPage
<1>4. y \in PageSet /\ Encrypted(<<x>>) = <<y>>
  <2> HIDE DEF x
  <2> QED BY <1>3, EncryptedOne
<1>5. Written(p) = Put(s, IF call[p].recorded THEN 2 ELSE 1, <<y>>) BY <1>4 DEF Written
<1>6. ~ call[p].recorded => ~ Headed(s) BY DEF PlainFiles, PlainCaller
<1>7. s \in Seq(PageSet) BY <1>2
<1> HIDE DEF s, x, y
<1>8. Put(s, 2, <<y>>) \in Seq(PageSet) /\ (Headed(Put(s, 2, <<y>>)) <=> Headed(s))
  <2>1. 2 \in Nat /\ 2 >= 1 /\ 2 >= 2 OBVIOUS
  <2>2. Put(s, 2, <<y>>) \in Seq(PageSet) BY <1>4, <1>7, <2>1, PutOne, Zenon
  <2>3. Headed(s) => Headed(Put(s, 2, <<y>>)) BY <1>4, <1>7, <2>1, HeadedKept, Zenon
  <2>4. ~ Headed(s) => ~ Headed(Put(s, 2, <<y>>)) BY <1>4, <1>7, PutSecond, Zenon
  <2> QED BY <2>2, <2>3, <2>4
<1>9. Put(s, 1, <<y>>) \in Seq(PageSet) /\ ~ Headed(Put(s, 1, <<y>>))
  <2>1. 1 \in Nat /\ 1 >= 1 OBVIOUS
  <2>2. Put(s, 1, <<y>>) \in Seq(PageSet) BY <1>4, <1>7, <2>1, PutOne, Zenon
  <2> QED BY <1>3, <1>4, <1>7, <2>2, HeadedKept, Zenon
<1>10. Written(p) \in Seq(PageSet) /\ (Headed(Written(p)) <=> Headed(s))
  BY <1>5, <1>6, <1>8, <1>9
<1>11. Encrypted(<<x>>) \in Seq(PageSet)
  <2>1. <<y>> \in Seq(PageSet) BY <1>4
  <2> QED BY <1>4, <2>1
<1>12. x \in PageSet BY <1>3
<1> QED BY <1>2, <1>10, <1>11, <1>12, Zenon DEF s, x

LEMMA StoreStep ==
  ASSUME Control, PlainFiles, NEW p \in Process, Store(p)
  PROVE  /\ Control' /\ call' = call /\ Len(data') = Len(data)
         /\ data'[call[p].fd] = Written(p)
         /\ Headed(data'[call[p].fd]) <=> Headed(data[call[p].fd])
         /\ \A g \in 1..Len(data) : g # call[p].fd => data'[g] = data[g]
<1>0. TypeOK /\ OwnControl(p) /\ SecureAside BY DEF Control, OwnControl
<1> DEFINE f == call[p].fd
           t == Written(p)
           x == Page(Stored + stores)
           new == IF call[p].recorded THEN <<x>> ELSE Encrypted(<<x>>)
<1>1. /\ Done(p) /\ stores' = stores + 1 /\ text' = Put(text, 1, new)
      /\ strayed' \in BOOLEAN
      /\ UNCHANGED <<path, secure, call, worker, opens, late, unrenamed, clash>>
  BY DEF Store
<1>2. data' = [data EXCEPT ![f] = t] BY DEF Store, Written
<1>3. /\ f \in 1..Len(data) /\ t \in Seq(PageSet) /\ (Headed(t) <=> Headed(data[f]))
      /\ x \in PageSet /\ Encrypted(<<x>>) \in Seq(PageSet)
  BY <1>1, WrittenForm
<1>4. text' \in Seq(PageSet)
  <2>1. text \in Seq(PageSet) /\ 1 \in Nat /\ 1 >= 1 BY <1>0 DEF TypeOK
  <2>2. new \in Seq(PageSet)
    <3> HIDE DEF x
    <3> QED BY <1>3
  <2> HIDE DEF new
  <2> QED BY <1>1, <2>1, <2>2, PutForm, Zenon
<1>5. f = call[p].fd OBVIOUS
<1> DEFINE c == call[p]
<1>6. c = call[p] /\ c \in Calls /\ c.fd <= Len(data) BY <1>0, Typed
<1>7. call' = [call EXCEPT ![p] = c] BY <1>0, <1>1 DEF TypeOK
<1>8. path # None BY <1>0, <1>1 DEF OwnControl, CallKnows, Found, Done, At
<1> HIDE DEF f, t, x, new, c
<1>9. /\ TypeOK' /\ NoFileYet' /\ Len(data') = Len(data) /\ data'[f] = t
      /\ \A g \in 1..Len(data) : g # f => data'[g] = data[g]
      /\ path \in 1..Len(data)
  <2>1. Unmoved(p)
    <3>1. stores' \in Nat BY <1>0, <1>1 DEF TypeOK
    <3> QED BY <1>0, <1>1, <1>4, <1>8, <3>1 DEF TypeOK, Unmoved
  <2> QED BY <1>2, <1>3, <1>6, <1>7, <2>1, FileStep, ZenonT(40)
<1>10. Sealed' <=> Sealed
  <2>1. Headed(data'[path]) <=> Headed(data[path])
    <3>1. CASE f = path BY <1>3, <1>9, <3>1
    <3>2. CASE f # path
      <4>1. data'[path] = data[path] BY <1>9, <3>2
      <4> QED BY <4>1
    <3> QED BY <3>1, <3>2
  <2> QED BY <1>1, <2>1 DEF Sealed, Headed
<1>11. Quiet(p)
  <2>1. secure # None => data'[secure] = data[secure]
    <3>1. secure # None => f # secure /\ secure \in 1..Len(data)
      BY <1>0, <1>5, Typed DEF SecureAside
    <3> QED BY <1>9, <3>1
  <2>2. ASSUME NEW q \in Others(p) PROVE call[q].pc \notin {"small_open", "small_read"}
    <3> SUFFICES ASSUME call[q].pc \in {"small_open", "small_read"} PROVE FALSE OBVIOUS
    <3>1. Rebuilding(q) /\ q \in Process /\ q # p BY <2>2 DEF Rebuilding, Others
    <3>2. late[p] /\ ~ Sealed BY <1>1, <3>1, WhileRebuilding
    <3>3. secure # None BY <1>0, <1>1, <3>2 DEF OwnControl, LateFile
    <3>4. secure = None
      <4>1. Stages(q) BY <3>1 DEF Control
      <4> QED BY <4>1 DEF Stages
    <3> QED BY <3>3, <3>4
  <2> HIDE DEF Sealed
  <2> QED BY <1>1, <1>10, <2>1, <2>2 DEF Quiet
<1>12. Orderly(p)
  <2>1. secure # None => call'[p].fd # secure BY <1>0, <1>1 DEF SecureAside
  <2>2. late'[p] \/ \A q \in Others(p) : ~ Rebuilding(q)
    BY <1>1, WhileRebuilding DEF Others
  <2>3. ~ Rebuilding(p)' /\ ~ Creating(p)' BY <1>1 DEF Rebuilding, Creating, Done, At
  <2> QED BY <2>1, <2>2, <2>3 DEF Orderly
<1>13. OwnControl(p)'
  <2> HIDE DEF Sealed
  <2>1. CallKnows(p)' /\ HasFile(p)' /\ LateFile(p)'
    BY <1>0, <1>1, <1>10 DEF OwnControl, CallKnows, HasFile, LateFile, Found, Holding, Done, At
  <2>2. RecordedHeaded(p)'
    BY <1>0, <1>1, <1>10 DEF OwnControl, RecordedHeaded, Rebuilding, Done, At
  <2>3. Alone(p)' /\ Stages(p)'
    BY <1>1 DEF Alone, Stages, Rebuilding, Done, At
  <2> QED BY <2>1, <2>2, <2>3 DEF OwnControl
<1>14. Control' BY <1>9, <1>11, <1>12, <1>13, StepKept
<1>15. Headed(data'[f]) <=> Headed(data[f]) BY <1>3, <1>9
<1> QED BY <1>1, <1>5, <1>9, <1>14, <1>15 DEF t

\* The rename leaves both names alone or neither.
LEMMA JoinStep ==
  ASSUME Control, NEW p \in Process, join_rename(p)
  PROVE  Control'
<1>1. secure # path /\ secure # None BY WhenEnded
<1>2. CASE path' = path /\ secure' = secure BY <1>2, UnrenamedStep
<1>3. CASE path' # path BY <1>3, RenameStep
<1>4. (path' = path /\ secure' = secure) \/ path' # path BY <1>1 DEF join_rename
<1> QED BY <1>2, <1>3, <1>4

LEMMA LinkerOpenStep ==
  ASSUME Control, NEW p \in Process, linker_open(p)
  PROVE  Control'
<1>1. CASE path = None /\ call[p].creat BY <1>1, CreateStep
<1>2. CASE path # None \/ ~ call[p].creat BY <1>2, FindStep
<1> QED BY <1>1, <1>2

LEMMA AccessSecureStep ==
  ASSUME Control, NEW p \in Process, access_secure(p), ~ clash'
  PROVE  Control'
<1>1. CASE secure = None BY <1>1, RebuildStep
<1>2. CASE secure # None BY <1>2, LateStep
<1> QED BY <1>1, <1>2

LEMMA MainStep ==
  ASSUME Control, NEW p \in Process, Main(p), ~ clash'
  PROVE  Control'
<1>1. CASE access_path(p) BY <1>1, AccessStep
<1>2. CASE check_header(p) BY <1>2, CheckStep
<1>3. CASE linker_open(p) BY <1>3, LinkerOpenStep
<1>4. CASE write_header(p) BY <1>4, HeaderStep
<1>5. CASE access_secure(p) BY <1>5, AccessSecureStep
<1>6. CASE file_size(p) BY <1>6, SizeStep
<1>7. CASE small_open(p) BY <1>7, SmallOpenStep
<1>8. CASE small_read(p) BY <1>8, SmallReadStep
<1>9. CASE small_write(p) BY <1>9, SmallWriteStep
<1>10. CASE join_rename(p) BY <1>10, JoinStep
<1>11. CASE reopen(p) BY <1>11, ReopenStep
<1> QED BY <1>1, <1>2, <1>3, <1>4, <1>5, <1>6, <1>7, <1>8, <1>9, <1>10, <1>11 DEF Main

LEMMA ThreadsStep ==
  ASSUME Control, NEW p \in Process, First(p) \/ \E w \in Worker : Run(p, w)
  PROVE  Control'
<1>1. CASE secure_remove(p) BY <1>1, RemoveStep
<1>2. CASE secure_create(p) BY <1>2, SecureCreateStep
<1>3. CASE secure_size(p) BY <1>3, SecureSizeStep
<1>4. CASE secure_header(p) BY <1>4, SecureHeaderStep
<1>5. ASSUME NEW w \in Worker, Run(p, w) PROVE Control'
  <2>1. CASE spin(p, w) BY <2>1, SpinStep
  <2>2. CASE look_again(p, w) BY <2>2, LookStep
  <2>3. CASE open_old(p, w) BY <2>3, OpenOldStep
  <2>4. CASE open_new(p, w) BY <2>4, OpenNewStep
  <2>5. CASE copy_page(p, w) BY <2>5, CopyPageStep
  <2>6. CASE copy_rest(p, w) BY <2>6, CopyRestStep
  <2> QED BY <1>5, <2>1, <2>2, <2>3, <2>4, <2>5, <2>6 DEF Run
<1> QED BY <1>1, <1>2, <1>3, <1>4, <1>5 DEF First

\* Once out of turn, always out of turn.
LEMMA ClashStays ==
  ASSUME Next, clash
  PROVE  clash'
<1>1. ASSUME NEW p \in Process, Main(p) PROVE clash'
  <2>1. CASE access_secure(p) BY <2>1 DEF access_secure
  <2>2. CASE write_header(p) BY <2>2 DEF write_header
  <2>3. CASE join_rename(p) BY <2>3 DEF join_rename
  <2>4. CASE UNCHANGED clash BY <2>4
  <2> QED BY <1>1, <2>1, <2>2, <2>3, <2>4 DEF Main, access_path, check_header, linker_open, file_size,
         small_open, small_read, small_write, reopen, history
<1>2. ASSUME NEW p \in Process, First(p) PROVE clash'
  BY <1>2 DEF First, secure_remove, secure_create, secure_size, secure_header, history
<1>3. ASSUME NEW p \in Process, NEW w \in Worker, Run(p, w) PROVE clash'
  BY <1>3 DEF Run, spin, look_again, open_old, open_new, copy_page, copy_rest, history
<1>4. ASSUME NEW p \in Process, NEW creat \in BOOLEAN, Open(p, creat) PROVE clash'
  BY <1>4 DEF Open
<1>5. ASSUME NEW p \in Process, Store(p) \/ Leave(p) PROVE clash'
  BY <1>5 DEF Store, Leave, history
<1>6. CASE Outsider BY <1>6 DEF Outsider
<1> QED BY <1>1, <1>2, <1>3, <1>4, <1>5, <1>6 DEF Next

LEMMA ControlStep ==
  ASSUME Control, PlainFiles, Next, ~ clash'
  PROVE  Control'
<1>1. ASSUME NEW p \in Process, Main(p) PROVE Control' BY <1>1, MainStep
<1>2. ASSUME NEW p \in Process, First(p) \/ \E w \in Worker : Run(p, w) PROVE Control'
  BY <1>2, ThreadsStep
<1>3. ASSUME NEW p \in Process, NEW creat \in BOOLEAN, Open(p, creat) PROVE Control'
  BY <1>3, OpenStep
<1>4. ASSUME NEW p \in Process, Store(p) PROVE Control' BY <1>4, StoreStep
<1>5. ASSUME NEW p \in Process, Leave(p) PROVE Control' BY <1>5, LeaveStep
<1>6. CASE Outsider BY <1>6, OutsiderStep
<1> QED BY <1>1, <1>2, <1>3, <1>4, <1>5, <1>6 DEF Next

\* A step that gives out no descriptor of a plain file, takes nobody past the open
\* that may create the file, and puts no header into a file that is held.
LEMMA PlainKept ==
  ASSUME PlainFiles,
         \A q \in Process : PlainCaller(q)' => PlainCaller(q) /\ call'[q].fd = call[q].fd,
         \A q \in Process : PlainCaller(q) /\ Headed(data'[call[q].fd]) => Headed(data[call[q].fd]),
         \A q, r \in Process : PlainCaller(q) /\ Creating(r)' => Creating(r)
  PROVE  PlainFiles'
<1> SUFFICES ASSUME NEW q \in Process, PlainCaller(q)'
             PROVE  ~ Headed(data'[call'[q].fd]) /\ \A r \in Process : ~ Creating(r)'
  BY DEF PlainFiles, Headed
<1>1. PlainCaller(q) /\ call'[q].fd = call[q].fd OBVIOUS
<1>2. ~ Headed(data[call[q].fd]) /\ \A r \in Process : ~ Creating(r) BY <1>1 DEF PlainFiles
<1> QED BY <1>1, <1>2

\* There is a file when somebody has it.
LEMMA PlainCallerHas ==
  ASSUME Control, NEW p \in Process, PlainCaller(p)
  PROVE  path # None /\ call[p].fd \in 1..Len(data) /\ (secure # None => call[p].fd # secure)
<1>1. TypeOK /\ CallKnows(p) /\ SecureAside BY DEF Control
<1> QED BY <1>1, Typed DEF PlainCaller, CallKnows, Found, Holding, SecureAside, Done, At

\* A step of one call, which leaves what is in the files.
LEMMA PlainCall ==
  ASSUME Control, PlainFiles, NEW p \in Process,
         \A q \in Others(p) : call'[q] = call[q],
         \A g \in 1..Len(data) : data'[g] = data[g],
         ~ PlainCaller(p)', Creating(p)' => Creating(p) \/ path = None
  PROVE  PlainFiles'
<1>1. ASSUME NEW q \in Process
      PROVE  /\ PlainCaller(q)' => PlainCaller(q) /\ call'[q].fd = call[q].fd
             /\ Creating(q)' => Creating(q) \/ path = None
  <2>1. CASE q = p BY <2>1
  <2>2. CASE q # p
    <3>1. call'[q] = call[q] BY <2>2 DEF Others
    <3> QED BY <3>1 DEF PlainCaller, Creating, Done, At
  <2> QED BY <2>1, <2>2
<1>2. ASSUME NEW q \in Process, PlainCaller(q)
      PROVE  data'[call[q].fd] = data[call[q].fd] /\ path # None
  BY <1>2, PlainCallerHas
<1> QED BY <1>1, <1>2, PlainKept

LEMMA PlainThread ==
  ASSUME Control, PlainFiles, call' = call,
         \A g \in 1..Len(data) : g # secure => data'[g] = data[g]
  PROVE  PlainFiles'
<1>1. ASSUME NEW q \in Process
      PROVE  /\ PlainCaller(q)' => PlainCaller(q) /\ call'[q].fd = call[q].fd
             /\ Creating(q)' => Creating(q)
  BY DEF PlainCaller, Creating, Done, At
<1>2. ASSUME NEW q \in Process, PlainCaller(q) PROVE data'[call[q].fd] = data[call[q].fd]
  <2>1. call[q].fd \in 1..Len(data) /\ call[q].fd # secure
    BY <1>2, PlainCallerHas, Typed DEF Control, None
  <2> QED BY <2>1
<1> QED BY <1>1, <1>2, PlainKept

LEMMA PlainMain ==
  ASSUME Control, PlainFiles, NEW p \in Process, Main(p), ~ clash'
  PROVE  PlainFiles'
<1>0. TypeOK /\ CallKnows(p) /\ HasFile(p) /\ Alone(p) /\ Stages(p) /\ SecureAside
  BY DEF Control
<1>1. call \in [Process -> Calls] BY <1>0 DEF TypeOK
<1>2. ASSUME call'[p].pc \notin {"open", "new", "done"}, data' = data,
             \A q \in Others(p) : call'[q] = call[q]
      PROVE  PlainFiles'
  <2>1. ~ PlainCaller(p)' /\ ~ Creating(p)' BY <1>2 DEF PlainCaller, Creating, Done, At
  <2> QED BY <1>2, <2>1, PlainCall
<1>3. CASE access_path(p)
  <2>1. /\ data' = data /\ \A q \in Others(p) : call'[q] = call[q]
        /\ call'[p].pc = IF path # None THEN "check" ELSE "open"
    BY <1>1, <1>3 DEF access_path, Others, disk, Calls
  <2>2. ~ PlainCaller(p)' BY <2>1 DEF PlainCaller, Done, At
  <2>3. Creating(p)' => path = None BY <2>1 DEF Creating, At
  <2> QED BY <2>1, <2>2, <2>3, PlainCall
<1>4. CASE check_header(p)
  <2>1. /\ data' = data /\ \A q \in Others(p) : call'[q] = call[q]
        /\ call'[p].pc = "open" /\ call'[p].fs = call[p].fs /\ At(p, "check")
    BY <1>1, <1>4 DEF check_header, Others, disk, Calls
  <2>2. call[p].fs BY <1>0, <2>1 DEF CallKnows
  <2>3. ~ PlainCaller(p)' /\ ~ Creating(p)' BY <2>1, <2>2 DEF PlainCaller, Creating, Done, At
  <2> QED BY <2>1, <2>3, PlainCall
<1>5. CASE linker_open(p)
  <2>1. At(p, "open") BY <1>5 DEF linker_open
  <2>2. \A q \in Others(p) : call'[q] = call[q] BY <1>1, <1>5 DEF linker_open, Others
  <2>3. \A g \in 1..Len(data) : data'[g] = data[g]
    <3>1. data' = data \/ data' = Append(data, <<>>) BY <1>5 DEF linker_open
    <3>2. data \in Seq(Seq(PageSet)) /\ <<>> \in Seq(PageSet) BY <1>0 DEF TypeOK
    <3>3. CASE data' = Append(data, <<>>) BY <3>2, <3>3, AppendProperties, ZenonT(40)
    <3> QED BY <3>1, <3>3
  <2>4. \/ call'[p].pc = "idle"
        \/ call'[p].pc = "done" /\ call'[p].recorded
        \/ call'[p].pc = IF call[p].fs THEN "secure" ELSE "new"
    <3>1. \/ call' = [call EXCEPT ![p] = Idle]
          \/ call' = [call EXCEPT ![p] = Returned(path', TRUE)]
          \/ call' = [call EXCEPT ![p] =
                        [Idle EXCEPT !.pc = IF call[p].fs THEN "secure" ELSE "new", !.fd = path']]
      BY <1>5 DEF linker_open
    <3>2. /\ Idle.pc = "idle" /\ Returned(path', TRUE).pc = "done"
          /\ Returned(path', TRUE).recorded = TRUE
      BY DEF Idle, Returned
    <3>3. \A c : call' = [call EXCEPT ![p] = c] => call'[p] = c BY <1>1
    <3>4. CASE call' = [call EXCEPT ![p] = Idle] BY <3>2, <3>3, <3>4, Zenon
    <3>5. CASE call' = [call EXCEPT ![p] = Returned(path', TRUE)] BY <3>2, <3>3, <3>5, Zenon
    <3>6. CASE call' = [call EXCEPT ![p] =
                          [Idle EXCEPT !.pc = IF call[p].fs THEN "secure" ELSE "new", !.fd = path']]
      BY <3>3, <3>6, Places, Zenon
    <3> QED BY <3>1, <3>4, <3>5, <3>6
  <2>5. ~ PlainCaller(p)' BY <2>4 DEF PlainCaller, Done, At
  <2>6. Creating(p)' => Creating(p) BY <2>1, <2>4 DEF Creating, At
  <2> QED BY <2>2, <2>3, <2>5, <2>6, PlainCall
<1>6. CASE write_header(p)
  <2>1. /\ At(p, "new") /\ \A q \in Others(p) : call'[q] = call[q]
        /\ call'[p].recorded
    BY <1>1, <1>6 DEF write_header, Others, Returned, Idle
  <2>2. Creating(p) BY <1>0, <2>1 DEF CallKnows, Creating, At
  <2>3. ASSUME NEW q \in Process PROVE ~ PlainCaller(q)'
    <3>1. ~ PlainCaller(q) BY <2>2 DEF PlainFiles
    <3>2. CASE q = p BY <2>1, <3>2 DEF PlainCaller
    <3>3. CASE q # p
      <4>1. call'[q] = call[q] BY <2>1, <3>3 DEF Others
      <4> QED BY <3>1, <4>1 DEF PlainCaller, Done, At
    <3> QED BY <3>2, <3>3
  <2> QED BY <2>3 DEF PlainFiles
<1>7. CASE access_secure(p) /\ secure # None
  <2>1. /\ At(p, "secure") /\ data' = data /\ \A q \in Others(p) : call'[q] = call[q]
        /\ call'[p].fd = call[p].fd /\ call'[p].pc = "done"
    BY <1>1, <1>7 DEF access_secure, Others, Returned, Idle, disk
  <2>2. ~ Sealed /\ \A q \in Process : ~ Creating(q) BY <1>0, <1>7 DEF SecureAside
  <2>3. call[p].fd = path BY <1>0, <2>1, <2>2 DEF HasFile, At
  <2>4. ~ Headed(data'[call'[p].fd]) BY <2>1, <2>2, <2>3 DEF Sealed
  <2>5. ASSUME NEW q \in Process PROVE ~ Creating(q)'
    <3>1. CASE q = p BY <2>1, <3>1 DEF Creating, At
    <3>2. CASE q # p
      <4>1. call'[q] = call[q] BY <2>1, <3>2 DEF Others
      <4> QED BY <2>2, <4>1 DEF Creating, At
    <3> QED BY <3>1, <3>2
  <2>6. ASSUME NEW q \in Process, PlainCaller(q)' PROVE ~ Headed(data'[call'[q].fd])
    <3>1. CASE q = p BY <2>4, <3>1
    <3>2. CASE q # p
      <4>1. call'[q] = call[q] BY <2>1, <3>2 DEF Others
      <4>2. PlainCaller(q) BY <2>6, <4>1 DEF PlainCaller, Done, At
      <4> QED BY <2>1, <4>1, <4>2 DEF PlainFiles
    <3> QED BY <3>1, <3>2
  <2> QED BY <2>5, <2>6 DEF PlainFiles, Headed
<1>8. CASE access_secure(p) /\ secure = None
  <2>1. /\ data' = data /\ call'[p].pc = "size" /\ \A q \in Others(p) : call'[q] = call[q]
    BY <1>1, <1>8 DEF access_secure, Others, disk, Calls
  <2> QED BY <1>2, <2>1
<1>9. CASE file_size(p)
  <2>1. /\ data' = data /\ \A q \in Others(p) : call'[q] = call[q]
        /\ call'[p].pc \in {"reopen", "small_open", "join"}
    BY <1>1, <1>9 DEF file_size, Others, disk, Calls
  <2> QED BY <1>2, <2>1
<1>10. CASE small_open(p) \/ small_read(p)
  <2>1. /\ data' = data /\ \A q \in Others(p) : call'[q] = call[q]
        /\ call'[p].pc \in {"reopen", "small_read", "small_write"}
    BY <1>1, <1>10 DEF small_open, small_read, Others, disk, Calls
  <2> QED BY <1>2, <2>1
<1>11. CASE small_write(p)
  <2>1. /\ At(p, "small_write") /\ \A q \in Others(p) : call'[q] = call[q]
        /\ call'[p].pc = "reopen"
    BY <1>1, <1>11 DEF small_write, Others, Calls
  <2>2. Rebuilding(p) /\ secure = None BY <1>0, <2>1 DEF Rebuilding, Stages, At
  <2>3. ASSUME NEW q \in Process PROVE ~ PlainCaller(q)'
    <3>1. CASE q = p BY <2>1, <3>1 DEF PlainCaller, Done, At
    <3>2. CASE q # p
      <4>1. ~ Sealed /\ (Done(q) => late[q]) BY <2>2, <3>2, WhileRebuilding
      <4>2. LateFile(q) BY DEF Control
      <4>3. ~ Done(q) BY <2>2, <4>1, <4>2 DEF LateFile
      <4>4. call'[q] = call[q] BY <2>1, <3>2 DEF Others
      <4> QED BY <4>3, <4>4 DEF PlainCaller, Done, At
    <3> QED BY <3>1, <3>2
  <2> QED BY <2>3 DEF PlainFiles
<1>12. CASE join_rename(p)
  <2>1. /\ data' = data /\ call'[p].pc = "reopen" /\ \A q \in Others(p) : call'[q] = call[q]
    BY <1>1, <1>12 DEF join_rename, Others, Calls
  <2> QED BY <1>2, <2>1
<1>13. CASE reopen(p)
  <2>1. /\ At(p, "reopen") /\ data' = data /\ \A q \in Others(p) : call'[q] = call[q]
        /\ call'[p].fd = path /\ call'[p].pc = "done" /\ call'[p].recorded = call[p].recorded
    BY <1>1, <1>13 DEF reopen, Others, Returned, Idle, disk
  <2>2. CASE call[p].recorded
    <3>1. ~ PlainCaller(p)' /\ ~ Creating(p)' BY <2>1, <2>2 DEF PlainCaller, Creating, At
    <3> QED BY <2>1, <3>1, PlainCall
  <2>3. CASE ~ call[p].recorded
    <3>1. Rebuilding(p) BY <2>1, <2>3 DEF Rebuilding
    <3>2. ~ Sealed /\ \A q \in Process : ~ Creating(q) BY <3>1, WhileRebuilding
    <3>3. ~ Headed(data'[call'[p].fd]) BY <2>1, <3>2 DEF Sealed
    <3>4. ASSUME NEW q \in Process PROVE ~ Creating(q)'
      <4>1. CASE q = p BY <2>1, <4>1 DEF Creating, At
      <4>2. CASE q # p
        <5>1. call'[q] = call[q] BY <2>1, <4>2 DEF Others
        <5> QED BY <3>2, <5>1 DEF Creating, At
      <4> QED BY <4>1, <4>2
    <3>5. ASSUME NEW q \in Process, PlainCaller(q)' PROVE ~ Headed(data'[call'[q].fd])
      <4>1. CASE q = p BY <3>3, <4>1
      <4>2. CASE q # p
        <5>1. call'[q] = call[q] BY <2>1, <4>2 DEF Others
        <5>2. PlainCaller(q) BY <3>5, <5>1 DEF PlainCaller, Done, At
        <5> QED BY <2>1, <5>1, <5>2 DEF PlainFiles
      <4> QED BY <4>1, <4>2
    <3> QED BY <3>4, <3>5 DEF PlainFiles, Headed
  <2> QED BY <2>2, <2>3
<1> QED BY <1>3, <1>4, <1>5, <1>6, <1>7, <1>8, <1>9, <1>10, <1>11, <1>12, <1>13 DEF Main

LEMMA PlainThreads ==
  ASSUME Control, PlainFiles, NEW p \in Process, First(p) \/ \E w \in Worker : Run(p, w)
  PROVE  PlainFiles'
<1>0. TypeOK /\ Stages(p) BY DEF Control
<1>1. CASE secure_remove(p) BY <1>1, PlainThread DEF secure_remove
<1>2. CASE secure_create(p)
  <2>1. call' = call /\ \A g \in 1..Len(data) : g # secure => data'[g] = data[g]
    BY <1>0, <1>2 DEF secure_create, TypeOK
  <2> QED BY <2>1, PlainThread
<1>3. ASSUME WAt(p, 0, "size") \/ WAt(p, 0, "header"), call' = call,
             NEW t, data' = [data EXCEPT ![worker[p][0].nfd] = t]
      PROVE  PlainFiles'
  <2>1. worker[p][0].nfd = secure BY <1>0, <1>3 DEF Stages, WAt
  <2>2. \A g \in 1..Len(data) : g # secure => data'[g] = data[g] BY <1>0, <1>3, <2>1 DEF TypeOK
  <2> QED BY <1>3, <2>2, PlainThread
<1>4. CASE secure_size(p)
  <2> DEFINE t == [k \in 1..(call[p].size + 1) |->
                    IF k <= Len(data[worker[p][0].nfd]) THEN data[worker[p][0].nfd][k] ELSE Hole]
  <2>1. WAt(p, 0, "size") /\ call' = call /\ data' = [data EXCEPT ![worker[p][0].nfd] = t]
    BY <1>4 DEF secure_size
  <2> HIDE DEF t
  <2> QED BY <1>3, <2>1
<1>5. CASE secure_header(p)
  <2> DEFINE t == Put(data[worker[p][0].nfd], 1, <<Header>>)
  <2>1. WAt(p, 0, "header") /\ call' = call /\ data' = [data EXCEPT ![worker[p][0].nfd] = t]
    BY <1>5 DEF secure_header
  <2> HIDE DEF t
  <2> QED BY <1>3, <2>1
<1>6. ASSUME NEW w \in Worker, Run(p, w) PROVE PlainFiles'
  <2>1. call' = call
    BY <1>6 DEF Run, spin, look_again, open_old, open_new, copy_page, copy_rest
  <2>2. CASE data' = data BY <2>1, <2>2, PlainThread
  <2>3. CASE data' # data
    <3>1. WAt(p, w, "copy") /\ data' = CopiedPage(worker[p][w])
      BY <1>6, <2>3 DEF Run, spin, look_again, open_old, open_new, copy_page, copy_rest, disk
    <3>2. \A g \in 1..Len(data) : g # secure => data'[g] = data[g] BY <3>1, CopyForm
    <3> QED BY <2>1, <3>2, PlainThread
  <2> QED BY <2>2, <2>3
<1> QED BY <1>1, <1>2, <1>4, <1>5, <1>6 DEF First

LEMMA PlainStep ==
  ASSUME Control, PlainFiles, Next, ~ clash'
  PROVE  PlainFiles'
<1>0. call \in [Process -> Calls] BY DEF Control, TypeOK
<1>1. ASSUME NEW p \in Process, Main(p) PROVE PlainFiles' BY <1>1, PlainMain
<1>2. ASSUME NEW p \in Process, First(p) \/ \E w \in Worker : Run(p, w) PROVE PlainFiles'
  BY <1>2, PlainThreads
<1>3. ASSUME NEW p \in Process, call'[p].pc \in {"idle", "access"}, data' = data,
             \A q \in Others(p) : call'[q] = call[q]
      PROVE  PlainFiles'
  <2>1. ~ PlainCaller(p)' /\ ~ Creating(p)' BY <1>3 DEF PlainCaller, Creating, Done, At
  <2> QED BY <1>3, <2>1, PlainCall
<1>4. ASSUME NEW p \in Process, NEW creat \in BOOLEAN, Open(p, creat) PROVE PlainFiles'
  <2>1. data' = data /\ call'[p].pc = "access" /\ \A q \in Others(p) : call'[q] = call[q]
    BY <1>0, <1>4 DEF Open, Others, disk, Idle
  <2> QED BY <1>3, <2>1
<1>5. ASSUME NEW p \in Process, Leave(p) PROVE PlainFiles'
  <2>1. data' = data /\ call'[p].pc = "idle" /\ \A q \in Others(p) : call'[q] = call[q]
    BY <1>0, <1>5 DEF Leave, Others, disk, Idle
  <2> QED BY <1>3, <2>1
<1>6. ASSUME NEW p \in Process, Store(p) PROVE PlainFiles'
  <2>1. /\ call' = call /\ \A g \in 1..Len(data) : g # call[p].fd => data'[g] = data[g]
        /\ Headed(data'[call[p].fd]) <=> Headed(data[call[p].fd])
    BY <1>6, StoreStep
  <2>2. ASSUME NEW q \in Process, PlainCaller(q), Headed(data'[call[q].fd])
        PROVE  Headed(data[call[q].fd])
    <3>1. call[q].fd \in 1..Len(data) BY <2>2, PlainCallerHas
    <3>2. CASE call[q].fd = call[p].fd BY <2>1, <2>2, <3>2
    <3>3. CASE call[q].fd # call[p].fd
      <4>1. data'[call[q].fd] = data[call[q].fd] BY <2>1, <3>1, <3>3
      <4> QED BY <2>2, <4>1
    <3> QED BY <3>2, <3>3
  <2>3. ASSUME NEW q \in Process
        PROVE  /\ PlainCaller(q)' => PlainCaller(q) /\ call'[q].fd = call[q].fd
               /\ Creating(q)' => Creating(q)
    BY <2>1 DEF PlainCaller, Creating, Done, At
  <2> QED BY <2>2, <2>3, PlainKept
<1>7. CASE Outsider
  <2>1. path = None /\ call' = call BY <1>7 DEF Outsider
  <2>2. ASSUME NEW q \in Process PROVE ~ PlainCaller(q)'
    <3>1. ~ Done(q) BY <2>1, NobodyYet
    <3> QED BY <2>1, <3>1 DEF PlainCaller, Done, At
  <2> QED BY <2>2 DEF PlainFiles
<1> QED BY <1>1, <1>2, <1>4, <1>5, <1>6, <1>7 DEF Next

\* The plain file there may be at the start.
LEMMA InitText ==
  ASSUME Init
  PROVE  text \in Seq(PageSet) /\ ~ Headed(text)
<1>1. PICK n \in Sizes : text = [k \in 1..n |-> Page(k)] BY DEF Init
<1>2. n \in Nat BY OpenRaceAssumption
<1>3. \A k \in 1..n : Page(k) \in PageSet /\ Page(k) # Header
  <2>1. \A k \in 1..n : k \in Int /\ k >= 0 BY <1>2
  <2> QED BY <2>1, PageTypes
<1>4. text \in [1..n -> PageSet] BY <1>1, <1>3
<1>5. text \in Seq(PageSet) /\ Len(text) = n BY <1>2, <1>4, MakeSeq, Zenon
<1>6. \A k \in 1..n : text[k] = Page(k) BY <1>1
<1>7. ~ Headed(text)
  <2> SUFFICES ASSUME text # <<>> PROVE text[1] # Header BY DEF Headed
  <2>1. 1 \in 1..n BY <1>2, <1>5, EmptySeq
  <2> QED BY <1>3, <1>6, <2>1
<1> QED BY <1>3, <1>5, <1>6, <1>7

LEMMA InitControl == Init => Control
<1> SUFFICES ASSUME Init PROVE Control OBVIOUS
<1>1. text \in Seq(PageSet) /\ ~ Headed(text) BY InitText
<1>2. /\ secure = None /\ call = [p \in Process |-> Idle]
      /\ worker = [p \in Process |-> [w \in Worker |-> NoWorker]]
      /\ stores = 0 /\ late = [p \in Process |-> FALSE] /\ unrenamed = late
      /\ strayed = FALSE /\ clash = FALSE
      /\ (data = <<text>> /\ path = 1) \/ (text = <<>> /\ data = <<>> /\ path = None)
  BY DEF Init
<1>3. /\ data \in Seq(Seq(PageSet)) /\ Len(data) \in Nat /\ path \in Inode /\ secure \in Inode
      /\ (path # None => ~ Sealed)
  <2>1. CASE data = <<text>> /\ path = 1
    <3>1. data[1] = text /\ Len(data) = 1 /\ data \in Seq(Seq(PageSet)) BY <1>1, <2>1
    <3> QED BY <1>1, <1>2, <2>1, <3>1 DEF Inode, None, Sealed
  <2>2. CASE text = <<>> /\ data = <<>> /\ path = None
    BY <1>2, <2>2 DEF Inode, None
  <2> QED BY <1>2, <2>1, <2>2
<1>4. \A p \in Process : /\ call[p] \in Calls /\ call[p].pc = "idle" /\ call[p].fd = None
                         /\ call[p].recorded = FALSE /\ call[p].fs = FALSE /\ call[p].header = FALSE
  BY <1>2, IdleCall
<1>5. TypeOK
  <2>1. call \in [Process -> Calls] /\ worker \in [Process -> [Worker -> Workers]]
    BY <1>2, IdleCall, NoThreads
  <2>2. \A p \in Process : call[p].fd <= Len(data)
    <3>1. Len(data) >= 0 BY <1>3
    <3> QED BY <1>4, <3>1 DEF None
  <2> QED BY <1>1, <1>2, <1>3, <2>1, <2>2 DEF TypeOK
<1>6. NoFileYet BY <1>2 DEF NoFileYet, None
<1>7. SecureAside BY <1>2 DEF SecureAside
<1>8. ASSUME NEW p \in Process
      PROVE  /\ CallKnows(p) /\ HasFile(p) /\ RecordedHeaded(p)
             /\ Alone(p) /\ LateFile(p) /\ Stages(p)
  <2>1. late[p] = FALSE /\ unrenamed[p] = FALSE BY <1>2
  <2> QED BY <1>4, <2>1 DEF CallKnows, HasFile, RecordedHeaded, Alone, LateFile, Stages, Found,
         Holding, Rebuilding, Done, At
<1> QED BY <1>5, <1>6, <1>7, <1>8 DEF Control

\* The inductive invariant of the control.
LEMMA ControlAlways == Spec => []InTurnControl
<1>1. Init => InTurnControl
  <2>1. Init => PlainFiles
    <3>1. ASSUME Init, NEW p \in Process PROVE call[p].pc = "idle" BY <3>1, IdleCall DEF Init
    <3> QED BY <3>1 DEF PlainFiles, PlainCaller, Done, At
  <2> QED BY <2>1, InitControl DEF InTurnControl
<1>2. InTurnControl /\ [Next]_vars => InTurnControl'
  <2> SUFFICES ASSUME InTurnControl, [Next]_vars, ~ clash' PROVE Control' /\ PlainFiles'
    BY DEF InTurnControl
  <2>1. CASE Next
    <3>1. Control /\ PlainFiles BY <2>1, ClashStays DEF InTurnControl
    <3> QED BY <2>1, <3>1, ControlStep, PlainStep
  <2>2. CASE UNCHANGED vars
    <3>1. Control /\ PlainFiles /\ ~ clash BY <2>2 DEF InTurnControl, vars, history
    <3>2. /\ data' = data /\ path' = path /\ secure' = secure /\ call' = call /\ worker' = worker
          /\ stores' = stores /\ text' = text /\ late' = late /\ unrenamed' = unrenamed
          /\ strayed' = strayed /\ clash' = clash
      BY <2>2 DEF vars, disk, history
    <3>3. TypeOK' /\ NoFileYet' BY <3>1, <3>2 DEF Control, TypeOK, Inode, NoFileYet
    <3>4. Sealed' <=> Sealed BY <3>2 DEF Sealed, Headed
    <3>5. \A q \in Process : (Rebuilding(q)' <=> Rebuilding(q)) /\ (Creating(q)' <=> Creating(q))
      BY <3>2 DEF Rebuilding, Creating, At
    <3> HIDE DEF Sealed
    <3>6. SecureAside' BY <3>1, <3>2, <3>4, <3>5 DEF Control, SecureAside
    <3>7. ASSUME NEW p \in Process
          PROVE  /\ CallKnows(p)' /\ HasFile(p)' /\ RecordedHeaded(p)'
                 /\ Alone(p)' /\ LateFile(p)' /\ Stages(p)'
      <4>1. CallKnows(p)' /\ HasFile(p)' /\ LateFile(p)'
        BY <3>1, <3>2, <3>4 DEF Control, CallKnows, HasFile, LateFile, Found, Holding, Done, At
      <4>2. RecordedHeaded(p)' BY <3>1, <3>2, <3>4, <3>5 DEF Control, RecordedHeaded, Done, At
      <4>3. Alone(p)' BY <3>1, <3>2, <3>4, <3>5 DEF Control, Alone, Done, At, Others
      <4>4. Stages(p)' BY <3>1, <3>2 DEF Control, Stages, At, Headed
      <4> QED BY <4>1, <4>2, <4>3, <4>4
    <3>8. PlainFiles' BY <3>1, <3>2, <3>5 DEF PlainFiles, PlainCaller, Done, At, Headed
    <3> QED BY <3>3, <3>6, <3>7, <3>8 DEF Control
  <2> QED BY <2>1, <2>2
<1> QED BY <1>1, <1>2, PTL DEF Spec

\* What a caller that was not overtaken holds is the file under the path, whoever
\* else opens, rebuilds or replaces it.
THEOREM DescriptorStays == Spec => []DescriptorIsFile
<1>1. InTurnControl => DescriptorIsFile
  BY DEF InTurnControl, Control, HasFile, DescriptorIsFile
<1> QED BY <1>1, ControlAlways, PTL

-----------------------------------------------------------------------------
(* The data.                                                               *)

\* What a step of p has to do for the others: no file changes that one of them
\* copies to, or has open late.
Harmless(p) ==
  /\ text' = text /\ stores' = stores /\ strayed' = strayed
  /\ \A q \in Others(p) : call'[q] = call[q] /\ worker'[q] = worker[q] /\ late'[q] = late[q]
  /\ \A q \in Others(p) : At(q, "join") => secure' = secure /\ data'[secure] = data[secure]
  /\ \A q \in Others(p) : Done(q) /\ late[q] => data'[call[q].fd] = data[call[q].fd]

OwnContent(p) == LateReads(p) /\ (~ strayed => SmallReads(p) /\ ThreadsCopy(p))

LEMMA ContentKept ==
  ASSUME Content, NEW p \in Process, Harmless(p), ~ strayed => Reads' = text, OwnContent(p)'
  PROVE  Content'
<1>1. text' = text /\ stores' = stores /\ strayed' = strayed BY DEF Harmless
<1>2. ASSUME NEW q \in Process, q # p PROVE OwnContent(q)'
  <2>1. q \in Others(p) BY <1>2 DEF Others
  <2>2. call'[q] = call[q] /\ worker'[q] = worker[q] /\ late'[q] = late[q]
    BY <2>1 DEF Harmless
  <2>3. LateReads(q)'
    <3> SUFFICES ASSUME Done(q), late[q], stores = 0
                 PROVE  data'[call[q].fd] = text /\ ~ Headed(data'[call[q].fd])
      BY <1>1, <2>2 DEF LateReads, Done, At, Headed
    <3>1. data'[call[q].fd] = data[call[q].fd] BY <2>1 DEF Harmless
    <3>2. data[call[q].fd] = text /\ ~ Headed(data[call[q].fd]) BY DEF Content, LateReads
    <3> QED BY <3>1, <3>2
  <2>4. ASSUME ~ strayed PROVE SmallReads(q)' /\ ThreadsCopy(q)'
    <3>1. SmallReads(q) /\ ThreadsCopy(q) BY <2>4 DEF Content
    <3>2. SmallReads(q)' BY <1>1, <2>2, <3>1 DEF SmallReads, At
    <3>3. ThreadsCopy(q)'
      <4> SUFFICES ASSUME At(q, "join")
                   PROVE  /\ \A w \in Worker : Place(worker[q][w], w)'
                          /\ worker[q][0].pc \notin {"remove", "create", "size"} =>
                               Len(data'[secure']) = Len(text) + 1 /\ Copied(q)'
        BY <1>1, <2>2 DEF ThreadsCopy, At
      <4>1. secure' = secure /\ data'[secure] = data[secure] BY <2>1 DEF Harmless
      <4>2. \A w \in Worker : Place(worker[q][w], w)'
        BY <1>1, <2>2, <3>1 DEF ThreadsCopy, Place, Begin, Share
      <4>3. Copied(q)' <=> Copied(q)
        BY <1>1, <2>2, <4>1 DEF Copied, Begin
      <4> QED BY <3>1, <4>1, <4>2, <4>3 DEF ThreadsCopy
    <3> QED BY <3>2, <3>3
  <2> QED BY <1>1, <2>3, <2>4 DEF OwnContent
<1>3. OwnContent(p)' OBVIOUS
<1>4. stores' = 0 => ~ strayed' BY <1>1 DEF Content
<1>5. ~ strayed' => Reads' = text' BY <1>1
<1>6. \A q \in Process : OwnContent(q)' BY <1>2, <1>3
<1> QED BY <1>4, <1>5, <1>6 DEF Content, OwnContent

LEMMA SameFiles ==
  ASSUME Content, NEW p \in Process, UNCHANGED <<disk, text, stores, strayed>>,
         \A q \in Others(p) : call'[q] = call[q] /\ worker'[q] = worker[q] /\ late'[q] = late[q],
         OwnContent(p)'
  PROVE  Content'
<1>1. data' = data /\ path' = path /\ secure' = secure BY DEF disk
<1>2. Harmless(p) BY <1>1 DEF Harmless
<1>3. Reads' = Reads BY <1>1 DEF Reads, Plain, Decrypted, Layers, Headed
<1> QED BY <1>2, <1>3, ContentKept DEF Content

\* A call that neither rebuilds nor came late promises nothing about the data.
LEMMA NothingOwned ==
  ASSUME NEW p \in Process,
         call'[p].pc \notin {"small_open", "small_read", "small_write", "join"},
         Done(p)' => ~ late'[p]
  PROVE  OwnContent(p)'
  BY DEF OwnContent, LateReads, SmallReads, ThreadsCopy, Done, At

\* A step of a call that leaves the files alone and does not rebuild.
LEMMA CallContent ==
  ASSUME Content, NEW p \in Process, UNCHANGED <<disk, text, stores, strayed>>,
         \A q \in Others(p) : call'[q] = call[q] /\ worker'[q] = worker[q] /\ late'[q] = late[q],
         call'[p].pc \notin {"small_open", "small_read", "small_write", "join"},
         Done(p)' => ~ late'[p]
  PROVE  Content'
  BY NothingOwned, SameFiles

\* A call that has not returned did not come late.
LEMMA NotLate ==
  ASSUME Control, NEW p \in Process, ~ At(p, "idle"), ~ Done(p)
  PROVE  ~ late[p]
  BY DEF Control, RecordedHeaded

LEMMA AccessContent ==
  ASSUME Control, Content, NEW p \in Process, access_path(p) \/ check_header(p) \/ reopen(p)
  PROVE  Content'
<1>0. TypeOK BY DEF Control
<1>1. /\ call[p].pc \in {"access", "check", "reopen"}
      /\ UNCHANGED <<disk, worker, opens, stores, history>>
  BY DEF access_path, check_header, reopen, At
<1>2. ~ late[p] BY <1>1, NotLate DEF At, Done
<1>3. \A q \in Others(p) : call'[q] = call[q]
  BY <1>0 DEF access_path, check_header, reopen, TypeOK, Others
<1>4. call'[p].pc \in {"check", "open", "done"}
  <2>1. CASE access_path(p)
    <3>1. call[p] \in Calls /\ call \in [Process -> Calls] BY <1>0 DEF TypeOK
    <3> DEFINE place == IF path # None THEN "check" ELSE "open"
    <3>2. call' = [call EXCEPT ![p].fs = (path # None), ![p].pc = place] BY <2>1 DEF access_path
    <3> HIDE DEF place
    <3>3. call'[p].pc = place BY <3>1, <3>2 DEF Calls
    <3> QED BY <3>3 DEF place
  <2>2. CASE check_header(p)
    <3>1. call[p] \in Calls /\ call \in [Process -> Calls] BY <1>0 DEF TypeOK
    <3> DEFINE h == Headed(data[path])
    <3>2. call' = [call EXCEPT ![p].header = h, ![p].pc = "open"] BY <2>2 DEF check_header
    <3> HIDE DEF h
    <3> QED BY <3>1, <3>2 DEF Calls
  <2>3. CASE reopen(p)
    <3>1. call'[p] = Returned(path, call[p].recorded) BY <1>0, <2>3 DEF reopen, TypeOK
    <3> QED BY <3>1, Places
  <2> QED BY <2>1, <2>2, <2>3
<1> QED BY <1>1, <1>2, <1>3, <1>4, CallContent DEF history

LEMMA OpenContent ==
  ASSUME Control, Content, NEW p \in Process, NEW creat \in BOOLEAN, Open(p, creat)
  PROVE  Content'
<1>1. /\ UNCHANGED <<disk, worker, stores, text, strayed>>
      /\ call' = [call EXCEPT ![p] = [Idle EXCEPT !.pc = "access", !.creat = creat]]
      /\ late' = [late EXCEPT ![p] = FALSE]
  BY DEF Open
<1>2. TypeOK BY DEF Control
<1>3. "access" \in CallPlace BY DEF CallPlace
<1>4. call'[p].pc = "access" /\ \A q \in Others(p) : call'[q] = call[q]
  BY <1>1, <1>2, <1>3, IdleCreat DEF TypeOK, Others
<1>5. ~ late'[p] /\ \A q \in Others(p) : late'[q] = late[q] BY <1>1, <1>2 DEF TypeOK, Others
<1> QED BY <1>1, <1>4, <1>5, CallContent

LEMMA LeaveContent ==
  ASSUME Control, Content, NEW p \in Process, Leave(p)
  PROVE  Content'
<1>1. /\ call' = [call EXCEPT ![p] = Idle]
      /\ worker' = [worker EXCEPT ![p] = [w \in Worker |-> NoWorker]]
      /\ UNCHANGED <<disk, opens, stores, history>>
  BY DEF Leave
<1>2. TypeOK BY DEF Control
<1>3. call'[p].pc = "idle" /\ \A q \in Others(p) : call'[q] = call[q] /\ worker'[q] = worker[q]
  BY <1>1, <1>2, IdleCall DEF TypeOK, Others
<1> QED BY <1>1, <1>3, CallContent DEF history, Done, At

\* The open that finds a file, or none and may not create one.
LEMMA FindContent ==
  ASSUME Control, Content, NEW p \in Process, linker_open(p), path # None \/ ~ call[p].creat
  PROVE  Content'
<1>0. TypeOK BY DEF Control
<1>1. At(p, "open") /\ UNCHANGED <<disk, worker, opens, stores, history>>
  BY DEF linker_open, disk
<1>2. ~ late[p] BY <1>1, NotLate DEF At, Done
<1>3. \A q \in Others(p) : call'[q] = call[q] BY <1>0 DEF linker_open, TypeOK, Others
<1>4. call'[p].pc \in {"idle", "done", "secure", "new"}
  <2>1. CASE path = None
    <3>1. call'[p] = Idle BY <1>0, <2>1 DEF linker_open, TypeOK
    <3> QED BY <3>1, IdleCall
  <2>2. CASE path # None /\ call[p].fs /\ call[p].header
    <3>1. path' = path BY <1>1 DEF disk
    <3>2. call'[p] = Returned(path, TRUE) BY <1>0, <2>2, <3>1 DEF linker_open, TypeOK
    <3>3. path \in Nat BY <1>0, Typed
    <3> QED BY <3>2, <3>3, ReturnedCall
  <2>3. CASE path # None /\ ~ (call[p].fs /\ call[p].header)
    <3> DEFINE place == IF call[p].fs THEN "secure" ELSE "new"
    <3>1. call'[p] = [Idle EXCEPT !.pc = place, !.fd = path']
      BY <1>0, <2>3 DEF linker_open, TypeOK
    <3>2. place \in {"secure", "new"} OBVIOUS
    <3> HIDE DEF place
    <3>3. call'[p].pc = place BY <3>1, Places
    <3> QED BY <3>2, <3>3
  <2> QED BY <2>1, <2>2, <2>3
<1> QED BY <1>1, <1>2, <1>3, <1>4, CallContent DEF history

\* A new file is empty, and reads as the text: there has been none.
LEMMA CreateContent ==
  ASSUME Control, Content, NEW p \in Process, linker_open(p), path = None, call[p].creat
  PROVE  Content'
<1>0. TypeOK /\ CallKnows(p) BY DEF Control
<1>1. /\ At(p, "open") /\ UNCHANGED <<secure, worker, opens, stores, history>>
      /\ data' = Append(data, <<>>) /\ path' = Len(data')
  BY DEF linker_open
<1>2. data = <<>> /\ text = <<>> BY DEF Control, NoFileYet
<1>3. Len(data') = Len(data) + 1 /\ data'[Len(data) + 1] = <<>> /\ Len(data) = 0
  <2>1. <<>> \in Seq(PageSet) OBVIOUS
  <2> QED BY <1>0, <1>1, <1>2, <2>1, AppendProperties DEF TypeOK
<1>4. path' = 1 /\ data'[path'] = <<>> BY <1>1, <1>3
<1>5. Reads' = text
  <2>1. ~ Headed(data'[path']) BY <1>4 DEF Headed
  <2>2. ~ Headed(data[path])' BY <2>1 DEF Headed
  <2> QED BY <1>2, <1>4, <2>2 DEF Reads, None
<1>6. \A q \in Others(p) : call'[q] = call[q] BY <1>0 DEF linker_open, TypeOK, Others
<1>7. Harmless(p)
  <2>1. \A q \in Others(p) : ~ At(q, "join") /\ ~ Done(q)
    BY NobodyYet DEF Others, Found, Done, At
  <2> QED BY <1>1, <1>6, <2>1 DEF Harmless, history
<1>8. OwnContent(p)'
  <2>1. call[p].fs = FALSE BY <1>0, <1>1, Typed DEF CallKnows, Calls, At, None
  <2>2. call'[p] = [Idle EXCEPT !.pc = "new", !.fd = path'] BY <1>0, <2>1 DEF linker_open, TypeOK
  <2>3. call'[p].pc = "new" BY <2>2, Places
  <2> QED BY <2>3, NothingOwned DEF Done, At
<1> QED BY <1>5, <1>7, <1>8, ContentKept

LEMMA OutsiderContent ==
  ASSUME Control, Content, Outsider
  PROVE  Content'
<1>0. TypeOK BY DEF Control
<1> DEFINE t == <<Page(1), Page(2)>>
<1>1. /\ path = None /\ data' = Append(data, t) /\ path' = Len(data') /\ text' = t
      /\ UNCHANGED <<secure, call, worker, opens, stores, late, unrenamed, strayed, clash>>
  BY DEF Outsider
<1>2. t # <<>> /\ t[1] = Page(1) /\ Page(1) # Header BY PageTypes
<1>3. ~ Headed(t) BY <1>2 DEF Headed
<1> HIDE DEF t
<1>4. data = <<>> BY <1>1 DEF Control, NoFileYet
<1>5. data' = <<t>> BY <1>1, <1>4
<1>6. path' = 1 /\ data'[path'] = t BY <1>1, <1>5
<1>7. Reads' = text'
  <2>1. ~ Headed(data'[path']) BY <1>3, <1>6
  <2>2. ~ Headed(data[path])' BY <2>1 DEF Headed
  <2> QED BY <1>1, <1>6, <2>2 DEF Reads, None
<1>8. ASSUME NEW q \in Process PROVE OwnContent(q)'
  <2>1. ~ Found(q) BY <1>1, NobodyYet
  <2>2. call'[q] = call[q] BY <1>1
  <2>3. call'[q].pc \in {"idle", "access", "open"} BY <2>1, <2>2 DEF Found
  <2> QED BY <2>3, NothingOwned DEF Done, At
<1>9. stores' = 0 => ~ strayed' BY <1>1 DEF Content
<1> QED BY <1>7, <1>8, <1>9 DEF Content, OwnContent

\* The header of a new file, or of one that has it: what the file reads as stays.
LEMMA HeaderContent ==
  ASSUME Control, Content, NEW p \in Process, write_header(p), ~ clash'
  PROVE  Content'
<1>0. TypeOK /\ OwnControl(p) /\ SecureAside BY DEF Control, OwnControl
<1>1. /\ At(p, "new")
      /\ UNCHANGED <<path, secure, worker, opens, stores, text, late, unrenamed, strayed>>
      /\ data' = [data EXCEPT ![call[p].fd] = Put(data[call[p].fd], 1, <<Header>>)]
      /\ data[call[p].fd] = <<>> \/ Headed(data[call[p].fd])
  BY DEF write_header
<1>2. Creating(p) /\ call[p].fd = path /\ path # None
  BY <1>0, <1>1 DEF OwnControl, CallKnows, HasFile, Creating, Found, At
<1>3. path \in 1..Len(data) /\ data[path] \in Seq(PageSet) /\ data \in Seq(Seq(PageSet))
  BY <1>0, <1>2, Typed DEF TypeOK
<1>4. \A q \in Process : ~ Rebuilding(q) BY <1>2, WhileRebuilding
<1>5. secure = None BY <1>0, <1>2 DEF SecureAside
<1> DEFINE t == Put(data[path], 1, <<Header>>)
<1>6. data' = [data EXCEPT ![path] = t] BY <1>1, <1>2
<1>7. t \in Seq(PageSet) /\ Headed(t)
  <2> Header \in PageSet /\ 1 \in Nat /\ 1 >= 1 BY PageTypes
  <2> QED BY <1>3, PutOne, HeadedKept, Zenon
<1>8. Headed(data[path]) => t = data[path]
  <2> Header \in PageSet BY PageTypes
  <2> QED BY <1>3, HeadedKept, Zenon
<1>9. data[path] = <<>> => Plain(t) = <<>> BY PutFirst
<1> HIDE DEF t
<1>10. data'[path] = t /\ \A g \in 1..Len(data) : g # path => data'[g] = data[g]
  BY <1>3, <1>6, <1>7, WriteOne
<1>11. Reads' = Plain(t)
  <2>1. path' = path /\ data'[path'] = t BY <1>1, <1>10
  <2>2. Headed(data[path])' BY <1>7, <2>1 DEF Headed
  <2>3. Plain(data[path])' = Plain(t) BY <2>1 DEF Plain, Decrypted, Layers
  <2> QED BY <1>2, <2>1, <2>2, <2>3 DEF Reads
<1>12. ASSUME ~ strayed PROVE Reads' = text
  <2>1. Reads = text BY <1>12 DEF Content
  <2>2. CASE Headed(data[path]) BY <1>2, <1>8, <1>11, <2>1, <2>2 DEF Reads
  <2>3. CASE data[path] = <<>>
    <3>1. ~ Headed(data[path]) BY <2>3 DEF Headed
    <3> QED BY <1>2, <1>9, <1>11, <2>1, <2>3, <3>1 DEF Reads
  <2> QED BY <1>1, <1>2, <2>2, <2>3
<1>13. Harmless(p)
  <2>1. \A q \in Others(p) : ~ At(q, "join") BY <1>4 DEF Others, Rebuilding, At
  <2>2. ASSUME NEW q \in Others(p), Done(q), late[q] PROVE data'[call[q].fd] = data[call[q].fd]
    <3>1. LateFile(q) /\ CallKnows(q) BY <2>2 DEF Control, Others
    <3>2. Sealed BY <1>5, <2>2, <3>1 DEF LateFile
    <3>3. data'[path] = data[path] BY <1>8, <1>10, <3>2 DEF Sealed
    <3>4. call[q].fd \in 1..Len(data)
      BY <1>0, <2>2, <3>1, Typed DEF CallKnows, Holding, Done, At, Others
    <3> QED BY <1>10, <3>3, <3>4
  <2>3. \A q \in Others(p) : call'[q] = call[q] BY <1>0 DEF write_header, TypeOK, Others
  <2> QED BY <1>1, <2>1, <2>2, <2>3 DEF Harmless
<1>14. OwnContent(p)'
  <2>1. ~ late[p] BY <1>1, NotLate DEF At, Done
  <2>2. call'[p] = Returned(call[p].fd, TRUE) BY <1>0 DEF write_header, TypeOK
  <2>3. call'[p].pc = "done"
    <3>1. Returned(call[p].fd, TRUE).pc = "done" BY DEF Returned, Idle
    <3> QED BY <2>2, <3>1
  <2> QED BY <1>1, <2>1, <2>3, NothingOwned
<1> QED BY <1>12, <1>13, <1>14, ContentKept

\* A file that is being rebuilt is the text, plain.
LEMMA PlainText ==
  ASSUME Control, Content, NEW p \in Process, Rebuilding(p), ~ strayed
  PROVE  data[path] = text /\ text \in Seq(PageSet) /\ Len(text) \in Nat
<1>1. path # None /\ ~ Headed(data[path]) BY WhileRebuilding DEF Sealed
<1>2. Reads = text BY DEF Content
<1>3. text \in Seq(PageSet) BY DEF Control, TypeOK
<1> QED BY <1>1, <1>2, <1>3, LenProperties DEF Reads

LEMMA LateContent ==
  ASSUME Control, Content, NEW p \in Process, access_secure(p), secure # None
  PROVE  Content'
<1>0. TypeOK /\ OwnControl(p) /\ SecureAside BY DEF Control, OwnControl
<1> DEFINE fd == call[p].fd
           l == \E q \in Others(p) : Rebuilding(q)
<1>1. /\ At(p, "secure") /\ late' = [late EXCEPT ![p] = l]
      /\ call' = [call EXCEPT ![p] = Returned(fd, FALSE)]
      /\ UNCHANGED <<disk, worker, opens, stores, text, unrenamed, strayed, clash>>
  BY DEF access_secure
<1>2. l \in BOOLEAN OBVIOUS
<1> HIDE DEF l
<1>3. \A q \in Others(p) : call'[q] = call[q] /\ late'[q] = late[q]
  BY <1>0, <1>1, <1>2 DEF TypeOK, Others
<1>4. fd = path /\ path # None /\ ~ Headed(data[path])
  BY <1>0, <1>1 DEF OwnControl, CallKnows, HasFile, SecureAside, Found, At, Sealed
<1> DEFINE c == Returned(fd, FALSE)
<1>5. c.pc = "done" /\ c.fd = fd
  <2>1. fd \in Nat BY <1>0, Typed
  <2> HIDE DEF fd
  <2> QED BY <2>1, ReturnedCall
<1> HIDE DEF c, fd
<1>6. call'[p] = c BY <1>0, <1>1 DEF TypeOK, c
<1>7. data' = data /\ stores' = stores /\ text' = text BY <1>1 DEF disk
<1>8. LateReads(p)'
  <2> SUFFICES ASSUME stores = 0 PROVE data[path] = text /\ ~ Headed(data[path])
    BY <1>4, <1>5, <1>6, <1>7 DEF LateReads, Headed
  <2>1. Reads = text BY DEF Content
  <2> QED BY <1>4, <2>1 DEF Reads
<1>9. SmallReads(p)' /\ ThreadsCopy(p)' BY <1>5, <1>6 DEF SmallReads, ThreadsCopy, At
<1>10. OwnContent(p)' BY <1>8, <1>9 DEF OwnContent
<1> QED BY <1>1, <1>3, <1>10, SameFiles

LEMMA RebuildContent ==
  ASSUME Control, Content, NEW p \in Process, access_secure(p), secure = None
  PROVE  Content'
<1>0. TypeOK BY DEF Control
<1>1. /\ At(p, "secure") /\ call' = [call EXCEPT ![p].pc = "size", ![p].fd = None]
      /\ UNCHANGED <<disk, worker, opens, stores, text, late, unrenamed, strayed>>
  BY DEF access_secure
<1>2. call'[p].pc = "size" /\ \A q \in Others(p) : call'[q] = call[q]
  BY <1>0, <1>1 DEF TypeOK, Calls, Others
<1> QED BY <1>1, <1>2, CallContent DEF Done, At

\* The threads begin with their shares of the text.
LEMMA SizeContent ==
  ASSUME Control, Content, NEW p \in Process, file_size(p)
  PROVE  Content'
<1>0. TypeOK BY DEF Control
<1> DEFINE n == Len(data[path])
           place == IF n = 0 THEN "reopen" ELSE IF n <= THREADS_COUNT THEN "small_open" ELSE "join"
           c == [call[p] EXCEPT !.size = n, !.pc = place]
<1>1. /\ At(p, "size") /\ call' = [call EXCEPT ![p] = c]
      /\ worker' = IF place = "join" THEN [worker EXCEPT ![p] = Started(n)] ELSE worker
      /\ UNCHANGED <<disk, opens, stores, history>>
  BY DEF file_size
<1>2. Rebuilding(p) BY <1>1 DEF Rebuilding, At
<1>3. place \in {"reopen", "small_open", "join"} /\ (place # "reopen" => n # 0) OBVIOUS
<1>4. n = Len(data[path]) OBVIOUS
<1> HIDE DEF n, place
<1>5. c.pc = place /\ c.size = n
  <2>1. call[p] \in Calls BY <1>0, Typed
  <2> QED BY <2>1 DEF Calls
<1> HIDE DEF c
<1>6. call'[p] = c /\ \A q \in Others(p) : call'[q] = call[q] /\ worker'[q] = worker[q]
  BY <1>0, <1>1 DEF TypeOK, Others
<1>7. ~ Done(p)' BY <1>3, <1>5, <1>6 DEF Done, At
<1>8. ASSUME ~ strayed PROVE SmallReads(p)' /\ ThreadsCopy(p)'
  <2>1. n = Len(text) /\ Len(text) \in Nat BY <1>2, <1>4, <1>8, PlainText
  <2>2. text' = text BY <1>1 DEF history
  <2>3. SmallReads(p)'
    <3>1. place # "reopen" => Len(text) > 0 BY <1>3, <2>1
    <3> QED BY <1>3, <1>5, <1>6, <2>1, <2>2, <3>1 DEF SmallReads, At
  <2>4. ASSUME place = "join" PROVE ThreadsCopy(p)'
    <3>1. worker'[p] = Started(n) BY <1>0, <1>1, <2>4 DEF TypeOK
    <3>2. /\ \A w \in Worker :
               /\ Started(n)[w].pc = IF w = 0 THEN "remove" ELSE "wait"
               /\ Started(n)[w].offset = Average(n) * w
               /\ Started(n)[w].bsize = IF w < Last THEN Average(n) ELSE n - Average(n) * w
      BY <2>1, StartedType
    <3>3. ASSUME NEW w \in Worker PROVE Place(worker[p][w], w)'
      <4> DEFINE me == Started(n)[w]
                 a == Average(n)
      <4>1. /\ me.pc \in {"remove", "wait"} /\ me.offset = a * w
            /\ me.bsize = IF w < Last THEN a ELSE n - a * w
        BY <3>2
      <4>2. a \in Nat /\ w \in Nat /\ Last \in Nat /\ w <= Last
        BY <2>1, AverageType, WorkerNumbers
      <4>3. Begin(w) = a * w /\ Share(w) = IF w < Last THEN a * (w + 1) ELSE n
        BY <2>1 DEF Begin, Share
      <4> HIDE DEF me, a
      <4>4. a * (w + 1) = a * w + a /\ a * w \in Nat BY <4>2
      <4>5. me.offset + me.bsize = Share(w)
        <5>1. CASE w < Last
          <6>1. me.offset = a * w /\ me.bsize = a /\ Share(w) = a * (w + 1) BY <4>1, <4>3, <5>1
          <6> QED BY <4>4, <6>1
        <5>2. CASE ~ (w < Last)
          <6>1. me.offset = a * w /\ me.bsize = n - a * w /\ Share(w) = n BY <4>1, <4>3, <5>2
          <6>2. n \in Nat BY <2>1
          <6> QED BY <4>4, <6>1, <6>2
        <5> QED BY <5>1, <5>2
      <4>6. me.offset = Begin(w) /\ me.offset \in Nat BY <4>1, <4>3, <4>4
      <4>7. Place(me, w) BY <4>1, <4>5, <4>6 DEF Place, Ended
      <4>8. worker'[p][w] = me BY <3>1 DEF me
      <4> QED BY <2>2, <4>7, <4>8 DEF Place, Begin, Share
    <3>4. worker'[p][0].pc = "remove" BY <3>1, <3>2, WorkerNumbers
    <3> QED BY <3>3, <3>4 DEF ThreadsCopy
  <2>5. ASSUME place # "join" PROVE ThreadsCopy(p)'
    BY <1>5, <1>6, <2>5 DEF ThreadsCopy, At
  <2> QED BY <2>3, <2>4, <2>5
<1>9. OwnContent(p)' BY <1>1, <1>7, <1>8 DEF OwnContent, LateReads, history
<1> QED BY <1>1, <1>6, <1>9, SameFiles DEF history

LEMMA SmallContent ==
  ASSUME Control, Content, NEW p \in Process, small_open(p) \/ small_read(p)
  PROVE  Content'
<1>0. TypeOK BY DEF Control
<1>1. /\ call[p].pc \in {"small_open", "small_read"}
      /\ UNCHANGED <<disk, worker, opens, stores, history>>
      /\ \A q \in Others(p) : call'[q] = call[q]
  BY <1>0 DEF small_open, small_read, At, TypeOK, Others
<1>2. Rebuilding(p) BY <1>1 DEF Rebuilding, At
<1>3. /\ call'[p].pc \in {"small_read", "small_write"} /\ call'[p].size = call[p].size
      /\ call'[p].pc = "small_write" => call'[p].buffer = data[path]
  <2>1. call[p] \in Calls BY <1>0, Typed
  <2>2. CASE small_open(p)
    <3>1. call' = [call EXCEPT ![p].fd = path, ![p].pc = "small_read"] BY <2>2 DEF small_open
    <3> QED BY <1>0, <2>1, <3>1 DEF Calls, TypeOK
  <2>3. CASE small_read(p)
    <3>1. call'[p].pc = "small_write" /\ call'[p].buffer = data[path] BY <2>3, SmallReadStep
    <3>2. call'[p].size = call[p].size
      <4> DEFINE place == IF Len(data[call[p].fd]) < call[p].size THEN "reopen" ELSE "small_write"
                 b == SubSeq(data[call[p].fd], 1, call[p].size)
      <4>1. call' = [call EXCEPT ![p].pc = place, ![p].buffer = b] BY <2>3 DEF small_read
      <4> HIDE DEF place, b
      <4> QED BY <1>0, <2>1, <4>1 DEF Calls, TypeOK
    <3> QED BY <3>1, <3>2
  <2> QED BY <2>2, <2>3
<1>4. ASSUME ~ strayed PROVE SmallReads(p)'
  <2>1. data[path] = text BY <1>2, <1>4, PlainText
  <2>2. text' = text BY <1>1 DEF history
  <2>3. SmallReads(p) BY <1>4 DEF Content
  <2>4. call[p].size = Len(text) /\ Len(text) > 0 BY <1>1, <2>3 DEF SmallReads, At
  <2> QED BY <1>3, <2>1, <2>2, <2>4 DEF SmallReads, At
<1>5. OwnContent(p)'
  <2>1. ~ Done(p)' /\ ~ At(p, "join")' BY <1>3 DEF Done, At
  <2> QED BY <1>1, <1>4, <2>1 DEF OwnContent, LateReads, ThreadsCopy, history
<1> QED BY <1>1, <1>5, SameFiles DEF history

\* The small file is encrypted in its place, and nobody has it open.
LEMMA SmallWriteContent ==
  ASSUME Control, Content, NEW p \in Process, small_write(p)
  PROVE  Content'
<1>0. TypeOK BY DEF Control
<1>1. /\ At(p, "small_write") /\ UNCHANGED <<path, secure, worker, opens, stores, history>>
      /\ call' = [call EXCEPT ![p].pc = "reopen", ![p].recorded = TRUE, ![p].buffer = <<>>]
  BY DEF small_write
<1>2. Rebuilding(p) BY <1>1 DEF Rebuilding, At
<1>3. path # None /\ data[path] \in Seq(PageSet) /\ ~ Sealed /\ call[p].buffer \in Seq(PageSet)
  BY <1>0, <1>2, InRebuild, Typed DEF Calls
<1> DEFINE t == Put(data[path], 1, <<Header>> \o Encrypted(call[p].buffer))
<1>4. data'[path] = t BY SmallWriteStep
<1>5. t \in Seq(PageSet) /\ Headed(t) /\ (Len(data[path]) = Len(call[p].buffer) => Plain(t) = call[p].buffer)
  BY <1>3, PutSealed
<1> HIDE DEF t
<1>6. Reads' = Plain(t)
  <2>1. path' = path BY <1>1
  <2>2. Headed(data[path])' BY <1>4, <1>5, <2>1 DEF Headed
  <2>3. Plain(data[path])' = Plain(t) BY <1>4, <2>1 DEF Plain, Decrypted, Layers
  <2> QED BY <1>3, <2>1, <2>2, <2>3 DEF Reads
<1>7. ASSUME ~ strayed PROVE Reads' = text
  <2>1. data[path] = text BY <1>2, <1>7, PlainText
  <2>2. call[p].buffer = text BY <1>1, <1>7 DEF Content, SmallReads, At
  <2> QED BY <1>5, <1>6, <2>1, <2>2
<1>8. \A q \in Others(p) : ~ Rebuilding(q) /\ ~ (Done(q) /\ late[q])
  <2>1. secure = None BY <1>1 DEF Control, Stages, At
  <2>2. \A q \in Process : LateFile(q) BY DEF Control
  <2> QED BY <1>2, <1>3, <2>1, <2>2, WhileRebuilding DEF LateFile, Others
<1>9. Harmless(p)
  <2>1. \A q \in Others(p) : ~ At(q, "join") BY <1>8 DEF Rebuilding, At
  <2>2. \A q \in Others(p) : call'[q] = call[q] BY <1>0, <1>1 DEF TypeOK, Others
  <2> QED BY <1>1, <1>8, <2>1, <2>2 DEF Harmless, history
<1>10. OwnContent(p)'
  <2>1. call'[p].pc = "reopen"
    <3>1. call[p] \in Calls BY <1>0, Typed
    <3> QED BY <1>0, <1>1, <3>1 DEF TypeOK, Calls
  <2> QED BY <2>1, NothingOwned DEF Done, At
<1> QED BY <1>7, <1>9, <1>10, ContentKept

\* Every page is in the share of a thread.
LEMMA ShareOf ==
  ASSUME Len(text) \in Nat, NEW k \in Nat, k < Len(text)
  PROVE  \E w \in Worker : Begin(w) <= k /\ k < Share(w)
<1> DEFINE a == Average(Len(text))
           q == k \div a
<1>1. a \in Nat /\ a > 0 BY AverageType
<1>2. Last \in Nat /\ Last \in Worker /\ Worker = 0..Last
  BY OpenRaceAssumption DEF Last, Worker
<1>3. Begin(Last) = a * Last /\ Share(Last) = Len(text) BY <1>2 DEF Begin, Share
<1>4. \A w \in Nat : w < Last => Begin(w) = a * w /\ Share(w) = a * (w + 1) BY DEF Begin, Share
<1> HIDE DEF a
<1>5. q \in Nat /\ a * q <= k /\ k < a * q + a BY <1>1
<1> HIDE DEF q
<1>6. a * (q + 1) = a * q + a BY <1>1, <1>5
<1>7. CASE q < Last
  <2>1. q \in Worker BY <1>2, <1>5, <1>7
  <2>2. Begin(q) <= k /\ k < Share(q) BY <1>4, <1>5, <1>6, <1>7
  <2> QED BY <2>1, <2>2
<1>8. CASE q >= Last
  <2>1. a * Last <= a * q BY <1>1, <1>2, <1>5, <1>8
  <2>2. a * Last \in Nat /\ a * q \in Nat BY <1>1, <1>2, <1>5
  <2>3. a * Last <= k BY <1>5, <2>1, <2>2
  <2> QED BY <1>2, <1>3, <2>3
<1> QED BY <1>2, <1>5, <1>7, <1>8

\* When all the threads have ended, every page of the text is in the new file.
LEMMA AllCopied ==
  ASSUME Control, Content, NEW p \in Process, join_rename(p), ~ strayed
  PROVE  Plain(data[secure]) = text
<1>1. /\ Rebuilding(p) /\ secure # None /\ secure \in 1..Len(data)
      /\ Headed(data[secure]) /\ At(p, "join") /\ worker[p][0].pc \in Ended
  BY WhenEnded
<1>2. TypeOK BY DEF Control
<1>3. data[secure] \in Seq(PageSet) BY <1>1, <1>2, Typed
<1>4. text \in Seq(PageSet) /\ Len(text) \in Nat BY <1>1, PlainText
<1>5. ThreadsCopy(p) BY DEF Content
<1>6. Len(data[secure]) = Len(text) + 1 /\ Copied(p) BY <1>1, <1>5 DEF ThreadsCopy, Ended
<1>7. ASSUME NEW i \in 1..Len(text) PROVE data[secure][i + 1] = [text[i] EXCEPT !.enc = @ + 1]
  <2> DEFINE k == i - 1
  <2>1. k \in Nat /\ k < Len(text) /\ k + 1 = i /\ k + 2 = i + 1 BY <1>4
  <2> HIDE DEF k
  <2>2. PICK w \in Worker : Begin(w) <= k /\ k < Share(w) BY <1>4, <2>1, ShareOf
  <2>3. Place(worker[p][w], w) BY <1>1, <1>5 DEF ThreadsCopy
  <2>4. worker[p][w].pc \in Ended BY DEF join_rename, Ended
  <2>5. worker[p][w].offset \in Nat BY <1>2, Typed DEF Workers
  <2>6. Begin(w) \in Int /\ Share(w) \in Int
    <3>1. Average(Len(text)) \in Nat /\ w \in Nat BY <1>4, AverageType, WorkerNumbers
    <3>2. Average(Len(text)) * w \in Int /\ Average(Len(text)) * (w + 1) \in Int BY <3>1
    <3> QED BY <1>4, <3>2 DEF Begin, Share
  <2>7. worker[p][w].offset >= Share(w) \/ worker[p][w].offset >= Len(text)
    BY <2>3, <2>4 DEF Place
  <2>8. k < worker[p][w].offset BY <1>4, <2>1, <2>2, <2>5, <2>6, <2>7
  <2>9. k \in Begin(w)..(worker[p][w].offset - 1) BY <2>1, <2>2, <2>5, <2>6, <2>8
  <2>10. data[secure][k + 2] = Once(text[k + 1]) BY <1>6, <2>1, <2>9 DEF Copied
  <2> QED BY <2>1, <2>10 DEF Once
<1> QED BY <1>1, <1>3, <1>4, <1>6, <1>7, SealedReads

LEMMA JoinContent ==
  ASSUME Control, Content, NEW p \in Process, join_rename(p)
  PROVE  Content'
<1>0. TypeOK BY DEF Control
<1> DEFINE r == \E w \in Worker : worker[p][w].pc = "path"
<1>1. /\ call' = [call EXCEPT ![p].recorded = r, ![p].pc = "reopen"]
      /\ worker' = [worker EXCEPT ![p] = [w \in Worker |-> NoWorker]]
      /\ UNCHANGED <<data, opens, stores, text, late, strayed, clash>>
      /\ (path' = path /\ secure' = secure) \/ path' = secure
  BY DEF join_rename
<1> HIDE DEF r
<1>2. call'[p].pc = "reopen"
  <2>1. call[p] \in Calls BY <1>0, Typed
  <2> QED BY <1>0, <1>1, <2>1 DEF TypeOK, Calls
<1>3. \A q \in Others(p) : call'[q] = call[q] /\ worker'[q] = worker[q]
  BY <1>0, <1>1 DEF TypeOK, Others
<1>4. OwnContent(p)' BY <1>2, NothingOwned DEF Done, At
<1>5. CASE path' = path /\ secure' = secure
  BY <1>1, <1>3, <1>4, <1>5, SameFiles DEF disk
<1>6. CASE path' = secure
  <2>1. Rebuilding(p) /\ secure # None /\ Headed(data[secure]) BY WhenEnded
  <2>2. ASSUME ~ strayed PROVE Reads' = text
    <3>1. Plain(data[secure]) = text BY <2>2, AllCopied
    <3>2. data'[path'] = data[secure] BY <1>1, <1>6
    <3>3. Headed(data[path])' BY <2>1, <3>2 DEF Headed
    <3>4. Plain(data[path])' = Plain(data[secure]) BY <3>2 DEF Plain, Decrypted, Layers
    <3> QED BY <1>6, <2>1, <3>1, <3>3, <3>4 DEF Reads
  <2>3. \A q \in Others(p) : ~ At(q, "join")
    BY <2>1, WhileRebuilding DEF Others, Rebuilding, At
  <2>4. Harmless(p) BY <1>1, <1>3, <2>3 DEF Harmless
  <2> QED BY <1>4, <2>2, <2>4, ContentKept
<1> QED BY <1>1, <1>5, <1>6

\* A step of a thread of p: it writes to no file but the new one.
Threads(p) ==
  /\ UNCHANGED <<path, call, text, stores, strayed, late>>
  /\ \A g \in 1..Len(data) : g # secure => data'[g] = data[g]

LEMMA ThreadContent ==
  ASSUME Control, Content, NEW p \in Process, At(p, "join"), Threads(p),
         NEW w \in Worker, NEW v \in Workers, worker' = [worker EXCEPT ![p][w] = v],
         ~ strayed => Place(v, w),
         ~ strayed /\ worker'[p][0].pc \notin {"remove", "create", "size"} =>
           Len(data'[secure']) = Len(text) + 1 /\ Copied(p)'
  PROVE  Content'
<1>1. TypeOK /\ path # None /\ path \in 1..Len(data) /\ (secure # None => secure # path)
  BY WorkerNumbers, AtStage
<1>2. Rebuilding(p) BY DEF Rebuilding, At
<1>3. /\ worker'[p][w] = v /\ \A u \in Worker : u # w => worker'[p][u] = worker[p][u]
      /\ \A q \in Others(p) : worker'[q] = worker[q]
  BY <1>1, WorkerMoves
<1>4. /\ path' = path /\ call' = call /\ text' = text /\ stores' = stores /\ strayed' = strayed
      /\ late' = late /\ \A g \in 1..Len(data) : g # secure => data'[g] = data[g]
  BY DEF Threads
<1>5. data'[path] = data[path] BY <1>1, <1>4
<1>6. Reads' = Reads BY <1>4, <1>5 DEF Reads, Plain, Decrypted, Layers, Headed
<1>7. Harmless(p)
  <2>1. \A q \in Others(p) : ~ At(q, "join")
    BY <1>2, WhileRebuilding DEF Others, Rebuilding, At
  <2>2. ASSUME NEW q \in Others(p), Done(q) PROVE data'[call[q].fd] = data[call[q].fd]
    <3>1. CallKnows(q) /\ SecureAside BY DEF Control, Others
    <3>2. call[q].fd \in 1..Len(data)
      BY <1>1, <2>2, <3>1, Typed DEF CallKnows, Holding, Done, At, Others
    <3>3. call[q].fd # secure BY <3>1, <3>2 DEF SecureAside, None, Others
    <3> QED BY <1>4, <3>2, <3>3
  <2> QED BY <1>3, <1>4, <2>1, <2>2 DEF Harmless
<1>8. OwnContent(p)'
  <2>1. ASSUME ~ strayed PROVE SmallReads(p)' /\ ThreadsCopy(p)'
    <3>1. SmallReads(p) /\ ThreadsCopy(p) BY <2>1 DEF Content
    <3>2. SmallReads(p)' BY <1>4, <3>1 DEF SmallReads, At
    <3>3. ASSUME NEW u \in Worker PROVE Place(worker[p][u], u)'
      <4>1. Place(worker'[p][u], u)
        <5>1. CASE u = w BY <1>3, <2>1, <5>1
        <5>2. CASE u # w BY <1>3, <3>1, <5>2 DEF ThreadsCopy
        <5> QED BY <5>1, <5>2
      <4> QED BY <1>4, <4>1 DEF Place, Begin, Share
    <3> QED BY <1>4, <2>1, <3>2, <3>3 DEF ThreadsCopy
  <2>2. ~ Done(p)' BY <1>4 DEF Done, At
  <2> QED BY <1>4, <2>1, <2>2 DEF OwnContent, LateReads
<1> QED BY <1>6, <1>7, <1>8, ContentKept DEF Content

\* A thread that does not copy yet.
LEMMA WaitingContent ==
  ASSUME Control, Content, NEW p \in Process, At(p, "join"), Threads(p), secure' = secure, data' = data,
         NEW w \in Worker, NEW v \in Workers, worker' = [worker EXCEPT ![p][w] = v],
         v.offset = worker[p][w].offset, v.bsize = worker[p][w].bsize,
         worker[p][w].pc \notin {"copy", "null", "path"}, v.pc \notin Ended,
         worker[p][w].pc \notin {"create", "size", "header"},
         worker[p][w].pc = "remove" <=> v.pc = "create", v.pc \notin {"remove", "size"}
  PROVE  Content'
<1>1. TypeOK BY DEF Control
<1>2. /\ worker'[p][w] = v /\ \A u \in Worker : u # w => worker'[p][u] = worker[p][u]
  BY <1>1, WorkerMoves
<1>3. text' = text BY DEF Threads
<1>4. ASSUME ~ strayed PROVE Place(v, w)
  <2>1. Place(worker[p][w], w) BY <1>4 DEF Content, ThreadsCopy
  <2> QED BY <2>1 DEF Place, Ended
<1>5. ASSUME ~ strayed, worker'[p][0].pc \notin {"remove", "create", "size"}
      PROVE  Len(data'[secure']) = Len(text) + 1 /\ Copied(p)'
  <2>1. worker[p][0].pc \notin {"remove", "create", "size"}
    <3>1. CASE w = 0 BY <1>2, <1>5, <3>1
    <3>2. CASE w # 0 BY <1>2, <1>5, <3>2, WorkerNumbers
    <3> QED BY <3>1, <3>2
  <2>2. Len(data[secure]) = Len(text) + 1 /\ Copied(p) BY <1>5, <2>1 DEF Content, ThreadsCopy
  <2>3. \A u \in Worker : worker'[p][u].offset = worker[p][u].offset BY <1>2
  <2>4. Copied(p)' BY <1>3, <2>2, <2>3 DEF Copied, Begin
  <2> QED BY <2>2, <2>4
<1> QED BY <1>4, <1>5, ThreadContent

\* While the new file is prepared nothing has been copied.
LEMMA NothingCopied ==
  ASSUME Control, Content, NEW p \in Process, At(p, "join"), worker[p][0].pc \in Preparing, ~ strayed
  PROVE  \A w \in Worker : Place(worker[p][w], w) /\ worker[p][w].offset = Begin(w)
<1> SUFFICES ASSUME NEW w \in Worker
             PROVE  Place(worker[p][w], w) /\ worker[p][w].offset = Begin(w)
  OBVIOUS
<1>1. ThreadsCopy(p) /\ Stages(p) BY DEF Control, Content
<1>2. worker[p][w].pc \in Preparing \cup {"wait"}
  <2>1. CASE w = 0 BY <2>1
  <2>2. CASE w # 0 BY <1>1, <2>2 DEF Stages
  <2> QED BY <2>1, <2>2
<1>3. Place(worker[p][w], w) BY <1>1 DEF ThreadsCopy
<1> QED BY <1>2, <1>3 DEF Place, Preparing

\* The first thread prepares the new file.
LEMMA PreparingContent ==
  ASSUME Control, Content, NEW p \in Process, At(p, "join"), Threads(p), worker[p][0].pc \in Preparing,
         NEW v \in Workers, worker' = [worker EXCEPT ![p][0] = v],
         v.offset = worker[p][0].offset, v.bsize = worker[p][0].bsize,
         v.pc \in {"create", "size", "header", "wait"},
         ~ strayed /\ v.pc \in {"header", "wait"} => Len(data'[secure']) = Len(text) + 1
  PROVE  Content'
<1>0. TypeOK /\ 0 \in Worker BY WorkerNumbers DEF Control
<1>1. worker'[p][0] = v /\ \A u \in Worker : u # 0 => worker'[p][u] = worker[p][u]
  BY <1>0, WorkerMoves
<1>2. ASSUME ~ strayed PROVE Place(v, 0)
  <2>1. Place(worker[p][0], 0) /\ worker[p][0].offset = Begin(0) BY <1>0, <1>2, NothingCopied
  <2> QED BY <2>1 DEF Place, Ended
<1>3. ASSUME ~ strayed PROVE Copied(p)'
  <2>1. text' = text BY DEF Threads
  <2>2. ASSUME NEW w \in Worker PROVE worker'[p][w].offset = Begin(w) /\ Begin(w)' = Begin(w) /\ Begin(w) \in Int
    <3>1. worker[p][w].offset = Begin(w) /\ worker[p][w].offset \in Nat
      <4>1. worker[p][w] \in Workers BY <1>0, Typed
      <4> QED BY <1>3, <4>1, NothingCopied DEF Workers
    <3>2. worker'[p][w].offset = worker[p][w].offset
      <4>1. CASE w = 0 BY <1>1, <4>1
      <4>2. CASE w # 0 BY <1>1, <4>2
      <4> QED BY <4>1, <4>2
    <3> QED BY <2>1, <3>1, <3>2 DEF Begin
  <2>3. \A w \in Worker : \A k \in Begin(w)'..(worker'[p][w].offset - 1) : FALSE BY <2>2
  <2> QED BY <2>3 DEF Copied
<1> QED BY <1>0, <1>1, <1>2, <1>3, ThreadContent

LEMMA FirstContent ==
  ASSUME Control, Content, NEW p \in Process, First(p)
  PROVE  Content'
<1>0. 0 \in Worker /\ TypeOK BY WorkerNumbers DEF Control
<1> DEFINE me == worker[p][0]
<1>1. /\ At(p, "join") /\ me.pc \in {"remove", "create", "size", "header"}
      /\ UNCHANGED <<path, call, stores, text, late, strayed>>
  BY DEF First, secure_remove, secure_create, secure_size, secure_header, WAt, history
<1>2. me \in Workers /\ Stages(p) BY <1>0, <1>1, AtStage
<1>3. me.pc \in Preparing BY <1>1 DEF Preparing
<1>4. ASSUME ~ strayed PROVE call[p].size = Len(text) /\ Len(text) \in Nat
  BY <1>1, <1>4, LenProperties DEF Content, SmallReads, Control, TypeOK, At
<1>5. worker \in [Process -> [Worker -> Workers]] BY <1>0 DEF TypeOK
<1>6. CASE secure_remove(p)
  <2> DEFINE v == [me EXCEPT !.pc = "create"]
  <2>1. data' = data /\ worker' = [worker EXCEPT ![p][0] = v] BY <1>6 DEF secure_remove, WMove
  <2>2. v \in Workers /\ v.pc = "create" /\ v.offset = me.offset /\ v.bsize = me.bsize
    BY <1>2 DEF Workers, WorkerPlace
  <2> HIDE DEF v
  <2>3. Threads(p) BY <1>1, <2>1 DEF Threads
  <2> QED BY <1>1, <1>3, <2>1, <2>2, <2>3, PreparingContent
<1>7. CASE secure_create(p)
  <2> DEFINE v == [me EXCEPT !.pc = "size", !.nfd = secure']
  <2>1. worker' = [worker EXCEPT ![p][0] = v] BY <1>0, <1>5, <1>7 DEF secure_create
  <2>2. secure = None BY <1>2, <1>7 DEF secure_create, WAt, Stages
  <2>3. data' = Append(data, <<>>) /\ secure' = Len(data') BY <1>7, <2>2 DEF secure_create
  <2>4. Len(data') = Len(data) + 1 /\ Len(data) \in Nat /\ \A g \in 1..Len(data) : data'[g] = data[g]
    <3>1. <<>> \in Seq(PageSet) /\ data \in Seq(Seq(PageSet)) BY <1>0 DEF TypeOK
    <3> QED BY <2>3, <3>1, AppendProperties, LenProperties
  <2>5. v \in Workers /\ v.pc = "size" /\ v.offset = me.offset /\ v.bsize = me.bsize
    <3> DEFINE n == secure'
    <3>1. n \in Nat BY <2>3, <2>4
    <3> HIDE DEF n, me
    <3>2. /\ [me EXCEPT !.pc = "size", !.nfd = n] \in Workers
          /\ [me EXCEPT !.pc = "size", !.nfd = n].pc = "size"
          /\ [me EXCEPT !.pc = "size", !.nfd = n].offset = me.offset
          /\ [me EXCEPT !.pc = "size", !.nfd = n].bsize = me.bsize
      BY <1>2, <3>1 DEF Workers, WorkerPlace
    <3> QED BY <3>2 DEF n
  <2> HIDE DEF v
  <2>6. Threads(p) BY <1>1, <2>4 DEF Threads
  <2> QED BY <1>1, <1>3, <2>1, <2>5, <2>6, PreparingContent
<1>8. CASE secure_size(p)
  <2> DEFINE v == [me EXCEPT !.pc = "header"]
  <2>1. worker' = [worker EXCEPT ![p][0] = v] /\ secure' = secure BY <1>8 DEF secure_size, WMove
  <2>2. v \in Workers /\ v.pc = "header" /\ v.offset = me.offset /\ v.bsize = me.bsize
    BY <1>2 DEF Workers, WorkerPlace
  <2>3. me.nfd = secure BY <1>2, <1>8 DEF secure_size, WAt, Stages
  <2>4. Len(data'[secure]) = call[p].size + 1 BY <1>8, SecureSizeStep
  <2>5. \A g \in 1..Len(data) : g # secure => data'[g] = data[g]
    BY <1>0, <1>8, <2>3 DEF secure_size, TypeOK
  <2> HIDE DEF v
  <2>6. Threads(p) BY <1>1, <2>5 DEF Threads
  <2>7. ~ strayed => Len(data'[secure']) = Len(text) + 1 BY <1>4, <2>1, <2>4
  <2> QED BY <1>1, <1>3, <2>1, <2>2, <2>6, <2>7, PreparingContent
<1>9. CASE secure_header(p)
  <2> DEFINE v == [me EXCEPT !.pc = "wait"]
  <2>1. worker' = [worker EXCEPT ![p][0] = v] /\ secure' = secure BY <1>9 DEF secure_header, WMove
  <2>2. v \in Workers /\ v.pc = "wait" /\ v.offset = me.offset /\ v.bsize = me.bsize
    BY <1>2 DEF Workers, WorkerPlace
  <2>3. me.nfd = secure /\ me.pc = "header" BY <1>2, <1>9 DEF secure_header, WAt, Stages
  <2>4. data'[secure] = Put(data[secure], 1, <<Header>>) /\ data[secure] \in Seq(PageSet)
    BY <1>9, SecureHeaderStep
  <2>5. \A g \in 1..Len(data) : g # secure => data'[g] = data[g]
    BY <1>0, <1>9, <2>3 DEF secure_header, TypeOK
  <2> HIDE DEF v
  <2>6. Threads(p) BY <1>1, <2>5 DEF Threads
  <2>7. ASSUME ~ strayed PROVE Len(data'[secure']) = Len(text) + 1
    <3>1. ThreadsCopy(p) BY <2>7 DEF Content
    <3>2. Len(data[secure]) = Len(text) + 1 BY <1>1, <2>3, <3>1 DEF ThreadsCopy
    <3>3. Len(data'[secure]) = Longer(1, Len(data[secure]))
      <4> DEFINE s == data[secure]
      <4>1. s \in Seq(PageSet) /\ Header \in PageSet /\ 1 \in Nat /\ 1 >= 1 BY <2>4, PageTypes
      <4> HIDE DEF s
      <4>2. Len(Put(s, 1, <<Header>>)) = Longer(1, Len(s)) BY <4>1, PutOne, Zenon
      <4> QED BY <2>4, <4>2 DEF s
    <3> QED BY <1>4, <2>1, <2>7, <3>2, <3>3 DEF Longer
  <2> QED BY <1>1, <1>3, <2>1, <2>2, <2>6, <2>7, PreparingContent
<1> QED BY <1>6, <1>7, <1>8, <1>9 DEF First

LEMMA LookContent ==
  ASSUME Control, Content, NEW p \in Process, NEW w \in Worker,
         spin(p, w) \/ look_again(p, w) \/ open_old(p, w) \/ open_new(p, w)
  PROVE  Content'
<1> DEFINE me == worker[p][w]
<1>1. /\ At(p, "join") /\ UNCHANGED <<disk, call, opens, stores, history>>
      /\ me.pc \in {"wait", "again", "open_old", "open_new"}
  BY DEF spin, look_again, open_old, open_new, WAt
<1>2. TypeOK /\ me \in Workers BY <1>1, AtStage
<1>3. Threads(p) /\ secure' = secure /\ data' = data BY <1>1 DEF Threads, disk, history
<1>4. worker \in [Process -> [Worker -> Workers]] BY <1>2 DEF TypeOK
<1>5. PICK v \in Workers :
        /\ worker' = [worker EXCEPT ![p][w] = v] /\ v.offset = me.offset /\ v.bsize = me.bsize
        /\ v.pc \in {"again", "open_old", "open_new", "copy"}
  <2>1. CASE spin(p, w)
    <3> DEFINE v == [me EXCEPT !.pc = "again"]
    <3>1. worker' = [worker EXCEPT ![p][w] = v] BY <2>1 DEF spin, WMove
    <3>2. v \in Workers /\ v.pc = "again" /\ v.offset = me.offset /\ v.bsize = me.bsize
      BY <1>2 DEF Workers, WorkerPlace
    <3> QED BY <3>1, <3>2
  <2>2. CASE look_again(p, w)
    <3> DEFINE v == [me EXCEPT !.pc = "open_old"]
    <3>1. secure # None BY <2>2, LookStep
    <3>2. worker' = [worker EXCEPT ![p][w] = v] BY <2>2, <3>1 DEF look_again, WMove
    <3>3. v \in Workers /\ v.pc = "open_old" /\ v.offset = me.offset /\ v.bsize = me.bsize
      BY <1>2 DEF Workers, WorkerPlace
    <3> QED BY <3>2, <3>3
  <2>3. CASE open_old(p, w)
    <3> DEFINE v == [me EXCEPT !.pc = "open_new", !.ofd = path]
    <3>1. worker' = [worker EXCEPT ![p][w] = v] BY <1>4, <2>3 DEF open_old
    <3>2. v \in Workers /\ v.pc = "open_new" /\ v.offset = me.offset /\ v.bsize = me.bsize
      BY <1>2, Typed DEF Workers, WorkerPlace
    <3> QED BY <3>1, <3>2
  <2>4. CASE open_new(p, w)
    <3> DEFINE v == [me EXCEPT !.pc = "copy", !.nfd = secure]
    <3>1. secure # None BY <2>4, OpenNewStep
    <3>2. worker' = [worker EXCEPT ![p][w] = v] BY <1>4, <2>4, <3>1 DEF open_new
    <3>3. v \in Workers /\ v.pc = "copy" /\ v.offset = me.offset /\ v.bsize = me.bsize
      BY <1>2, Typed DEF Workers, WorkerPlace
    <3> QED BY <3>2, <3>3
  <2> QED BY <2>1, <2>2, <2>3, <2>4
<1>6. v.pc \notin Ended /\ v.pc \notin {"create", "remove", "size"} BY <1>5 DEF Ended
<1> QED BY <1>1, <1>3, <1>5, <1>6, WaitingContent

\* What a copying thread has before it, while no page has strayed.
LEMMA BeforeCopy ==
  ASSUME Control, Content, NEW p \in Process, NEW w \in Worker, WAt(p, w, "copy"), ~ strayed
  PROVE  /\ data[path] = text /\ text \in Seq(PageSet) /\ Len(text) \in Nat
         /\ data[secure] \in Seq(PageSet) /\ Len(data[secure]) = Len(text) + 1
         /\ Copied(p) /\ Place(worker[p][w], w)
         /\ worker[p][w].offset \in Nat /\ worker[p][w].bsize \in Int
         /\ \A u \in Worker : Begin(u) \in Nat /\ Share(u) \in Int
<1>1. At(p, "join") /\ worker[p][w].pc = "copy" BY DEF WAt
<1>2. Rebuilding(p) BY <1>1 DEF Rebuilding, At
<1>3. data[path] = text /\ text \in Seq(PageSet) /\ Len(text) \in Nat BY <1>2, PlainText
<1>4. /\ worker[p][0].pc \notin Preparing /\ secure # None /\ worker[p][w] \in Workers
      /\ data[secure] \in Seq(PageSet)
  BY <1>1, AtStage DEF Preparing
<1>5. ThreadsCopy(p) BY DEF Content
<1>6. Len(data[secure]) = Len(text) + 1 /\ Copied(p) /\ Place(worker[p][w], w)
  BY <1>1, <1>4, <1>5 DEF ThreadsCopy, Preparing
<1>7. ASSUME NEW u \in Worker PROVE Begin(u) \in Nat /\ Share(u) \in Int
  <2>1. Average(Len(text)) \in Nat /\ u \in Nat BY <1>3, AverageType, WorkerNumbers
  <2>2. Average(Len(text)) * u \in Nat /\ Average(Len(text)) * (u + 1) \in Int BY <2>1
  <2> QED BY <1>3, <2>2 DEF Begin, Share
<1>8. worker[p][w].offset \in Nat /\ worker[p][w].bsize \in Int BY <1>4 DEF Workers
<1> QED BY <1>3, <1>4, <1>6, <1>7, <1>8

\* The page the thread copies is the one that comes next in its share.
LEMMA CopyPageContent ==
  ASSUME Control, Content, NEW p \in Process, NEW w \in Worker, copy_page(p, w)
  PROVE  Content'
<1> DEFINE me == worker[p][w]
           d == CopiedPage(me)
           o == IF me.offset < Len(data[me.ofd]) THEN me.offset + 1 ELSE me.offset
           b == me.bsize - 1
           v == [me EXCEPT !.bsize = b, !.offset = o]
<1>1. /\ WAt(p, w, "copy") /\ At(p, "join") /\ me.bsize >= 1 /\ me.pc = "copy"
      /\ data' = d /\ UNCHANGED <<path, secure, call, opens, stores, history>>
      /\ worker' = [worker EXCEPT ![p][w] = v]
  BY DEF copy_page, WAt
<1>2. /\ me \in Workers /\ me.ofd = path /\ Len(data[path]) \in Nat
      /\ \A g \in 1..Len(data) : g # secure => d[g] = data[g]
      /\ me.offset >= Len(data[path]) => d = data
      /\ me.offset < Len(data[path]) =>
           /\ data[path][me.offset + 1] \in PageSet
           /\ Once(data[path][me.offset + 1]) \in PageSet
           /\ d[secure] = Put(data[secure], me.offset + 2, <<Once(data[path][me.offset + 1])>>)
  BY <1>1, CopyForm
<1>3. TypeOK BY DEF Control
<1>4. o = (IF me.offset < Len(data[path]) THEN me.offset + 1 ELSE me.offset) /\ b = me.bsize - 1
  BY <1>2
<1>5. me = worker[p][w] OBVIOUS
<1> HIDE DEF d, o, b, me
<1>6. o \in Nat /\ b \in Int BY <1>2, <1>4 DEF Workers
<1>7. v \in Workers /\ v.pc = "copy" /\ v.offset = o /\ v.bsize = b BY <1>1, <1>2, <1>6 DEF Workers
<1> HIDE DEF v
<1>8. Threads(p) BY <1>1, <1>2 DEF Threads, history
<1>9. /\ worker'[p][w] = v /\ \A u \in Worker : u # w => worker'[p][u] = worker[p][u]
  BY <1>1, <1>3, <1>5, <1>7, WorkerMoves
<1>10. text' = text /\ secure' = secure BY <1>1 DEF history
<1>11. ASSUME ~ strayed
       PROVE  Place(v, w) /\ Len(data'[secure']) = Len(text) + 1 /\ Copied(p)'
  <2>1. /\ data[path] = text /\ text \in Seq(PageSet) /\ Len(text) \in Nat
        /\ data[secure] \in Seq(PageSet) /\ Len(data[secure]) = Len(text) + 1
        /\ Copied(p) /\ Place(me, w) /\ me.offset \in Nat /\ me.bsize \in Int
        /\ \A u \in Worker : Begin(u) \in Nat /\ Share(u) \in Int
    BY <1>1, <1>5, <1>11, BeforeCopy
  <2>2. CASE me.offset >= Len(text)
    <3>1. d = data /\ o = me.offset BY <1>2, <1>4, <2>1, <2>2
    <3>2. Place(v, w) BY <1>7, <2>1, <2>2, <3>1 DEF Place, Ended
    <3>3. \A u \in Worker : worker'[p][u].offset = worker[p][u].offset BY <1>5, <1>7, <1>9, <3>1
    <3>4. data' = data BY <1>1, <3>1
    <3>5. Copied(p)' BY <1>10, <2>1, <3>3, <3>4 DEF Copied, Begin
    <3> QED BY <1>10, <2>1, <3>2, <3>4, <3>5
  <2>3. CASE me.offset < Len(text)
    <3>1. o = me.offset + 1 BY <1>4, <2>1, <2>3
    <3>2. Place(v, w)
      <4>1. me.offset >= Begin(w) /\ me.offset + me.bsize = Share(w) BY <2>1, <2>3 DEF Place
      <4>2. v.offset >= Begin(w) /\ v.offset + v.bsize = Share(w)
        <5>1. Begin(w) \in Nat /\ Share(w) \in Int /\ me.offset \in Nat /\ me.bsize \in Int BY <2>1
        <5> QED BY <1>4, <1>7, <3>1, <4>1, <5>1
      <4> QED BY <1>7, <4>2 DEF Place, Ended
    <3> DEFINE x == Once(text[me.offset + 1])
               i == me.offset + 2
    <3>3. x \in PageSet /\ d[secure] = Put(data[secure], i, <<x>>) BY <1>2, <2>1, <2>3
    <3>4. i \in Nat /\ i >= 1 BY <2>1
    <3>5. i = me.offset + 2 /\ x = Once(text[me.offset + 1]) OBVIOUS
    <3> HIDE DEF x, i
    <3>6. /\ Len(d[secure]) = Longer(i, Len(data[secure])) /\ d[secure][i] = x
          /\ \A k \in 1..Len(data[secure]) : k # i => d[secure][k] = data[secure][k]
      <4> DEFINE s == data[secure]
                 t == Put(s, i, <<x>>)
      <4>1. s \in Seq(PageSet) /\ d[secure] = t BY <2>1, <3>3
      <4>2. s = data[secure] OBVIOUS
      <4> HIDE DEF s
      <4>3. /\ Len(t) = Longer(i, Len(s)) /\ t[i] = x
            /\ \A k \in 1..Len(s) : k # i => t[k] = s[k]
        BY <3>3, <3>4, <4>1, PutOne
      <4> HIDE DEF t
      <4> QED BY <4>1, <4>2, <4>3
    <3>7. Len(d[secure]) = Len(text) + 1
      <4>1. i <= Len(text) + 1 BY <2>1, <2>3, <3>5
      <4> QED BY <2>1, <3>4, <3>6, <4>1 DEF Longer
    <3>8. ASSUME NEW u \in Worker, NEW k \in Begin(u)..(worker'[p][u].offset - 1), k < Len(text)
          PROVE  d[secure][k + 2] = Once(text[k + 1])
      <4>1. k \in Nat
        <5>1. Begin(u) \in Nat BY <2>1
        <5> QED BY <3>8, <5>1
      <4>2. CASE k = me.offset
        <5>1. k + 2 = i BY <3>5, <4>2
        <5> QED BY <3>5, <3>6, <4>2, <5>1
      <4>3. CASE k # me.offset
        <5>1. k \in Begin(u)..(worker[p][u].offset - 1)
          <6>1. CASE u = w
            <7>1. worker'[p][u].offset = me.offset + 1 /\ worker[p][u].offset = me.offset
              BY <1>5, <1>7, <1>9, <3>1, <6>1
            <7>2. Begin(u) \in Nat BY <2>1
            <7>3. k >= Begin(u) /\ k <= me.offset
              <8>1. worker'[p][u].offset - 1 = me.offset /\ me.offset \in Nat BY <2>1, <7>1
              <8>2. k \in Begin(u)..(worker'[p][u].offset - 1) BY <3>8
              <8>3. k \in Begin(u)..me.offset BY <8>1, <8>2, Zenon
              <8> QED BY <7>2, <8>1, <8>3
            <7>4. k <= me.offset - 1 BY <2>1, <4>1, <4>3, <7>3
            <7> QED BY <2>1, <4>1, <7>1, <7>2, <7>3, <7>4
          <6>2. CASE u # w BY <1>9, <3>8, <6>2
          <6> QED BY <6>1, <6>2
        <5>2. data[secure][k + 2] = Once(text[k + 1]) BY <2>1, <3>8, <5>1 DEF Copied
        <5>3. k + 2 \in 1..Len(data[secure]) BY <2>1, <3>8, <4>1
        <5>4. k + 2 # i BY <2>1, <3>5, <4>1, <4>3
        <5> QED BY <3>6, <5>2, <5>3, <5>4
      <4> QED BY <4>2, <4>3
    <3>9. Copied(p)' BY <1>1, <1>10, <3>8 DEF Copied, Begin
    <3> QED BY <1>1, <1>10, <3>2, <3>7, <3>9
  <2> QED BY <2>1, <2>2, <2>3
<1> QED BY <1>1, <1>7, <1>8, <1>11, ThreadContent

\* A thread has nothing left to copy when it ends, the last one too.
LEMMA CopyRestContent ==
  ASSUME Control, Content, NEW p \in Process, NEW w \in Worker, copy_rest(p, w)
  PROVE  Content'
<1> DEFINE me == worker[p][w]
           d == CopiedPage(me)
           place == IF w = Last THEN "path" ELSE "null"
           v == [me EXCEPT !.pc = place]
<1>1. /\ WAt(p, w, "copy") /\ At(p, "join") /\ me.bsize < 1 /\ me.pc = "copy"
      /\ data' = (IF w = Last THEN d ELSE data)
      /\ UNCHANGED <<path, secure, call, opens, stores, history>>
      /\ worker' = [worker EXCEPT ![p][w] = v]
  BY DEF copy_rest, WAt, WMove
<1>2. /\ me \in Workers /\ Len(data[path]) \in Nat
      /\ \A g \in 1..Len(data) : g # secure => d[g] = data[g]
      /\ me.offset >= Len(data[path]) => d = data
  BY <1>1, CopyForm
<1>3. TypeOK BY DEF Control
<1>4. me = worker[p][w] OBVIOUS
<1>5. place \in Ended BY DEF Ended
<1> HIDE DEF d, me, place
<1>6. v \in Workers /\ v.pc = place /\ v.offset = me.offset /\ v.bsize = me.bsize
  BY <1>2, <1>5 DEF Workers, WorkerPlace, Ended
<1> HIDE DEF v
<1>7. \A g \in 1..Len(data) : g # secure => data'[g] = data[g] BY <1>1, <1>2
<1>8. Threads(p) BY <1>1, <1>7 DEF Threads, history
<1>9. /\ worker'[p][w] = v /\ \A u \in Worker : u # w => worker'[p][u] = worker[p][u]
  BY <1>1, <1>3, <1>4, <1>6, WorkerMoves
<1>10. text' = text /\ secure' = secure BY <1>1 DEF history
<1>11. ASSUME ~ strayed
       PROVE  Place(v, w) /\ Len(data'[secure']) = Len(text) + 1 /\ Copied(p)'
  <2>1. /\ data[path] = text /\ Len(text) \in Nat /\ Len(data[secure]) = Len(text) + 1
        /\ Copied(p) /\ Place(me, w) /\ me.offset \in Nat /\ me.bsize \in Int
        /\ \A u \in Worker : Begin(u) \in Nat /\ Share(u) \in Int
    BY <1>1, <1>4, <1>11, BeforeCopy
  <2>2. me.offset >= Share(w) \/ me.offset >= Len(text)
    <3>1. me.offset + me.bsize = Share(w) \/ me.offset >= Len(text) BY <2>1 DEF Place
    <3>2. Share(w) \in Int BY <2>1
    <3> QED BY <1>1, <2>1, <3>1, <3>2
  <2>3. me.offset >= Begin(w) BY <2>1 DEF Place
  <2>4. Place(v, w)
    <3>1. me.offset + me.bsize = Share(w) \/ me.offset >= Len(text) BY <2>1 DEF Place
    <3>2. v.pc \in Ended BY <1>5, <1>6
    <3> QED BY <1>6, <2>2, <2>3, <3>1, <3>2 DEF Place, Ended
  <2>5. data' = data
    <3>1. CASE w = Last
      <4>1. Share(w) = Len(text)
        <5>1. ~ (w < Last) BY <3>1, WorkerNumbers
        <5> QED BY <5>1 DEF Share
      <4>2. me.offset >= Len(data[path]) BY <2>1, <2>2, <4>1
      <4> QED BY <1>1, <1>2, <3>1, <4>2
    <3>2. CASE w # Last BY <1>1, <3>2
    <3> QED BY <3>1, <3>2
  <2>6. \A u \in Worker : worker'[p][u].offset = worker[p][u].offset BY <1>4, <1>6, <1>9
  <2>7. Copied(p)' BY <1>10, <2>1, <2>5, <2>6 DEF Copied, Begin
  <2> QED BY <1>10, <2>1, <2>4, <2>5, <2>7
<1> QED BY <1>1, <1>4, <1>6, <1>8, <1>11, ThreadContent

\* A caller whose descriptor is neither late nor of a file that could not be renamed
\* has the file under the path, and translates just when it has a header.
LEMMA InTurn ==
  ASSUME Control, NEW p \in Process, Done(p), ~ late[p], ~ unrenamed[p]
  PROVE  /\ call[p].fd = path /\ path # None /\ path \in 1..Len(data) /\ data[path] \in Seq(PageSet)
         /\ (Translated(p) <=> Headed(data[path]))
<1>1. TypeOK /\ CallKnows(p) /\ HasFile(p) /\ RecordedHeaded(p) BY DEF Control
<1>2. call[p].fd = path BY <1>1 DEF HasFile
<1>3. path # None BY <1>1 DEF CallKnows, Found, Done, At
<1>4. call[p].recorded => Headed(data[path]) BY <1>1 DEF RecordedHeaded, Sealed
<1>5. Translated(p) <=> Headed(data[path]) BY <1>2, <1>4 DEF Translated
<1> QED BY <1>1, <1>2, <1>3, <1>5, Typed

LEMMA StoreContent ==
  ASSUME Control, PlainFiles, Content, NEW p \in Process, Store(p)
  PROVE  Content'
<1>0. TypeOK BY DEF Control
<1> DEFINE x == Page(Stored + stores)
           new == IF call[p].recorded THEN <<x>> ELSE Encrypted(<<x>>)
<1>1. /\ Done(p) /\ stores' = stores + 1 /\ text' = Put(text, 1, new)
      /\ strayed' = (strayed \/ late[p] \/ unrenamed[p])
      /\ UNCHANGED <<path, secure, call, worker, late, unrenamed>>
  BY DEF Store
<1>2. stores' # 0 BY <1>0, <1>1 DEF TypeOK
<1>3. data'[call[p].fd] = Written(p) BY StoreStep
<1>4. \A q \in Process : LateReads(q)' BY <1>2 DEF LateReads
<1>5. ASSUME ~ strayed'
      PROVE  Reads' = text' /\ \A q \in Process : SmallReads(q)' /\ ThreadsCopy(q)'
  <2>1. ~ strayed /\ ~ late[p] /\ ~ unrenamed[p] BY <1>1, <1>5
  <2>2. /\ call[p].fd = path /\ path # None /\ path \in 1..Len(data) /\ data[path] \in Seq(PageSet)
        /\ (Translated(p) <=> Headed(data[path]))
    BY <1>1, <2>1, InTurn
  <2>3. Reads = text BY <2>1 DEF Content
  <2>4. x \in PageSet BY <1>1, WrittenForm
  <2>5. call[p].recorded <=> Headed(data[path])
    BY <1>1, <2>2 DEF PlainFiles, PlainCaller, Translated
  <2>6. path' = path /\ data'[path'] = Written(p) BY <1>1, <1>3, <2>2
  <2>7. ASSUME Headed(data[path]) PROVE Reads' = text'
    <3> DEFINE t == Put(data[path], 2, Encrypted(<<x>>))
    <3>1. text' = Put(text, 1, <<x>>) /\ Written(p) = t BY <1>1, <2>2, <2>5, <2>7 DEF Written
    <3> HIDE DEF x
    <3>2. Headed(t) /\ Plain(t) = Put(Plain(data[path]), 1, <<x>>) BY <2>2, <2>4, <2>7, PlainPut
    <3> HIDE DEF t
    <3>3. Headed(data[path])' BY <2>6, <3>1, <3>2 DEF Headed
    <3>4. Plain(data[path])' = Plain(t) BY <2>6, <3>1 DEF Plain, Decrypted, Layers
    <3>5. Plain(data[path]) = text BY <2>2, <2>3, <2>7 DEF Reads
    <3>6. path' # None BY <2>2, <2>6
    <3>7. Reads' = Plain(t) BY <3>3, <3>4, <3>6 DEF Reads
    <3>8. Plain(t) = text' BY <3>1, <3>2, <3>5
    <3> QED BY <3>7, <3>8
  <2>8. ASSUME ~ Headed(data[path]) PROVE Reads' = text'
    <3>1. text' = Put(text, 1, Encrypted(<<x>>)) /\ Written(p) = Put(data[path], 1, Encrypted(<<x>>))
      BY <1>1, <2>2, <2>5, <2>8 DEF Written
    <3>2. data[path] = text BY <2>2, <2>3, <2>8 DEF Reads
    <3>3. data'[path'] = text' BY <2>6, <3>1, <3>2
    <3>4. ~ Headed(Written(p)) BY <1>1, <2>2, <2>8, WrittenForm
    <3>5. ~ Headed(data[path])' BY <2>6, <3>4 DEF Headed
    <3>6. path' # None BY <2>2, <2>6
    <3>7. Reads' = data'[path'] BY <3>5, <3>6 DEF Reads
    <3> QED BY <3>3, <3>7
  <2>9. ASSUME NEW q \in Process PROVE SmallReads(q)' /\ ThreadsCopy(q)'
    <3>1. ~ Rebuilding(q)
      <4>1. CASE q = p BY <1>1, <4>1 DEF Rebuilding, Done, At
      <4>2. CASE q # p BY <1>1, <2>1, <4>2, WhileRebuilding
      <4> QED BY <4>1, <4>2
    <3> QED BY <1>1, <3>1 DEF Rebuilding, SmallReads, ThreadsCopy, At
  <2> QED BY <2>7, <2>8, <2>9
<1> QED BY <1>2, <1>4, <1>5 DEF Content

LEMMA ContentStep ==
  ASSUME Control, PlainFiles, Content, Next, ~ clash'
  PROVE  Content'
<1>1. ASSUME NEW p \in Process, Main(p) PROVE Content'
  <2>1. CASE access_path(p) \/ check_header(p) \/ reopen(p) BY <2>1, AccessContent
  <2>2. CASE linker_open(p)
    <3>1. CASE path = None /\ call[p].creat BY <2>2, <3>1, CreateContent
    <3>2. CASE path # None \/ ~ call[p].creat BY <2>2, <3>2, FindContent
    <3> QED BY <3>1, <3>2
  <2>3. CASE write_header(p) BY <2>3, HeaderContent
  <2>4. CASE access_secure(p)
    <3>1. CASE secure = None BY <2>4, <3>1, RebuildContent
    <3>2. CASE secure # None BY <2>4, <3>2, LateContent
    <3> QED BY <3>1, <3>2
  <2>5. CASE file_size(p) BY <2>5, SizeContent
  <2>6. CASE small_open(p) \/ small_read(p) BY <2>6, SmallContent
  <2>7. CASE small_write(p) BY <2>7, SmallWriteContent
  <2>8. CASE join_rename(p) BY <2>8, JoinContent
  <2> QED BY <1>1, <2>1, <2>2, <2>3, <2>4, <2>5, <2>6, <2>7, <2>8 DEF Main
<1>2. ASSUME NEW p \in Process, First(p) PROVE Content' BY <1>2, FirstContent
<1>3. ASSUME NEW p \in Process, NEW w \in Worker, Run(p, w) PROVE Content'
  <2>1. CASE spin(p, w) \/ look_again(p, w) \/ open_old(p, w) \/ open_new(p, w) BY <2>1, LookContent
  <2>2. CASE copy_page(p, w) BY <2>2, CopyPageContent
  <2>3. CASE copy_rest(p, w) BY <2>3, CopyRestContent
  <2> QED BY <1>3, <2>1, <2>2, <2>3 DEF Run
<1>4. ASSUME NEW p \in Process, NEW creat \in BOOLEAN, Open(p, creat) PROVE Content'
  BY <1>4, OpenContent
<1>5. ASSUME NEW p \in Process, Store(p) PROVE Content' BY <1>5, StoreContent
<1>6. ASSUME NEW p \in Process, Leave(p) PROVE Content' BY <1>6, LeaveContent
<1>7. CASE Outsider BY <1>7, OutsiderContent
<1> QED BY <1>1, <1>2, <1>3, <1>4, <1>5, <1>6, <1>7 DEF Next

LEMMA InitContent == Init => Content
<1> SUFFICES ASSUME Init PROVE Content OBVIOUS
<1>1. text \in Seq(PageSet) /\ ~ Headed(text) BY InitText
<1>2. /\ call = [p \in Process |-> Idle] /\ strayed = FALSE
      /\ (data = <<text>> /\ path = 1) \/ (text = <<>> /\ data = <<>> /\ path = None)
  BY DEF Init
<1>3. Reads = text
  <2>1. CASE data = <<text>> /\ path = 1
    <3>1. data[path] = text /\ path # None BY <2>1 DEF None
    <3> QED BY <1>1, <3>1 DEF Reads
  <2>2. CASE text = <<>> /\ path = None BY <2>2 DEF Reads
  <2> QED BY <1>2, <2>1, <2>2
<1>4. \A p \in Process : call[p].pc = "idle" BY <1>2, IdleCall
<1> QED BY <1>2, <1>3, <1>4 DEF Content, LateReads, SmallReads, ThreadsCopy, Done, At

\* The inductive invariant of the data, which rests on that of the control.
LEMMA ContentAlways == Spec => []InTurnContent
<1>1. Init => InTurnContent BY InitContent DEF InTurnContent
<1>2. InTurnControl /\ InTurnContent /\ [Next]_vars => InTurnContent'
  <2> SUFFICES ASSUME InTurnControl, InTurnContent, [Next]_vars, ~ clash' PROVE Content'
    BY DEF InTurnContent
  <2>1. CASE Next
    <3>1. Control /\ PlainFiles /\ Content BY <2>1, ClashStays DEF InTurnControl, InTurnContent
    <3> QED BY <2>1, <3>1, ContentStep
  <2>2. CASE UNCHANGED vars
    <3>1. Content /\ ~ clash BY <2>2 DEF InTurnContent, vars, history
    <3>2. /\ data' = data /\ path' = path /\ secure' = secure /\ call' = call /\ worker' = worker
          /\ stores' = stores /\ text' = text /\ late' = late /\ strayed' = strayed
      BY <2>2 DEF vars, disk, history
    <3>3. Reads' = Reads BY <3>2 DEF Reads, Plain, Decrypted, Layers, Headed
    <3>4. ASSUME NEW p \in Process
          PROVE  /\ LateReads(p)' <=> LateReads(p)
                 /\ SmallReads(p)' <=> SmallReads(p)
                 /\ ThreadsCopy(p)' <=> ThreadsCopy(p)
      <4>1. LateReads(p)' <=> LateReads(p) BY <3>2 DEF LateReads, Done, At, Headed
      <4>2. SmallReads(p)' <=> SmallReads(p) BY <3>2 DEF SmallReads, At
      <4>3. Copied(p)' <=> Copied(p) BY <3>2 DEF Copied, Begin
      <4>4. \A w \in Worker : Place(worker[p][w], w)' <=> Place(worker[p][w], w)
        BY <3>2 DEF Place, Begin, Share
      <4>5. ThreadsCopy(p)' <=> ThreadsCopy(p) BY <3>2, <4>3, <4>4 DEF ThreadsCopy, At
      <4> QED BY <4>1, <4>2, <4>5
    <3> QED BY <3>1, <3>2, <3>3, <3>4 DEF Content
  <2> QED BY <2>1, <2>2
<1> QED BY <1>1, <1>2, ControlAlways, PTL DEF Spec

\* Whatever the calls of open do to the file, and whenever they are killed, it goes
\* on reading as its text and what write has put into it, unless it is rebuilt out of
\* turn or a page has strayed.
THEOREM TextStays == Spec => []TextKept
<1>1. InTurnContent => TextKept BY DEF InTurnContent, Content, TextKept
<1> QED BY <1>1, ContentAlways, PTL

\* What a caller reads through the descriptor it was given is the text of the file,
\* translated or not.
THEOREM ViewStays == Spec => []ViewKept
<1>1. InTurnControl /\ InTurnContent => ViewKept
  <2> SUFFICES ASSUME InTurnControl, InTurnContent, NEW p \in Process, Done(p), ~ clash, ~ strayed,
                      ~ unrenamed[p], late[p] => stores = 0
               PROVE  View(p) = text
    BY DEF ViewKept
  <2>1. Control /\ Content BY DEF InTurnControl, InTurnContent
  <2>2. CASE late[p]
    <3>1. data[call[p].fd] = text /\ ~ Headed(data[call[p].fd])
      BY <2>1, <2>2 DEF Content, LateReads
    <3>2. ~ call[p].recorded BY <2>1, <2>2 DEF Control, RecordedHeaded, Done, At
    <3> QED BY <3>1, <3>2 DEF View, Translated
  <2>3. CASE ~ late[p]
    <3>1. call[p].fd = path /\ path # None /\ (Translated(p) <=> Headed(data[path]))
      BY <2>1, <2>3, InTurn
    <3>2. Reads = text BY <2>1 DEF Content
    <3> QED BY <3>1, <3>2 DEF View, Reads
  <2> QED BY <2>2, <2>3
<1> QED BY <1>1, ControlAlways, ContentAlways, PTL
=============================================================================
