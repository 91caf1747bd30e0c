---------------------------- MODULE RebuildProofs -----------------------------
(***************************************************************************)
(* Theorems about Rebuild for every size of the file, every number of      *)
(* threads, every page and block size and every set of faults.             *)
(***************************************************************************)
EXTENDS Rebuild, TLAPS

\* What a step of a thread leaves alone, whichever thread it is: the plain file
\* and everything the calling thread decides.
LEMMA ThreadsLeaveFile ==
  ASSUME CreateSecure \/ WriteHeader \/ (\E t \in Thread : Run(t))
  PROVE  UNCHANGED <<tsize, file, main, result>>
<1>1. CASE CreateSecure BY <1>1 DEF CreateSecure
<1>2. CASE WriteHeader BY <1>2 DEF WriteHeader
<1>3. ASSUME NEW t \in Thread, Run(t) PROVE UNCHANGED <<tsize, file, main, result>>
  <2>1. CASE SkipHeader(t) BY <2>1 DEF SkipHeader
  <2>2. CASE LeaveLoop(t) BY <2>2 DEF LeaveLoop
  <2>3. CASE OpenBoth(t) BY <2>3 DEF OpenBoth, Open
  <2>4. CASE CopyPage(t) BY <2>4 DEF CopyPage
  <2>5. CASE CopyRest(t) BY <2>5 DEF CopyRest
  <2> QED BY <1>3, <2>1, <2>2, <2>3, <2>4, <2>5 DEF Run
<1> QED BY <1>1, <1>2, <1>3

\* Every step keeps the plain file until the call has returned 1.
LEMMA OriginalStep ==
  ASSUME tsize \in Sizes, OriginalKept, [Next]_vars
  PROVE  OriginalKept'
<1>1. ASSUME UNCHANGED tsize,
             file = Original \/ (main = "done" /\ result = 1)
               => file' = Original \/ (main' = "done" /\ result' = 1)
      PROVE  OriginalKept'
  <2>1. Original' = Original BY <1>1 DEF Original
  <2> QED BY <1>1, <2>1 DEF OriginalKept
<1>2. CASE RebuildSmall
  <2>1. ~ (tsize > Page * THREADS_COUNT) /\ UNCHANGED tsize
    <3>1. tsize <= Page * THREADS_COUNT BY <1>2 DEF RebuildSmall
    <3>2. ~ (tsize > Page * THREADS_COUNT)
      <4>1. Page \in Nat /\ THREADS_COUNT \in Nat /\ tsize \in Nat
        BY RebuildAssumption
      <4>2. Page * THREADS_COUNT \in Nat BY <4>1
      <4> QED BY <3>1, <4>1, <4>2
    <3> QED BY <1>2, <3>2 DEF RebuildSmall
  <2> QED BY <2>1 DEF OriginalKept
<1>3. CASE StartThreads BY <1>1, <1>3 DEF StartThreads
<1>4. ASSUME NEW t \in Thread, CreateThread(t) PROVE OriginalKept'
  <2>1. main = "create" /\ UNCHANGED <<tsize, file, result>> BY <1>4 DEF CreateThread
  <2> QED BY <1>1, <2>1
<1>5. CASE JoinThreads
  <2>1. main = "join" /\ main' = "done" /\ UNCHANGED tsize BY <1>5 DEF JoinThreads
  <2>2. result' = 1 \/ UNCHANGED file BY <1>5 DEF JoinThreads
  <2> QED BY <1>1, <2>1, <2>2
<1>6. CASE CreateSecure \/ WriteHeader \/ (\E t \in Thread : Run(t))
  BY <1>1, <1>6, ThreadsLeaveFile
<1>7. CASE Crash
  <2>1. main # "done" /\ UNCHANGED <<tsize, file>> BY <1>7 DEF Crash
  <2> QED BY <1>1, <2>1
<1>8. CASE UNCHANGED vars BY <1>1, <1>8 DEF vars
<1> QED BY <1>2, <1>3, <1>4, <1>5, <1>6, <1>7, <1>8 DEF Next, Main

\* The size that open found is not changed by the rebuild.
LEMMA SizeStep ==
  ASSUME tsize \in Sizes, [Next]_vars
  PROVE  tsize' \in Sizes
<1>1. CASE Main
  BY <1>1 DEF Main, RebuildSmall, StartThreads, CreateThread, JoinThreads
<1>2. CASE CreateSecure \/ WriteHeader \/ (\E t \in Thread : Run(t))
  BY <1>2, ThreadsLeaveFile
<1>3. CASE Crash \/ UNCHANGED vars BY <1>3 DEF Crash, vars
<1> QED BY <1>1, <1>2, <1>3 DEF Next

\* A file of more than THREADS_COUNT pages is never seen half rebuilt, for any
\* number of threads and whatever fails: until the threads are joined and the
\* last of them has returned a path, the name leads to the plain file.
THEOREM OriginalSafe == Spec => []OriginalKept
<1> DEFINE IInv == tsize \in Sizes /\ OriginalKept
<1>1. Init => IInv BY DEF Init, OriginalKept
<1>2. IInv /\ [Next]_vars => IInv' BY OriginalStep, SizeStep
<1>3. IInv => OriginalKept OBVIOUS
<1> HIDE DEF IInv
<1> QED BY <1>1, <1>2, <1>3, PTL DEF Spec
-----------------------------------------------------------------------------
(* Pages, shares and numbers of type int.                                  *)

\* Where the page ends that a number is in.
LEMMA Pages ==
  ASSUME NEW x \in Int
  PROVE  /\ x % Page \in 0..(Page - 1)
         /\ x - (x % Page) = Page * (x \div Page) /\ x \div Page \in Int
<1>1. Page \in Nat \ {0} BY RebuildAssumption
<1> QED BY <1>1

\* A multiple of the page.
LEMMA Multiple ==
  ASSUME NEW q \in Int
  PROVE  Page * q \in Int /\ (Page * q) % Page = 0
<1>1. Page \in Nat \ {0} BY RebuildAssumption
<1> QED BY <1>1

\* Numbers of whole pages.
LEMMA WholePages ==
  ASSUME NEW x \in Int, NEW y \in Int, x % Page = 0, y % Page = 0
  PROVE  /\ (x + y) % Page = 0 /\ (x - y) % Page = 0
         /\ x < y => x + Page <= y
<1>1. Page \in Nat \ {0} BY RebuildAssumption
<1> DEFINE p == x \div Page
           q == y \div Page
<1>2. p \in Int /\ q \in Int /\ x = Page * p /\ y = Page * q BY <1>1, Pages
<1> HIDE DEF p, q
<1>3. x + y = Page * (p + q) /\ x - y = Page * (p - q) BY <1>1, <1>2
<1>4. (x + y) % Page = 0 BY <1>2, <1>3, Multiple
<1>5. (x - y) % Page = 0 BY <1>2, <1>3, Multiple
<1>6. ASSUME x < y PROVE x + Page <= y
  <2>1. p < q
    <3> SUFFICES ASSUME p >= q PROVE FALSE BY <1>2
    <3>1. Page * p >= Page * q BY <1>1, <1>2
    <3> QED BY <1>2, <1>6, <3>1
  <2>2. Page * (p + 1) <= Page * q BY <1>1, <1>2, <2>1
  <2>3. Page * (p + 1) = Page * p + Page BY <1>1, <1>2
  <2> QED BY <1>2, <2>2, <2>3
<1> QED BY <1>4, <1>5, <1>6

\* The page itself, and the largest int.
LEMMA OnePage ==
  /\ Page \in Nat \ {0} /\ Page % Page = 0
  /\ IntLimit \in Nat \ {0} /\ IntLimit % Page = 0 /\ Page <= IntLimit
<1>1. Page \in Nat \ {0} /\ IntLimit \in Nat \ {0} /\ IntLimit % Page = 0 BY RebuildAssumption
<1>2. Page % Page = 0 BY <1>1
<1>3. 0 \in Int /\ 0 % Page = 0 BY <1>1
<1>4. 0 + Page <= IntLimit BY <1>1, <1>3, WholePages
<1> QED BY <1>1, <1>2, <1>4

\* What becomes of a number that is given as an int.
LEMMA IntOf ==
  ASSUME NEW n \in Int
  PROVE  /\ AsInt(n) \in (-IntLimit)..(IntLimit - 1)
         /\ -IntLimit <= n => AsInt(n) <= n
         /\ n \in (-IntLimit)..(IntLimit - 1) => AsInt(n) = n
         /\ n % Page = 0 => AsInt(n) % Page = 0
<1>1. IntLimit \in Nat \ {0} BY RebuildAssumption
<1> DEFINE w == 2 * IntLimit
           m == n + IntLimit
           r == m % w
           q == m \div w
<1>2. w \in Nat \ {0} /\ m \in Int BY <1>1
<1>3. r \in 0..(w - 1) /\ q \in Int /\ m = w * q + r BY <1>2
<1>4. m >= 0 => q \in Nat BY <1>2
<1>5. m \in 0..(w - 1) => r = m BY <1>2
<1>6. AsInt(n) = r - IntLimit BY DEF AsInt
<1>7. m >= 0 => r <= m
  <2>1. m >= 0 => w * q >= 0 BY <1>2, <1>4
  <2> HIDE DEF q, r, w
  <2>2. w * q \in Int BY <1>2, <1>3
  <2> QED BY <1>2, <1>3, <2>1, <2>2
<1>8. n % Page = 0 => AsInt(n) % Page = 0
  <2> SUFFICES ASSUME n % Page = 0 PROVE AsInt(n) % Page = 0 OBVIOUS
  <2> DEFINE l == IntLimit \div Page
  <2>1. l \in Int /\ IntLimit = Page * l /\ Page \in Nat \ {0} BY OnePage, Pages
  <2> HIDE DEF q, r, l
  <2> DEFINE e == l * (2 * q)
  <2>2. e \in Int BY <1>3, <2>1
  <2>3. w * q = Page * e BY <1>3, <2>1
  <2>4. (w * q) % Page = 0 /\ w * q \in Int BY <2>2, <2>3, Multiple
  <2> HIDE DEF w, e
  <2>5. AsInt(n) = n - w * q
    BY <1>1, <1>2, <1>3, <1>6, <2>4
  <2> QED BY <2>4, <2>5, WholePages
<1> HIDE DEF r, q
<1> QED BY <1>1, <1>3, <1>5, <1>6, <1>7, <1>8

-----------------------------------------------------------------------------
(* The shares.                                                             *)

Large == tsize > Page * THREADS_COUNT

\* The cells in whole pages.
Full == tsize - (tsize % Page)

Start(t) == Average * t

Owns(t, k) == Start(t) <= k /\ (t < Last => k < Start(t + 1))

\* The whole pages of the file.
LEMMA FullPages ==
  ASSUME tsize \in Sizes
  PROVE  /\ tsize \in Nat \ {0}
         /\ Full \in Nat /\ Full % Page = 0 /\ Full <= tsize /\ tsize < Full + Page
         /\ tsize % Page = 0 <=> Full = tsize
         /\ Large => Page <= Full
<1>1. tsize \in Nat \ {0} BY RebuildAssumption
<1>2. Page \in Nat \ {0} BY RebuildAssumption
<1>3. tsize % Page \in 0..(Page - 1) BY <1>1, <1>2
<1>4. tsize \div Page \in Int /\ Full = Page * (tsize \div Page) BY <1>1, Pages DEF Full
<1>5. Full \in Int /\ Full % Page = 0 BY <1>4, Multiple
<1>6. Full <= tsize /\ tsize < Full + Page /\ (tsize % Page = 0 <=> Full = tsize)
  BY <1>1, <1>2, <1>3 DEF Full
<1>7. 0 \in Int /\ 0 % Page = 0 BY <1>2
<1>8. Full >= 0
  <2> SUFFICES ASSUME Full < 0 PROVE FALSE BY <1>5
  <2>1. Full + Page <= 0 BY <1>5, <1>7, WholePages
  <2> QED BY <1>1, <1>2, <1>5, <1>6, <2>1
<1>9. ASSUME Large PROVE Page <= Full
  <2>1. THREADS_COUNT \in Nat /\ THREADS_COUNT >= 3 BY RebuildAssumption
  <2>2. Page * THREADS_COUNT >= Page * 3 BY <1>2, <2>1
  <2>3. Page * THREADS_COUNT \in Nat BY <1>2, <2>1
  <2>4. tsize > Page + Page BY <1>1, <1>2, <1>9, <2>2, <2>3 DEF Large
  <2> QED BY <1>1, <1>2, <1>5, <1>6, <2>4
<1> QED BY <1>1, <1>5, <1>6, <1>8, <1>9

\* A share is a whole number of pages.
LEMMA AverageType ==
  ASSUME tsize \in Sizes
  PROVE  Average \in Nat /\ Average % Page = 0 /\ (Large => Average > 0)
<1>1. tsize \in Nat /\ THREADS_COUNT \in Nat \ {0} /\ Page \in Nat \ {0}
  BY RebuildAssumption
<1> DEFINE a == tsize \div THREADS_COUNT
           r == a % Page
           d == (Page - r) % Page
<1>2. a \in Nat BY <1>1
<1>3. r \in 0..(Page - 1) /\ a - r = Page * (a \div Page) /\ a \div Page \in Int
  BY <1>2, Pages
<1>4. d \in Nat /\ (r = 0 => d = 0) /\ (r > 0 => d = Page - r)
  <2>1. r = 0 => Page - r = Page /\ Page % Page = 0 BY <1>1
  <2>2. r > 0 => Page - r \in 1..(Page - 1) BY <1>1, <1>3
  <2>3. Page - r \in Nat BY <1>1, <1>3
  <2> HIDE DEF r
  <2> QED BY <1>1, <2>1, <2>2, <2>3
<1>5. Average = a + d BY DEF Average
<1>6. a - r \in Int /\ (a - r) % Page = 0 BY <1>3, Multiple
<1> DEFINE e == a - r
<1>7. Average = e \/ Average = e + Page
  <2>1. a \in Int /\ r \in Int BY <1>2, <1>3
  <2> HIDE DEF a, r, d
  <2>2. Average = (a - r) + r + d BY <1>1, <1>4, <1>5, <2>1
  <2>3. r + d = 0 \/ r + d = Page BY <1>1, <1>3, <1>4, <2>1
  <2> QED BY <1>1, <1>4, <2>1, <2>2, <2>3
<1>8. Average % Page = 0
  <2> HIDE DEF e
  <2>1. e \in Int /\ e % Page = 0 BY <1>6 DEF e
  <2>2. Page \in Int /\ Page % Page = 0 BY OnePage
  <2>3. (e + Page) % Page = 0 BY <2>1, <2>2, WholePages
  <2> QED BY <1>7, <2>1, <2>3
<1>9. ASSUME Large PROVE a > 0
  <2> SUFFICES ASSUME a = 0 PROVE FALSE BY <1>2
  <2>1. tsize < THREADS_COUNT BY <1>1
  <2>2. Page * THREADS_COUNT >= THREADS_COUNT BY <1>1
  <2>3. Page * THREADS_COUNT \in Nat BY <1>1
  <2> QED BY <1>1, <1>9, <2>1, <2>2, <2>3 DEF Large
<1> HIDE DEF a, d
<1> QED BY <1>2, <1>4, <1>5, <1>8, <1>9

\* Where the shares begin, and how large they are.
LEMMA Shares ==
  ASSUME tsize \in Sizes, NEW t \in Thread
  PROVE  /\ Start(t) \in Nat /\ Start(t) % Page = 0
         /\ Share(t) \in Int
         /\ t < Last => /\ Share(t) = Average /\ Share(t) >= 0 /\ Share(t) % Page = 0
                        /\ Start(t + 1) = Start(t) + Average
                        /\ Start(t) + Average <= Start(Last)
         /\ t = Last => Start(t) + Share(t) = tsize
         /\ Start(0) = 0
<1>1. Average \in Nat /\ Average % Page = 0 BY AverageType
<1>2. THREADS_COUNT \in Nat /\ THREADS_COUNT >= 3 /\ tsize \in Nat /\ Page \in Nat \ {0}
  BY RebuildAssumption
<1>3. t \in Nat /\ t <= Last /\ Last \in Nat BY <1>2 DEF Thread, Last
<1>4. Start(t) \in Nat BY <1>1, <1>3 DEF Start
<1>5. Start(t) % Page = 0
  <2> DEFINE p == Average \div Page
  <2>1. Average = Page * p /\ p \in Int BY <1>1, Pages
  <2> HIDE DEF p
  <2>2. Average * t = Page * (p * t) /\ p * t \in Int BY <1>2, <1>3, <2>1
  <2> QED BY <2>2, Multiple DEF Start
<1>6. Average * Last \in Nat /\ Average * t \in Nat BY <1>1, <1>3
<1>7. Share(t) \in Int /\ (t < Last => Share(t) = Average)
  BY <1>1, <1>2, <1>3, <1>6 DEF Share
<1>8. ASSUME t < Last
      PROVE  Start(t + 1) = Start(t) + Average /\ Start(t) + Average <= Start(Last)
  <2>1. Average * (t + 1) = Average * t + Average BY <1>1, <1>3
  <2>2. t + 1 <= Last BY <1>3, <1>8
  <2>3. Average * (t + 1) <= Average * Last BY <1>1, <1>3, <2>2
  <2> QED BY <2>1, <2>3 DEF Start
<1>9. ASSUME t = Last PROVE Start(t) + Share(t) = tsize
  <2>1. Share(t) = tsize - Average * t BY <1>3, <1>9 DEF Share
  <2> QED BY <1>2, <1>6, <2>1 DEF Start
<1>10. Start(0) = 0 BY <1>1 DEF Start
<1> QED BY <1>1, <1>4, <1>5, <1>7, <1>8, <1>9, <1>10

\* Every cell is in the share of a thread.
LEMMA Owner ==
  ASSUME tsize \in Sizes, Large, NEW k \in Nat
  PROVE  \E t \in Thread : Owns(t, k)
<1>1. Average \in Nat /\ Average > 0 BY AverageType
<1>2. THREADS_COUNT \in Nat /\ THREADS_COUNT >= 3 BY RebuildAssumption
<1>3. Last \in Nat /\ Last \in Thread /\ Thread = 0..Last BY <1>2 DEF Last, Thread
<1> DEFINE q == k \div Average
<1>4. q \in Nat /\ Average * q <= k /\ k < Average * q + Average BY <1>1
<1> HIDE DEF q
<1>5. Average * (q + 1) = Average * q + Average BY <1>1, <1>4
<1>6. CASE q < Last
  <2>1. q \in Thread BY <1>3, <1>4, <1>6
  <2>2. Owns(q, k) BY <1>4, <1>5 DEF Owns, Start
  <2> QED BY <2>1, <2>2
<1>7. CASE q >= Last
  <2>1. Average * Last <= Average * q BY <1>1, <1>3, <1>4, <1>7
  <2>2. Average * Last \in Nat /\ Average * q \in Nat BY <1>1, <1>3, <1>4
  <2>3. Average * Last <= k BY <1>4, <2>1, <2>2
  <2>4. ~ (Last < Last) BY <1>3
  <2>5. Owns(Last, k) BY <2>3, <2>4 DEF Owns, Start
  <2> QED BY <1>3, <2>5
<1> QED BY <1>3, <1>4, <1>6, <1>7

-----------------------------------------------------------------------------
(* The inductive invariant.                                                *)

Active == {"begin", "header", "wait", "old", "new", "copy", "null", "path"}
Ended == {"null", "path"}

\* How far the calling thread is, and what that says of the others.
Stages ==
  /\ main = "call" => \A t \in Thread : pc[t] = "unborn"
  /\ main = "join" => \A t \in Thread : pc[t] # "unborn"
  /\ main = "done" => \A t \in Thread : pc[t] \in {"unborn", "absent"} \cup Ended
  /\ main = "crashed" => \A t \in Thread : pc[t] = "absent"
  /\ main # "done" => result = 0
  /\ main \in {"create", "join"} => Large
  /\ \A t \in Thread : pc[t] \in Active => Large /\ main \in {"create", "join", "done"}
  /\ \A t \in Thread : pc[t] \in {"begin", "header", "wait", "old", "new", "copy"} => main \in {"create", "join"}
  /\ \A t \in Thread : pc[t] = "absent" /\ main # "crashed" => <<"create", t>> \in failed
  /\ \A t \in Thread : pc[t] = "header" => t = 0

\* No thread copies before there is a header, and the header stays.
HeaderFirst ==
  /\ pc[0] \in {"unborn", "begin", "header"} => \A k \in DOMAIN secure : secure[k] = Hole
  /\ main \in {"create", "join"} => \A t \in Thread : pc[t] \in {"old", "new", "copy"} \cup Ended => Headed
  /\ tsize + Page < IntLimit /\ <<"size", 0>> \notin failed /\ (pc[0] = "header" \/ Headed) =>
       DOMAIN secure = Cells(tsize + Page)

\* What has been written is right, but for the ends that are misplaced.
Bad(k) == k >= Page /\ BadTail(k - Page)
Sound(f) == \A k \in DOMAIN f : f[k] \in {Rebuilt[k], Hole} \/ Bad(k)

\* Plain cell k has been stored.
There(k) == k + Page \in DOMAIN secure /\ secure[k + Page] # Hole

\* A share that can be copied as it should.
Copyable(t) == Share(t) \in 0..(IntLimit - 1) /\ Start(t) < IntLimit /\ Start(t) <= Full

\* No call of the thread has failed.
Unharmed(t) == \A kind \in {"open", "read", "write"} : <<kind, t>> \notin failed

\* Where a thread would be if all pages before had been complete.
Reached(t) == Min2(Start(t) + (Share(t) - bsize[t]), Full)

\* What a thread has done that is copying.  It stops moving at the incomplete
\* page, or where an int ends.
Copying(t) ==
  /\ offset[t] % Page = 0
  /\ Start(Last) <= tsize => offset[t] + bsize[t] <= Start(t) + Share(t)
  /\ Copyable(t) /\ Unharmed(t) =>
       /\ bsize[t] \in 0..Share(t) /\ (Share(t) - bsize[t]) % Page = 0
       /\ IF Reached(t) < IntLimit THEN offset[t] = Reached(t) ELSE offset[t] < 0
       /\ \A k \in Cells(Reached(t)) : Start(t) <= k /\ k + Page < IntLimit => There(k)

\* What a thread has done that has ended.
Copied(t) ==
  Unharmed(t) /\ Share(t) < IntLimit =>
    \A k \in Cells(tsize) : Owns(t, k) /\ k + Page < IntLimit => There(k) \/ BadTail(k)

Working(t) ==
  /\ pc[t] \in {"begin", "header", "wait", "old", "new"} =>
       offset[t] = AsInt(Start(t)) /\ bsize[t] = AsInt(Share(t))
  /\ pc[t] = "copy" => Copying(t)
  /\ pc[t] \in Ended /\ main \in {"create", "join"} => Copied(t)

IInv == /\ TypeOK /\ Stages /\ HeaderFirst /\ Sound(secure)
        /\ \A t \in Thread : Working(t)
        /\ RebuiltExact

-----------------------------------------------------------------------------
(* What the steps have in common.                                          *)

\* The size does not change, and with it all that is computed from it.
LEMMA SameSize ==
  ASSUME tsize' = tsize
  PROVE  /\ Average' = Average /\ Full' = Full /\ (Large' <=> Large)
         /\ Rebuilt' = Rebuilt /\ Original' = Original
         /\ \A t : Share(t)' = Share(t) /\ Start(t)' = Start(t) /\ (Copyable(t)' <=> Copyable(t))
         /\ \A t, k : Owns(t, k)' <=> Owns(t, k)
         /\ \A k : (BadTail(k)' <=> BadTail(k)) /\ (Bad(k)' <=> Bad(k))
<1>1. Average' = Average BY DEF Average
<1>2. Full' = Full BY DEF Full
<1>3. Large' <=> Large BY DEF Large
<1>4. \A k, n : InBlock(k, n)' <=> InBlock(k, n) BY DEF InBlock
<1>5. Rebuilt' = Rebuilt /\ Original' = Original BY <1>4 DEF Rebuilt, Original
<1>6. \A t : Share(t)' = Share(t) BY <1>1 DEF Share
<1>7. \A t : Start(t)' = Start(t) BY <1>1 DEF Start
<1>8. \A t : Copyable(t)' <=> Copyable(t) BY <1>2, <1>6, <1>7 DEF Copyable
<1>9. \A t, k : Owns(t, k)' <=> Owns(t, k) BY <1>7 DEF Owns
<1>10. GoodSize' <=> GoodSize BY <1>1 DEF GoodSize
<1>11. \A k : BadTail(k)' <=> BadTail(k) BY <1>10 DEF BadTail
<1>12. \A k : Bad(k)' <=> Bad(k) BY <1>11 DEF Bad
<1> QED BY <1>1, <1>2, <1>3, <1>5, <1>6, <1>7, <1>8, <1>9, <1>11, <1>12

\* Cells that are stored stay stored.
Grows == \A k \in Nat : There(k) => There(k)'

\* A thread that takes no part in a step.
LEMMA OthersWork ==
  ASSUME tsize' = tsize, tsize \in Sizes, Grows, failed \subseteq failed',
         main' \in {"create", "join"} => main \in {"create", "join"},
         NEW u \in Thread, Working(u),
         pc'[u] = pc[u], offset'[u] = offset[u], bsize'[u] = bsize[u]
  PROVE  Working(u)'
<1>1. /\ Full' = Full /\ Start(u)' = Start(u) /\ Share(u)' = Share(u)
      /\ Start(Last)' = Start(Last)
      /\ (Copyable(u)' <=> Copyable(u))
      /\ \A k : (Owns(u, k)' <=> Owns(u, k)) /\ (BadTail(k)' <=> BadTail(k))
  BY SameSize
<1>0. Unharmed(u)' => Unharmed(u) BY DEF Unharmed
<1>2. ASSUME pc[u] \in {"begin", "header", "wait", "old", "new"}
      PROVE  offset'[u] = AsInt(Start(u)') /\ bsize'[u] = AsInt(Share(u)')
  BY <1>1, <1>2 DEF Working
<1>3. ASSUME pc[u] = "copy" PROVE Copying(u)'
  <2>1. Copying(u) BY <1>3 DEF Working
  <2>2. Reached(u)' = Reached(u) BY <1>1 DEF Reached
  <2>3. \A k \in Cells(Reached(u)) : k \in Nat BY DEF Cells
  <2> QED BY <1>0, <1>1, <2>1, <2>2, <2>3 DEF Copying, Grows
<1>4. ASSUME pc[u] \in Ended, main' \in {"create", "join"} PROVE Copied(u)'
  <2>1. Copied(u) BY <1>4 DEF Working
  <2>2. \A k \in Cells(tsize) : k \in Nat BY DEF Cells
  <2> QED BY <1>0, <1>1, <2>1, <2>2 DEF Copied, Grows
<1>5. AsInt(Start(u))' = AsInt(Start(u)') /\ AsInt(Share(u))' = AsInt(Share(u)')
  BY DEF AsInt
<1> QED BY <1>2, <1>3, <1>4, <1>5 DEF Working

\* A step that leaves "<path>.s" alone.
LEMMA SameSecure ==
  ASSUME tsize' = tsize, secure' = secure
  PROVE  /\ Grows /\ (Headed' <=> Headed)
         /\ Sound(secure) => Sound(secure)'
<1>1. Rebuilt' = Rebuilt /\ \A k : Bad(k)' <=> Bad(k) BY SameSize
<1>2. Grows BY DEF Grows, There
<1>3. Headed' <=> Headed BY DEF Headed
<1> QED BY <1>1, <1>2, <1>3 DEF Sound

\* What is still to be proved of a step that does not return.
LEMMA NotYet ==
  ASSUME result' = 0
  PROVE  RebuiltExact'
  BY DEF RebuiltExact

\* What is noted of a fault.
LEMMA Noted ==
  ASSUME failed \subseteq Kind \X Thread, NEW kind \in Kind, NEW t \in Thread, Note(kind, t)
  PROVE  /\ failed \subseteq failed' /\ failed' \subseteq Kind \X Thread
         /\ <<kind, t>> \in failed'
  BY DEF Note

\* What the threads are.
LEMMA Threads ==
  /\ THREADS_COUNT \in Nat /\ THREADS_COUNT >= 3
  /\ Thread \subseteq Nat /\ 0 \in Thread /\ Last \in Thread /\ Last # 0
  /\ \A t \in Thread : t <= Last
<1>1. THREADS_COUNT \in Nat /\ THREADS_COUNT >= 3 BY RebuildAssumption
<1> QED BY <1>1 DEF Thread, Last
-----------------------------------------------------------------------------
(* The calling thread.                                                     *)

LEMMA InitHolds == Init => IInv
<1> SUFFICES ASSUME Init PROVE IInv OBVIOUS
<1>1. tsize \in Nat \ {0} /\ Page \in Nat \ {0} /\ IntLimit \in Nat \ {0}
  BY RebuildAssumption DEF Init
<1>2. NoFile = [k \in Cells(0) |-> Hole]
  <2>1. Cells(0) = {} BY DEF Cells
  <2> QED BY <2>1 DEF NoFile
<1>3. TypeOK
  <2>1. \A k \in DOMAIN file : file[k] \in [from : -1..(tsize - 1), enc : BOOLEAN]
    BY <1>1 DEF Init, Original, Copy, Cells
  <2>2. DOMAIN secure = Cells(0) BY <1>2 DEF Init
  <2>3. 0 \in 0..(tsize + Page) BY <1>1
  <2>4. \A k \in DOMAIN secure : FALSE BY <2>2 DEF Cells
  <2>5. 0 \in (-IntLimit)..(IntLimit - 1) BY <1>1
  <2>6. pc \in [Thread -> {"unborn", "absent", "begin", "header", "wait", "old", "new", "copy", "null", "path"}]
    BY DEF Init
  <2>7. offset \in [Thread -> (-IntLimit)..(IntLimit - 1)]
        /\ bsize \in [Thread -> (-IntLimit)..(IntLimit - 1)]
    BY <2>5 DEF Init
  <2>8. spare \in Nat BY RebuildAssumption DEF Init
  <2>9. \E n \in 0..(tsize + Page) :
          DOMAIN secure = Cells(n) /\ (n <= IntLimit \/ n = AsInt(tsize) + Page)
    BY <1>1, <2>2, <2>3
  <2>10. failed \subseteq Kind \X Thread /\ tsize \in Sizes /\ main = "call" /\ result = 0
    BY DEF Init
  <2> QED BY <2>1, <2>4, <2>6, <2>7, <2>8, <2>9, <2>10 DEF TypeOK
<1>4. pc = [t \in Thread |-> "unborn"] /\ main = "call" /\ result = 0 /\ secure = NoFile
  BY DEF Init
<1>5. DOMAIN secure = {} BY <1>4 DEF NoFile
<1>6. Stages BY <1>4 DEF Stages, Active, Ended
<1>7. ~ Headed
  <2>1. 0 \in Cells(Page) BY <1>1 DEF Cells
  <2> QED BY <1>5, <2>1 DEF Headed
<1>8. HeaderFirst BY <1>4, <1>5, <1>7, Threads DEF HeaderFirst, Ended
<1>9. Sound(secure) BY <1>5 DEF Sound
<1>10. \A t \in Thread : Working(t) BY <1>4 DEF Working, Ended
<1>11. RebuiltExact BY <1>4 DEF RebuiltExact
<1> QED BY <1>3, <1>6, <1>8, <1>9, <1>10, <1>11 DEF IInv

\* The small file is overwritten in place, and the call is done.
LEMMA SmallHolds ==
  ASSUME IInv, RebuildSmall
  PROVE  IInv'
<1> USE DEF IInv
<1>1. /\ tsize' = tsize /\ tsize \in Sizes /\ secure' = secure /\ pc' = pc
      /\ offset' = offset /\ bsize' = bsize /\ main = "call" /\ main' = "done"
  BY DEF RebuildSmall, TypeOK
<1>2. tsize \in Nat \ {0} /\ Page \in Nat \ {0} BY <1>1, RebuildAssumption
<1>3. \A t \in Thread : pc[t] = "unborn" BY <1>1 DEF Stages
<1>4. /\ \A k \in DOMAIN Rebuilt : Rebuilt[k] \in [from : -1..(tsize - 1), enc : BOOLEAN]
      /\ \A k \in DOMAIN Original : Original[k] \in [from : -1..(tsize - 1), enc : BOOLEAN]
  <2>1. \A k \in DOMAIN Original : Original[k] \in [from : -1..(tsize - 1), enc : BOOLEAN]
    BY <1>2 DEF Original, Copy, Cells
  <2>2. ASSUME NEW k \in Cells(tsize + Page)
        PROVE  Rebuilt[k] \in [from : -1..(tsize - 1), enc : BOOLEAN]
    <3>1. Rebuilt[k] = IF k < Page THEN Head ELSE Copy(k - Page, InBlock(k - Page, tsize))
      BY <2>2 DEF Rebuilt
    <3>2. Head \in [from : -1..(tsize - 1), enc : BOOLEAN] BY <1>2 DEF Head
    <3>3. InBlock(k - Page, tsize) \in BOOLEAN BY DEF InBlock
    <3>4. k \in 0..(tsize + Page - 1) BY <1>2, <2>2 DEF Cells
    <3>5. ~ (k < Page) => k - Page \in -1..(tsize - 1) BY <1>2, <3>4
    <3>6. ~ (k < Page) => Copy(k - Page, InBlock(k - Page, tsize)) \in [from : -1..(tsize - 1), enc : BOOLEAN]
      BY <3>3, <3>5 DEF Copy
    <3> QED BY <3>1, <3>2, <3>6
  <2> QED BY <2>1, <2>2 DEF Rebuilt
<1>5. /\ \A k \in DOMAIN file' : file'[k] \in [from : -1..(tsize - 1), enc : BOOLEAN]
      /\ failed \subseteq failed' /\ failed' \subseteq Kind \X Thread /\ spare' = spare
      /\ result' \in {0, 1} /\ (result' = 1 => file' = Rebuilt)
  <2>0. failed \subseteq Kind \X Thread BY DEF TypeOK
  <2>1. CASE file' = Rebuilt /\ result' = 1 /\ UNCHANGED <<spare, failed>> BY <1>4, <2>0, <2>1
  <2>2. CASE /\ Fault("short", 0) /\ result' = 0 /\ UNCHANGED spare
             /\ \E n \in Cells(tsize + Page) :
                  file' = [k \in Cells(IF n > tsize THEN n ELSE tsize) |->
                             IF k < n THEN Rebuilt[k] ELSE Original[k]]
    <3>1. PICK n \in Cells(tsize + Page) :
            file' = [k \in Cells(IF n > tsize THEN n ELSE tsize) |->
                       IF k < n THEN Rebuilt[k] ELSE Original[k]]
      BY <2>2
    <3>2. \A k \in DOMAIN file' : (k < n => k \in DOMAIN Rebuilt) /\ (~ (k < n) => k \in DOMAIN Original)
      BY <1>2, <3>1 DEF Cells, Rebuilt, Original
    <3>3. \A k \in DOMAIN file' : file'[k] \in [from : -1..(tsize - 1), enc : BOOLEAN]
      BY <1>4, <3>1, <3>2
    <3>4. Note("short", 0) /\ "short" \in Kind BY <2>2 DEF Fault, Kind
    <3>5. failed \subseteq failed' /\ failed' \subseteq Kind \X Thread
      BY <2>0, <3>4, Threads, Noted
    <3> QED BY <2>2, <3>3, <3>5
  <2>3. CASE Note("read", 0) /\ result' = 0 /\ UNCHANGED <<file, spare>>
    <3>1. "read" \in Kind BY DEF Kind
    <3>2. failed \subseteq failed' /\ failed' \subseteq Kind \X Thread
      BY <2>0, <2>3, <3>1, Threads, Noted
    <3> QED BY <2>3, <3>2 DEF TypeOK
  <2>4. CASE Note("open", 0) /\ result' = 0 /\ UNCHANGED <<file, spare>>
    <3>1. "open" \in Kind BY DEF Kind
    <3>2. failed \subseteq failed' /\ failed' \subseteq Kind \X Thread
      BY <2>0, <2>4, <3>1, Threads, Noted
    <3> QED BY <2>4, <3>2 DEF TypeOK
  <2> QED BY <2>1, <2>2, <2>3, <2>4 DEF RebuildSmall, Fault, Refused
<1>6. TypeOK'
  <2>1. AsInt(tsize)' = AsInt(tsize) BY <1>1 DEF AsInt
  <2>2. \A n : Cells(n)' = Cells(n) OBVIOUS
  <2>3. \E n \in 0..(tsize' + Page) :
          DOMAIN secure' = Cells(n) /\ (n <= IntLimit \/ n = AsInt(tsize)' + Page)
    BY <1>1, <2>1 DEF TypeOK
  <2> QED BY <1>1, <1>5, <2>3 DEF TypeOK
<1>7. Stages' BY <1>1, <1>3 DEF Stages, Active, Ended
<1>8. (Headed' <=> Headed) /\ Grows /\ Sound(secure)' BY <1>1, SameSecure
<1>9. HeaderFirst' BY <1>1, <1>5, <1>8, SameSize DEF HeaderFirst
<1>10. \A t \in Thread : Working(t)'
  BY <1>1, <1>5, <1>8, OthersWork
<1>11. ASSUME result' = 1 PROVE RebuiltExact'
  <2>1. file' = Rebuilt /\ Rebuilt' = Rebuilt BY <1>1, <1>5, <1>11, SameSize
  <2>2. DOMAIN Rebuilt = Cells(tsize + Page) BY DEF Rebuilt
  <2>3. \A k \in Cells(Min2(tsize + Page, IntLimit)) : k \in Cells(tsize + Page)
    BY <1>2, OnePage DEF Cells, Min2
  <2> HIDE DEF IInv
  <2> QED BY <1>1, <2>1, <2>2, <2>3 DEF RebuiltExact
<1>12. RebuiltExact' BY <1>5, <1>11, NotYet
<1> QED BY <1>6, <1>7, <1>8, <1>9, <1>10, <1>12

\* The threads are about to be created.
LEMMA StartHolds ==
  ASSUME IInv, StartThreads
  PROVE  IInv'
<1>1. /\ tsize' = tsize /\ tsize \in Sizes /\ secure' = secure /\ pc' = pc /\ file' = file
      /\ offset' = offset /\ bsize' = bsize /\ main = "call" /\ main' = "create"
      /\ result' = result /\ failed' = failed /\ spare' = spare /\ Large
  BY DEF StartThreads, IInv, TypeOK, Large
<1>2. \A t \in Thread : pc[t] = "unborn" BY <1>1 DEF IInv, Stages
<1>3. TypeOK'
  <2>1. AsInt(tsize)' = AsInt(tsize) BY <1>1 DEF AsInt
  <2> QED BY <1>1, <2>1 DEF TypeOK, IInv
<1>4. Large' BY <1>1, SameSize
<1>5. result = 0 BY <1>1 DEF IInv, Stages
<1>6. Stages' BY <1>1, <1>2, <1>4, <1>5 DEF Stages, Active, Ended
<1>7. (Headed' <=> Headed) /\ Grows /\ Sound(secure)' BY <1>1, SameSecure DEF IInv
<1>8. HeaderFirst'
  <2>1. \A t \in Thread : pc'[t] \notin {"old", "new", "copy"} \cup Ended BY <1>1, <1>2 DEF Ended
  <2> QED BY <1>1, <1>7, <2>1, SameSize DEF HeaderFirst, IInv
<1>9. ASSUME NEW t \in Thread PROVE Working(t)'
  <2>1. pc'[t] = "unborn" BY <1>1, <1>2
  <2> QED BY <2>1 DEF Working, Ended
<1>10. RebuiltExact' BY <1>1, <1>5, NotYet
<1> QED BY <1>3, <1>6, <1>7, <1>8, <1>9, <1>10 DEF IInv

\* One thread is created, or cannot be; it is told its share.
LEMMA CreateHolds ==
  ASSUME IInv, NEW t \in Thread, CreateThread(t)
  PROVE  IInv'
<1>1. /\ tsize' = tsize /\ tsize \in Sizes /\ secure' = secure /\ file' = file
      /\ result' = result /\ spare' = spare /\ main = "create" /\ main' \in {"create", "join"}
      /\ (main' = "join" <=> t = Last)
      /\ pc[t] = "unborn" /\ \A u \in Thread : u < t => pc[u] # "unborn"
  BY DEF CreateThread, IInv, TypeOK
<1>2. /\ pc \in [Thread -> {"unborn", "absent", "begin", "header", "wait", "old", "new", "copy", "null", "path"}]
      /\ offset \in [Thread -> (-IntLimit)..(IntLimit - 1)]
      /\ bsize \in [Thread -> (-IntLimit)..(IntLimit - 1)]
      /\ failed \subseteq Kind \X Thread
  BY DEF IInv, TypeOK
<1>3. /\ \/ pc'[t] = "begin" /\ failed' = failed
         \/ /\ pc'[t] = "absent"
            /\ failed' = failed \cup {<<"create", t>>}
      /\ \A u \in Thread \ {t} : pc'[u] = pc[u] /\ offset'[u] = offset[u] /\ bsize'[u] = bsize[u]
      /\ offset'[t] = AsInt(Start(t)) /\ bsize'[t] = AsInt(Share(t))
      /\ pc' \in [Thread -> {"unborn", "absent", "begin", "header", "wait", "old", "new", "copy", "null", "path"}]
  <2>1. /\ \/ pc' = [pc EXCEPT ![t] = "begin"] /\ failed' = failed
           \/ /\ pc' = [pc EXCEPT ![t] = "absent"]
              /\ failed' = failed \cup {<<"create", t>>}
        /\ offset' = [offset EXCEPT ![t] = AsInt(Start(t))]
        /\ bsize' = [bsize EXCEPT ![t] = AsInt(Share(t))]
    BY DEF CreateThread, Fault, Note, Start
  <2>2. /\ offset'[t] = AsInt(Start(t)) /\ bsize'[t] = AsInt(Share(t))
        /\ \A u \in Thread \ {t} : offset'[u] = offset[u] /\ bsize'[u] = bsize[u]
    BY <1>2, <2>1
  <2>3. \A u \in Thread \ {t} : pc'[u] = pc[u] BY <1>2, <2>1
  <2>4. CASE pc' = [pc EXCEPT ![t] = "begin"] /\ failed' = failed BY <1>2, <2>2, <2>3, <2>4
  <2>5. CASE /\ pc' = [pc EXCEPT ![t] = "absent"]
             /\ failed' = failed \cup {<<"create", t>>}
    BY <1>2, <2>2, <2>3, <2>5
  <2> QED BY <2>1, <2>4, <2>5
<1>4. Start(t) \in Int /\ Share(t) \in Int BY <1>1, Shares
<1>5. AsInt(Start(t)) \in (-IntLimit)..(IntLimit - 1) /\ AsInt(Share(t)) \in (-IntLimit)..(IntLimit - 1)
  BY <1>4, IntOf
<1>6. /\ offset' \in [Thread -> (-IntLimit)..(IntLimit - 1)]
      /\ bsize' \in [Thread -> (-IntLimit)..(IntLimit - 1)]
  BY <1>2, <1>5 DEF CreateThread, Start
<1>7. failed \subseteq failed' /\ failed' \subseteq Kind \X Thread
  <2>1. <<"create", t>> \in Kind \X Thread BY DEF Kind
  <2> QED BY <1>2, <1>3, <2>1
<1>8. TypeOK'
  <2>1. AsInt(tsize)' = AsInt(tsize) BY <1>1 DEF AsInt
  <2> QED BY <1>1, <1>3, <1>6, <1>7, <2>1 DEF TypeOK, IInv
<1>9. Large /\ result = 0 BY <1>1 DEF IInv, Stages
<1>10. Large' BY <1>1, <1>9, SameSize
<1>11. Stages'
  <2>1. main' = "join" => \A u \in Thread : pc'[u] # "unborn"
    <3> SUFFICES ASSUME t = Last, NEW u \in Thread PROVE pc'[u] # "unborn" BY <1>1
    <3>1. CASE u = t BY <1>3, <3>1
    <3>2. CASE u # t
      <4>1. u < t BY <3>2, Threads
      <4> QED BY <1>1, <1>3, <3>2, <4>1
    <3> QED BY <3>1, <3>2
  <2>2. \A u \in Thread : pc'[u] = "absent" => <<"create", u>> \in failed'
    BY <1>1, <1>3, <1>7 DEF IInv, Stages
  <2>3. \A u \in Thread : pc'[u] = "header" => u = 0 BY <1>3 DEF IInv, Stages
  <2> QED BY <1>1, <1>9, <1>10, <2>1, <2>2, <2>3 DEF Stages, Active, Ended
<1>12. (Headed' <=> Headed) /\ Grows /\ Sound(secure)' BY <1>1, SameSecure DEF IInv
<1>13. HeaderFirst'
  <2>1. pc'[0] \in {"unborn", "begin", "header"} => pc[0] \in {"unborn", "begin", "header"}
    BY <1>1, <1>3, Threads
  <2>2. pc'[0] = "header" => pc[0] = "header" BY <1>3, Threads
  <2>3. \A u \in Thread : pc'[u] \in {"old", "new", "copy"} \cup Ended => pc[u] \in {"old", "new", "copy"} \cup Ended
    BY <1>3 DEF Ended
  <2> QED BY <1>1, <1>7, <1>12, <2>1, <2>2, <2>3, SameSize DEF HeaderFirst, IInv
<1>14. ASSUME NEW u \in Thread PROVE Working(u)'
  <2>1. CASE u = t
    <3>1. AsInt(Start(u))' = AsInt(Start(u)) /\ AsInt(Share(u))' = AsInt(Share(u))
      <4>1. Start(u)' = Start(u) /\ Share(u)' = Share(u) BY <1>1, SameSize
      <4> QED BY <4>1 DEF AsInt
    <3>2. pc'[u] \in {"begin", "absent"} BY <1>3, <2>1
    <3> QED BY <1>3, <2>1, <3>1, <3>2 DEF Working, Ended
  <2>2. CASE u # t
    <3>1. Working(u) BY DEF IInv
    <3> QED BY <1>1, <1>3, <1>7, <1>12, <2>2, <3>1, OthersWork
  <2> QED BY <2>1, <2>2
<1>15. RebuiltExact' BY <1>1, <1>9, NotYet
<1> QED BY <1>8, <1>11, <1>12, <1>13, <1>14, <1>15 DEF IInv

\* No file has no cells.
LEMMA NoCells ==
  /\ DOMAIN NoFile = Cells(0) /\ Cells(0) = {}
  /\ tsize \in Sizes => 0 \in 0..(tsize + Page)
<1>1. Cells(0) = {} BY DEF Cells
<1>2. tsize \in Sizes => tsize \in Nat BY RebuildAssumption
<1> QED BY <1>1, <1>2, OnePage DEF NoFile

\* A file whose header is complete holds it where it should.
LEMMA HeaderRight ==
  ASSUME tsize \in Sizes, Headed, NEW k \in Cells(Page)
  PROVE  k \in DOMAIN secure /\ secure[k] = Rebuilt[k]
<1>1. tsize \in Nat /\ Page \in Nat BY RebuildAssumption
<1>2. k \in Cells(tsize + Page) /\ k < Page BY <1>1 DEF Cells
<1>3. Rebuilt[k] = Head BY <1>2 DEF Rebuilt
<1> QED BY <1>3 DEF Headed

\* When all threads have ended, and one of them in the end of the copying, what is
\* in "<path>.s" is what is asked for.
LEMMA CopyExact ==
  ASSUME IInv, main = "join", \A t \in Thread : pc[t] \in {"absent"} \cup Ended, Headed
  PROVE  /\ DOMAIN secure \subseteq DOMAIN Rebuilt
         /\ tsize + Page < IntLimit /\ <<"size", 0>> \notin failed => DOMAIN secure = DOMAIN Rebuilt
         /\ \A k \in DOMAIN secure :
              secure[k] \in {Rebuilt[k], Hole} \/ (k >= Page /\ BadTail(k - Page))
         /\ \A k \in Cells(Min2(tsize + Page, IntLimit)) :
              \/ k >= Page /\ (BadTail(k - Page) \/ Lost(k - Page))
              \/ k \in DOMAIN secure /\ secure[k] = Rebuilt[k]
<1>1. tsize \in Sizes BY DEF IInv, TypeOK
<1>2. tsize \in Nat /\ Page \in Nat \ {0} /\ IntLimit \in Nat BY <1>1, RebuildAssumption
<1>3. DOMAIN Rebuilt = Cells(tsize + Page) BY DEF Rebuilt
<1>4. DOMAIN secure \subseteq DOMAIN Rebuilt
  <2>1. PICK n \in 0..(tsize + Page) : DOMAIN secure = Cells(n) BY DEF IInv, TypeOK
  <2> QED BY <1>2, <1>3, <2>1 DEF Cells
<1>5. tsize + Page < IntLimit /\ <<"size", 0>> \notin failed => DOMAIN secure = DOMAIN Rebuilt
  BY <1>3 DEF IInv, HeaderFirst
<1>6. \A k \in DOMAIN secure :
        secure[k] \in {Rebuilt[k], Hole} \/ (k >= Page /\ BadTail(k - Page))
  BY DEF IInv, Sound, Bad
<1>7. ASSUME NEW k \in Cells(Min2(tsize + Page, IntLimit)), k >= Page,
             ~ BadTail(k - Page), ~ Lost(k - Page)
      PROVE  k \in DOMAIN secure /\ secure[k] = Rebuilt[k]
  <2> DEFINE j == k - Page
  <2>1. k \in Nat /\ k < tsize + Page /\ k < IntLimit BY <1>2, <1>7 DEF Cells, Min2
  <2>2. j \in Cells(tsize) /\ j \in Nat /\ j + Page = k /\ j + Page < IntLimit
    BY <1>2, <1>7, <2>1 DEF Cells
  <2> HIDE DEF j
  <2>3. Large BY DEF IInv, Stages
  <2>4. PICK t \in Thread : Owns(t, j) BY <1>1, <2>2, <2>3, Owner
  <2>5. Share(t) < IntLimit /\ <<"create", t>> \notin failed /\ Unharmed(t)
    <3>1. ~ Lost(j) BY <1>7 DEF j
    <3>2. Average * t <= j /\ (t < Last => j < Average * (t + 1)) BY <2>4 DEF Owns, Start
    <3>3. Share(t) \in Int BY <1>1, Shares
    <3>4. {<<"create", t>>, <<"open", t>>, <<"read", t>>, <<"write", t>>} \cap failed = {}
      BY <3>1, <3>2 DEF Lost
    <3>5. Share(t) < IntLimit
      <4>1. ~ (Share(t) >= IntLimit) BY <3>1, <3>2 DEF Lost
      <4> QED BY <1>2, <3>3, <4>1
    <3> QED BY <3>4, <3>5 DEF Unharmed
  <2>6. pc[t] \in Ended BY <2>5 DEF IInv, Stages
  <2>7. Copied(t) BY <2>6 DEF IInv, Working
  <2>8. There(j) \/ BadTail(j) BY <2>2, <2>4, <2>5, <2>7 DEF Copied
  <2>9. k \in DOMAIN secure /\ secure[k] # Hole BY <1>7, <2>2, <2>8 DEF There, j
  <2> QED BY <1>6, <1>7, <2>9
<1>8. ASSUME NEW k \in Cells(Min2(tsize + Page, IntLimit)), ~ (k >= Page)
      PROVE  k \in DOMAIN secure /\ secure[k] = Rebuilt[k]
  <2>1. k \in Cells(Page) BY <1>2, <1>8 DEF Cells, Min2
  <2> QED BY <1>1, <2>1, HeaderRight
<1> QED BY <1>4, <1>5, <1>6, <1>7, <1>8

\* The threads are joined, and "<path>.s" is renamed if one of them has returned
\* its name.
LEMMA JoinHolds ==
  ASSUME IInv, JoinThreads
  PROVE  IInv'
<1>1. /\ tsize' = tsize /\ tsize \in Sizes /\ pc' = pc /\ offset' = offset /\ bsize' = bsize
      /\ main = "join" /\ main' = "done" /\ result' \in {0, 1} /\ spare' = spare
      /\ \A t \in Thread : pc[t] \in {"absent"} \cup Ended
  BY DEF JoinThreads, IInv, TypeOK, Ended
<1>2. \/ result' = 0 /\ UNCHANGED <<file, secure, failed>>
      \/ /\ result' = 1 /\ \E t \in Thread : pc[t] = "path"
         /\ file' = secure /\ secure' = NoFile /\ UNCHANGED failed
      \/ /\ result' = 1 /\ UNCHANGED <<file, secure>>
         /\ failed' = failed \cup {<<"rename", Last>>}
  BY DEF JoinThreads, Fault, Note
<1>3. failed \subseteq failed' /\ failed' \subseteq Kind \X Thread
  <2>1. failed \subseteq Kind \X Thread BY DEF IInv, TypeOK
  <2>2. <<"rename", Last>> \in Kind \X Thread BY Threads DEF Kind
  <2> QED BY <1>2, <2>1, <2>2
<1>4. /\ secure' = secure \/ secure' = NoFile
      /\ file' = file \/ file' = secure
  BY <1>2
<1>5. TypeOK'
  <2>1. AsInt(tsize)' = AsInt(tsize) BY <1>1 DEF AsInt
  <2>2. \A k \in DOMAIN file' : file'[k] \in [from : -1..(tsize - 1), enc : BOOLEAN]
    BY <1>4 DEF IInv, TypeOK
  <2>3. \A k \in DOMAIN secure' : secure'[k] \in [from : -1..(tsize - 1), enc : BOOLEAN]
    BY <1>4, NoCells DEF IInv, TypeOK
  <2>4. \E n \in 0..(tsize + Page) :
          DOMAIN secure' = Cells(n) /\ (n <= IntLimit \/ n = AsInt(tsize) + Page)
    <3>1. CASE secure' = secure BY <3>1 DEF IInv, TypeOK
    <3>2. CASE secure' = NoFile
      <4>1. 0 \in 0..(tsize + Page) /\ DOMAIN secure' = Cells(0) BY <1>1, <3>2, NoCells
      <4>2. 0 <= IntLimit BY OnePage
      <4> QED BY <4>1, <4>2
    <3> QED BY <1>4, <3>1, <3>2
  <2> QED BY <1>1, <1>3, <2>1, <2>2, <2>3, <2>4 DEF TypeOK, IInv
<1>6. Stages'
  <2>1. \A t \in Thread : pc[t] = "absent" => <<"create", t>> \in failed
    BY <1>1 DEF IInv, Stages
  <2>2. Large /\ (Large' <=> Large) BY <1>1, SameSize DEF IInv, Stages
  <2> QED BY <1>1, <1>3, <2>1, <2>2 DEF Stages, Ended, Active
<1>7. Sound(secure)'
  <2>1. CASE secure' = secure BY <1>1, <2>1, SameSecure DEF IInv
  <2>2. CASE secure' = NoFile BY <2>2, NoCells DEF Sound
  <2> QED BY <1>4, <2>1, <2>2
<1>8. HeaderFirst'
  <2>1. pc'[0] \notin {"unborn", "begin", "header"} BY <1>1, Threads DEF Ended
  <2>2. CASE secure' = secure
    <3>1. Headed' <=> Headed BY <1>1, <2>2, SameSecure
    <3> QED BY <1>1, <1>3, <2>1, <2>2, <3>1 DEF HeaderFirst, IInv
  <2>3. CASE secure' = NoFile
    <3>1. 0 \in Cells(Page) BY OnePage DEF Cells
    <3>2. ~ Headed' BY <2>3, <3>1, NoCells DEF Headed
    <3> QED BY <1>1, <2>1, <3>2 DEF HeaderFirst
  <2> QED BY <1>4, <2>2, <2>3
<1>9. ASSUME NEW t \in Thread PROVE Working(t)'
  <2>1. pc'[t] \notin {"begin", "header", "wait", "old", "new", "copy"} BY <1>1 DEF Ended
  <2> QED BY <1>1, <2>1 DEF Working
<1>10. RebuiltExact'
  <2>1. CASE result' = 0 BY <2>1, NotYet
  <2>2. CASE <<"rename", Last>> \in failed' BY <2>2, Threads DEF RebuiltExact
  <2>3. CASE /\ \E t \in Thread : pc[t] = "path"
             /\ file' = secure /\ UNCHANGED failed
    <3>1. Headed BY <1>1, <2>3 DEF IInv, HeaderFirst, Ended
    <3>2. \A k : Lost(k)' <=> Lost(k)
      <4>1. \A t : Share(t)' = Share(t) /\ Average' = Average BY <1>1, SameSize
      <4> QED BY <2>3, <4>1 DEF Lost
    <3> HIDE DEF IInv
    <3> QED BY <1>1, <2>3, <3>1, <3>2, CopyExact, SameSize DEF RebuiltExact
  <2> QED BY <1>2, <2>1, <2>2, <2>3
<1> QED BY <1>5, <1>6, <1>7, <1>8, <1>9, <1>10 DEF IInv

-----------------------------------------------------------------------------
(* The threads, up to the copying.                                         *)

\* While thread 0 has not written the header, nobody copies.
LEMMA NobodyCopies ==
  ASSUME IInv, pc[0] \in {"begin", "header"}
  PROVE  /\ main \in {"create", "join"} /\ result = 0 /\ Large /\ ~ Headed
         /\ \A t \in Thread : pc[t] \notin {"old", "new", "copy"} \cup Ended
<1>1. 0 \in Thread BY Threads
<1>2. main \in {"create", "join"} /\ result = 0 /\ Large
  BY <1>1 DEF IInv, Stages, Active
<1>3. ~ Headed
  <2>1. 0 \in Cells(Page) BY OnePage DEF Cells
  <2>2. \A k \in DOMAIN secure : secure[k] = Hole BY DEF IInv, HeaderFirst
  <2>3. Hole # Head BY DEF Hole, Head
  <2> QED BY <2>1, <2>2, <2>3 DEF Headed
<1> QED BY <1>2, <1>3 DEF IInv, HeaderFirst

\* Once there is a header, thread 0 has come past it.
LEMMA HeaderSeen ==
  ASSUME IInv, Headed, NEW t \in Thread, pc[t] \notin {"unborn", "begin", "header"},
         pc'[t] \notin {"unborn", "begin", "header"}, \A u \in Thread \ {t} : pc'[u] = pc[u]
  PROVE  pc'[0] \notin {"unborn", "begin", "header"}
<1>1. pc[0] \notin {"begin", "header"} BY NobodyCopies
<1>2. pc[0] # "unborn"
  <2>1. \A k \in Cells(Page) : k \in DOMAIN secure /\ secure[k] = Head BY DEF Headed
  <2>2. 0 \in Cells(Page) BY OnePage DEF Cells
  <2>3. Hole # Head BY DEF Hole, Head
  <2> QED BY <2>1, <2>2, <2>3 DEF IInv, HeaderFirst
<1> QED BY <1>1, <1>2, Threads

\* A thread moves on and nothing else happens to it.
LEMMA Moved ==
  ASSUME IInv, NEW t \in Thread, NEW from, NEW to, Goto(t, from, to),
         to \in {"header", "wait", "old", "new", "copy", "null", "path"}
  PROVE  /\ pc' \in [Thread -> {"unborn", "absent", "begin", "header", "wait", "old", "new", "copy", "null", "path"}]
         /\ pc[t] = from /\ pc'[t] = to
         /\ \A u \in Thread \ {t} : pc'[u] = pc[u]
<1>1. pc \in [Thread -> {"unborn", "absent", "begin", "header", "wait", "old", "new", "copy", "null", "path"}]
  BY DEF IInv, TypeOK
<1> QED BY <1>1 DEF Goto

\* The stage of the call stays what it is when a thread moves on.
LEMMA StagesKept ==
  ASSUME IInv, tsize' = tsize, main' = main, result' = result, failed \subseteq failed',
         NEW t \in Thread, pc[t] \in {"begin", "header", "wait", "old", "new", "copy"},
         pc'[t] \in {"header", "wait", "old", "new", "copy", "null", "path"}, pc'[t] = "header" => t = 0,
         \A u \in Thread \ {t} : pc'[u] = pc[u]
  PROVE  Stages' /\ main \in {"create", "join"} /\ result = 0 /\ Large /\ RebuiltExact'
<1>1. main \in {"create", "join"} /\ result = 0 /\ Large
  BY DEF IInv, Stages
<1>2. Large' BY <1>1, SameSize
<1>3. \A u \in Thread : pc'[u] # "unborn" \/ pc[u] = "unborn" OBVIOUS
<1>4. \A u \in Thread : pc'[u] = "absent" => <<"create", u>> \in failed'
  BY <1>1 DEF IInv, Stages
<1>5. \A u \in Thread : pc'[u] = "header" => u = 0 BY DEF IInv, Stages
<1>6. main = "join" => \A u \in Thread : pc'[u] # "unborn" BY <1>3 DEF IInv, Stages
<1>7. Stages' BY <1>1, <1>2, <1>4, <1>5, <1>6 DEF Stages
<1> QED BY <1>1, <1>7, NotYet

\* "<path>.s" is created with the size of the rebuilt file, or cannot be.
LEMMA CreateSecureHolds ==
  ASSUME IInv, CreateSecure
  PROVE  IInv'
<1>1. /\ tsize' = tsize /\ tsize \in Sizes /\ file' = file /\ main' = main /\ result' = result
      /\ offset' = offset /\ bsize' = bsize /\ 0 \in Thread /\ spare' \in Nat
      /\ pc[0] = "begin" /\ pc'[0] \in {"header", "wait"}
  <2>1. /\ tsize' = tsize /\ tsize \in Sizes /\ file' = file /\ main' = main /\ result' = result
        /\ offset' = offset /\ bsize' = bsize /\ 0 \in Thread
    BY Threads DEF CreateSecure, IInv, TypeOK
  <2>2. pc[0] = "begin" /\ pc'[0] \in {"header", "wait"} BY <2>1, Moved DEF CreateSecure
  <2>3. spare' \in Nat
    <3>1. spare \in Nat BY DEF IInv, TypeOK
    <3>2. (spare > 0 /\ spare' = spare - 1) \/ spare' = spare BY DEF CreateSecure, Granted, Refused
    <3> QED BY <3>1, <3>2
  <2> QED BY <2>1, <2>2, <2>3
<1> DEFINE i == AsInt(tsize)
<1>2. \/ /\ Goto(0, "begin", "header") /\ UNCHANGED failed
         /\ secure' = [k \in Cells(i + Page) |-> Hole]
      \/ Goto(0, "begin", "header") /\ Note("size", 0) /\ secure' = NoFile
      \/ Goto(0, "begin", "wait") /\ Note("header", 0) /\ secure' = NoFile
  BY DEF CreateSecure, Fault, Refused
<1>3. /\ pc' \in [Thread -> {"unborn", "absent", "begin", "header", "wait", "old", "new", "copy", "null", "path"}]
      /\ \A u \in Thread \ {0} : pc'[u] = pc[u]
  BY <1>1, <1>2, Moved
<1>4. /\ failed \subseteq failed' /\ failed' \subseteq Kind \X Thread
      /\ Note("size", 0) => <<"size", 0>> \in failed'
  <2>1. failed \subseteq Kind \X Thread BY DEF IInv, TypeOK
  <2>2. "size" \in Kind /\ "header" \in Kind BY DEF Kind
  <2>3. Note("size", 0) => failed \subseteq failed' /\ failed' \subseteq Kind \X Thread /\ <<"size", 0>> \in failed'
    BY <1>1, <2>1, <2>2, Noted
  <2>4. Note("header", 0) => failed \subseteq failed' /\ failed' \subseteq Kind \X Thread
    BY <1>1, <2>1, <2>2, Noted
  <2> QED BY <1>2, <2>1, <2>3, <2>4
<1>5. /\ tsize \in Nat \ {0} /\ Page \in Nat \ {0} /\ IntLimit \in Nat \ {0} /\ Page <= IntLimit
  BY <1>1, RebuildAssumption, OnePage
<1>6. /\ i \in Int /\ i <= tsize /\ i \in (-IntLimit)..(IntLimit - 1)
      /\ tsize < IntLimit => i = tsize
  BY <1>5, IntOf
<1> HIDE DEF i
<1>7. NoFile = [k \in Cells(0) |-> Hole] BY NoCells DEF NoFile
<1>8. PICK n \in Int :
        /\ DOMAIN secure' = Cells(n) /\ \A k \in DOMAIN secure' : secure'[k] = Hole
        /\ n <= tsize + Page /\ (n > 0 => n = i + Page)
        /\ pc'[0] = "header" /\ tsize + Page < IntLimit /\ <<"size", 0>> \notin failed' => n = tsize + Page
  <2>1. CASE secure' = [k \in Cells(i + Page) |-> Hole]
    <3>1. i + Page \in Int /\ i + Page <= tsize + Page /\ (tsize + Page < IntLimit => i + Page = tsize + Page)
      BY <1>5, <1>6
    <3> QED BY <2>1, <3>1
  <2>2. CASE secure' = NoFile /\ (pc'[0] = "header" => <<"size", 0>> \in failed')
    <3>1. DOMAIN secure' = Cells(0) /\ \A k \in DOMAIN secure' : secure'[k] = Hole
      BY <2>2, NoCells
    <3>2. 0 \in Int /\ 0 <= tsize + Page /\ ~ (0 > 0) BY <1>5
    <3> QED BY <2>2, <3>1, <3>2
  <2>3. Goto(0, "begin", "wait") => pc'[0] = "wait" BY <1>1, Moved
  <2> QED BY <1>2, <1>4, <2>1, <2>2, <2>3
<1>9. TypeOK'
  <2>1. AsInt(tsize)' = i BY <1>1 DEF AsInt, i
  <2>2. Hole \in [from : -1..(tsize - 1), enc : BOOLEAN] BY <1>5 DEF Hole
  <2>3. \E m \in 0..(tsize + Page) :
          DOMAIN secure' = Cells(m) /\ (m <= IntLimit \/ m = i + Page)
    <3>1. CASE n > 0 BY <1>5, <1>8, <3>1
    <3>2. CASE n <= 0
      <4>1. Cells(n) = Cells(0) BY <1>8, <3>2 DEF Cells
      <4> QED BY <1>5, <1>8, <4>1
    <3> QED BY <1>8, <3>1, <3>2
  <2> QED BY <1>1, <1>3, <1>4, <1>8, <2>1, <2>2, <2>3 DEF TypeOK, IInv
<1>10. Stages' /\ RebuiltExact' BY <1>1, <1>3, <1>4, StagesKept
<1>11. Sound(secure)' BY <1>8 DEF Sound
<1>12. \A t \in Thread : pc[t] \notin {"old", "new", "copy"} \cup Ended BY <1>1, NobodyCopies
<1>13. \A t \in Thread : pc'[t] \notin {"old", "new", "copy"} \cup Ended BY <1>1, <1>3, <1>12 DEF Ended
<1>14. HeaderFirst'
  <2>1. ~ Headed'
    <3>1. 0 \in Cells(Page) BY <1>5 DEF Cells
    <3>2. Hole # Head BY DEF Hole, Head
    <3> QED BY <1>8, <3>1, <3>2 DEF Headed
  <2>2. Cells(n) = DOMAIN secure' BY <1>8
  <2> QED BY <1>1, <1>8, <1>13, <2>1 DEF HeaderFirst
<1>15. ASSUME NEW t \in Thread PROVE Working(t)'
  <2>1. Start(t)' = Start(t) /\ Share(t)' = Share(t) BY <1>1, SameSize
  <2>2. AsInt(Start(t))' = AsInt(Start(t)) /\ AsInt(Share(t))' = AsInt(Share(t))
    BY <2>1 DEF AsInt
  <2>3. pc'[t] \in {"begin", "header", "wait", "old", "new"} => pc[t] \in {"begin", "header", "wait", "old", "new"}
    BY <1>1, <1>3
  <2>4. Working(t) BY DEF IInv
  <2> QED BY <1>1, <1>13, <2>2, <2>3, <2>4 DEF Working
<1> QED BY <1>9, <1>10, <1>11, <1>14, <1>15 DEF IInv

CellKind == [from : -1..(tsize - 1), enc : BOOLEAN]

\* "<path>.s" is written up to cell hi, with what belongs there or is misplaced.
Writes(hi) ==
  /\ DOMAIN secure' = DOMAIN secure \cup Cells(hi)
  /\ \A k \in DOMAIN secure' :
       \/ k \notin DOMAIN secure /\ secure'[k] = Hole
       \/ k \in DOMAIN secure /\ secure'[k] = secure[k]
       \/ /\ secure'[k] \in CellKind \ {Hole}
          /\ secure'[k] = Rebuilt[k] \/ Bad(k)

\* What a write leaves true.
LEMMA WriteKeeps ==
  ASSUME TypeOK, Sound(secure), tsize' = tsize,
         NEW hi \in 0..IntLimit, hi <= tsize + Page, Writes(hi)
  PROVE  /\ Grows /\ Sound(secure)' /\ (Headed => Headed')
         /\ \A k \in DOMAIN secure' : secure'[k] \in CellKind
         /\ \E n \in 0..(tsize + Page) :
              /\ DOMAIN secure' = Cells(n)
              /\ (n <= IntLimit \/ n = AsInt(tsize) + Page)
         /\ DOMAIN secure = Cells(tsize + Page) => DOMAIN secure' = Cells(tsize + Page)
<1>1. /\ tsize \in Nat \ {0} /\ Page \in Nat \ {0} /\ IntLimit \in Nat \ {0}
      /\ hi \in Nat
  BY RebuildAssumption DEF TypeOK
<1>2. PICK n \in 0..(tsize + Page) :
        DOMAIN secure = Cells(n) /\ (n <= IntLimit \/ n = AsInt(tsize) + Page)
  BY DEF TypeOK
<1>3. Rebuilt' = Rebuilt /\ \A k : Bad(k)' <=> Bad(k) BY SameSize
<1>4. Grows
  <2> SUFFICES ASSUME NEW k \in Nat, There(k) PROVE There(k)' BY DEF Grows
  <2>1. k + Page \in DOMAIN secure /\ secure[k + Page] # Hole BY DEF There
  <2>2. k + Page \in DOMAIN secure' BY <2>1 DEF Writes
  <2>3. secure'[k + Page] # Hole BY <2>1, <2>2 DEF Writes
  <2> QED BY <2>2, <2>3 DEF There
<1>5. Sound(secure)'
  <2> SUFFICES ASSUME NEW k \in DOMAIN secure'
               PROVE  secure'[k] \in {Rebuilt[k], Hole} \/ Bad(k)
    BY <1>3 DEF Sound
  <2>1. k \in DOMAIN secure => secure[k] \in {Rebuilt[k], Hole} \/ Bad(k) BY DEF Sound
  <2> QED BY <2>1 DEF Writes
<1>6. ASSUME Headed PROVE Headed'
  <2>1. Cells(Page) \subseteq DOMAIN secure' BY <1>6 DEF Headed, Writes
  <2>2. ASSUME NEW k \in Cells(Page) PROVE secure'[k] = Head
    <3>1. k \in DOMAIN secure /\ secure[k] = Head BY <1>6, <2>2 DEF Headed
    <3>2. Rebuilt[k] = Head BY <1>6, <2>2, <3>1, HeaderRight DEF TypeOK
    <3>3. ~ Bad(k)
      <4>1. k \in Nat /\ k < Page BY <1>1, <2>2 DEF Cells
      <4> QED BY <1>1, <4>1 DEF Bad
    <3>4. k \in DOMAIN secure' BY <2>1, <2>2
    <3> QED BY <3>1, <3>2, <3>3, <3>4 DEF Writes
  <2> QED BY <2>1, <2>2 DEF Headed
<1>7. \A k \in DOMAIN secure' : secure'[k] \in CellKind
  <2> SUFFICES ASSUME NEW k \in DOMAIN secure' PROVE secure'[k] \in CellKind OBVIOUS
  <2>1. k \in DOMAIN secure => secure[k] \in CellKind BY DEF TypeOK, CellKind
  <2>2. Hole \in CellKind BY <1>1 DEF Hole, CellKind
  <2> QED BY <2>1, <2>2 DEF Writes
<1>8. DOMAIN secure' = Cells(n) \cup Cells(hi) BY <1>2 DEF Writes
<1>9. CASE n >= hi
  <2>1. Cells(n) \cup Cells(hi) = Cells(n) BY <1>1, <1>2, <1>9 DEF Cells
  <2>2. DOMAIN secure' = DOMAIN secure BY <1>2, <1>8, <2>1
  <2> QED BY <1>2, <1>4, <1>5, <1>6, <1>7, <2>2
<1>10. CASE n < hi
  <2>1. Cells(n) \cup Cells(hi) = Cells(hi) BY <1>1, <1>2, <1>10 DEF Cells
  <2>2. DOMAIN secure' = Cells(hi) BY <1>8, <2>1
  <2>3. hi \in 0..(tsize + Page) /\ hi <= IntLimit BY <1>1, <1>2, <1>10
  <2>4. DOMAIN secure # Cells(tsize + Page)
    <3>1. n \in Nat /\ n < tsize + Page BY <1>1, <1>2, <1>10
    <3>2. n \in Cells(tsize + Page) /\ n \notin Cells(n) BY <1>1, <3>1 DEF Cells
    <3> QED BY <1>2, <3>2
  <2> QED BY <1>4, <1>5, <1>6, <1>7, <2>2, <2>3, <2>4
<1> QED BY <1>1, <1>2, <1>9, <1>10

\* The header is written, as far as it is.
LEMMA WriteHeaderHolds ==
  ASSUME IInv, WriteHeader
  PROVE  IInv'
<1>1. /\ tsize' = tsize /\ tsize \in Sizes /\ file' = file /\ main' = main /\ result' = result
      /\ offset' = offset /\ bsize' = bsize /\ 0 \in Thread
      /\ pc[0] = "header" /\ Goto(0, "header", "wait") /\ spare' = spare + 1
  BY Threads DEF WriteHeader, IInv, TypeOK, Goto
<1>2. /\ pc' \in [Thread -> {"unborn", "absent", "begin", "header", "wait", "old", "new", "copy", "null", "path"}]
      /\ \A u \in Thread \ {0} : pc'[u] = pc[u]
      /\ pc'[0] = "wait"
  BY <1>1, Moved
<1>3. /\ tsize \in Nat \ {0} /\ Page \in Nat \ {0} /\ IntLimit \in Nat \ {0} /\ Page <= IntLimit
  BY <1>1, RebuildAssumption, OnePage
<1>4. /\ failed \subseteq failed' /\ failed' \subseteq Kind \X Thread
      /\ \E n \in 0..Page : secure' = WithHeader(n)
  <2>1. failed \subseteq Kind \X Thread BY DEF IInv, TypeOK
  <2>2. CASE secure' = WithHeader(Page) /\ UNCHANGED failed
    <3>1. Page \in 0..Page BY <1>3
    <3> QED BY <2>1, <2>2, <3>1
  <2>3. CASE Note("header", 0) /\ \E n \in Cells(Page) : secure' = WithHeader(n)
    <3>1. "header" \in Kind BY DEF Kind
    <3>2. \A n \in Cells(Page) : n \in 0..Page BY <1>3 DEF Cells
    <3> QED BY <1>1, <2>1, <2>3, <3>1, <3>2, Noted
  <2> QED BY <2>2, <2>3 DEF WriteHeader, Fault
<1>5. PICK m \in 0..Page : secure' = WithHeader(m) BY <1>4
<1>6. /\ secure' = [k \in DOMAIN secure \cup Cells(m) |-> IF k < m THEN Head ELSE secure[k]]
      /\ DOMAIN secure' = DOMAIN secure \cup Cells(m)
  BY <1>5 DEF WithHeader
<1>7. Writes(m)
  <2>2. ASSUME NEW k \in DOMAIN secure'
        PROVE  \/ k \notin DOMAIN secure /\ secure'[k] = Hole
               \/ k \in DOMAIN secure /\ secure'[k] = secure[k]
               \/ /\ secure'[k] \in CellKind \ {Hole}
                  /\ secure'[k] = Rebuilt[k] \/ Bad(k)
    <3>1. secure'[k] = IF k < m THEN Head ELSE secure[k] BY <1>6, <2>2
    <3>2. CASE k < m
      <4>1. PICK n \in 0..(tsize + Page) : DOMAIN secure = Cells(n) BY DEF IInv, TypeOK
      <4>2. k \in Nat BY <1>3, <1>6, <2>2, <4>1 DEF Cells
      <4>3. k \in Cells(tsize + Page) /\ k < Page BY <1>3, <3>2, <4>2 DEF Cells
      <4>4. Rebuilt[k] = Head BY <4>3 DEF Rebuilt
      <4>5. Head \in CellKind \ {Hole} BY <1>3 DEF Head, Hole, CellKind
      <4> QED BY <3>1, <3>2, <4>4, <4>5
    <3>3. CASE ~ (k < m)
      <4>1. k \notin Cells(m) BY <1>3, <3>3 DEF Cells
      <4> QED BY <1>6, <2>2, <3>1, <3>3, <4>1
    <3> QED BY <3>2, <3>3
  <2> QED BY <1>6, <2>2 DEF Writes
<1>8. /\ Grows /\ Sound(secure)'
      /\ \A k \in DOMAIN secure' : secure'[k] \in CellKind
      /\ \E n \in 0..(tsize + Page) :
           /\ DOMAIN secure' = Cells(n)
           /\ (n <= IntLimit \/ n = AsInt(tsize) + Page)
      /\ DOMAIN secure = Cells(tsize + Page) => DOMAIN secure' = Cells(tsize + Page)
  <2>1. m \in 0..IntLimit /\ m <= tsize + Page BY <1>3
  <2>2. TypeOK /\ Sound(secure) BY DEF IInv
  <2> QED BY <1>1, <1>7, <2>1, <2>2, WriteKeeps
<1>9. TypeOK'
  <2>1. AsInt(tsize)' = AsInt(tsize) BY <1>1 DEF AsInt
  <2>2. spare' \in Nat BY <1>1 DEF IInv, TypeOK
  <2> QED BY <1>1, <1>2, <1>4, <1>8, <2>1, <2>2 DEF TypeOK, IInv, CellKind
<1>10. Stages' /\ RebuiltExact' BY <1>1, <1>2, <1>4, StagesKept
<1>11. \A t \in Thread : pc'[t] \notin {"old", "new", "copy"} \cup Ended
  <2>1. \A t \in Thread : pc[t] \notin {"old", "new", "copy"} \cup Ended BY <1>1, NobodyCopies
  <2> QED BY <1>2, <2>1 DEF Ended
<1>12. HeaderFirst'
  <2>1. tsize + Page < IntLimit /\ <<"size", 0>> \notin failed' => DOMAIN secure = Cells(tsize + Page)
    BY <1>1, <1>4 DEF IInv, HeaderFirst
  <2> QED BY <1>1, <1>2, <1>8, <1>11, <2>1 DEF HeaderFirst
<1>13. ASSUME NEW t \in Thread PROVE Working(t)'
  <2>1. Start(t)' = Start(t) /\ Share(t)' = Share(t) BY <1>1, SameSize
  <2>2. AsInt(Start(t))' = AsInt(Start(t)) /\ AsInt(Share(t))' = AsInt(Share(t))
    BY <2>1 DEF AsInt
  <2>3. pc'[t] \in {"begin", "header", "wait", "old", "new"} => pc[t] \in {"begin", "header", "wait", "old", "new"}
    BY <1>1, <1>2
  <2>4. Working(t) BY DEF IInv
  <2> QED BY <1>1, <1>11, <2>2, <2>3, <2>4 DEF Working
<1> QED BY <1>8, <1>9, <1>10, <1>12, <1>13 DEF IInv

\* The other threads have nothing to do but wait.
LEMMA SkipHolds ==
  ASSUME IInv, NEW t \in Thread, SkipHeader(t)
  PROVE  IInv'
<1>1. /\ tsize' = tsize /\ tsize \in Sizes /\ file' = file /\ main' = main /\ result' = result
      /\ secure' = secure /\ offset' = offset /\ bsize' = bsize /\ failed' = failed
      /\ spare' = spare /\ pc[t] = "begin" /\ Goto(t, "begin", "wait") /\ t # 0
  BY DEF SkipHeader, IInv, TypeOK, Goto
<1>2. /\ pc' \in [Thread -> {"unborn", "absent", "begin", "header", "wait", "old", "new", "copy", "null", "path"}]
      /\ \A u \in Thread \ {t} : pc'[u] = pc[u]
      /\ pc'[t] = "wait"
  BY <1>1, Moved
<1>3. TypeOK'
  <2>1. AsInt(tsize)' = AsInt(tsize) BY <1>1 DEF AsInt
  <2> QED BY <1>1, <1>2, <2>1 DEF TypeOK, IInv
<1>4. Stages' /\ RebuiltExact' BY <1>1, <1>2, StagesKept
<1>5. (Headed' <=> Headed) /\ Grows /\ Sound(secure)' BY <1>1, SameSecure DEF IInv
<1>6. HeaderFirst'
  <2>1. pc'[0] = pc[0] BY <1>1, <1>2, Threads
  <2>2. \A u \in Thread : pc'[u] \in {"old", "new", "copy"} \cup Ended => pc[u] \in {"old", "new", "copy"} \cup Ended
    BY <1>2 DEF Ended
  <2> QED BY <1>1, <1>5, <2>1, <2>2 DEF HeaderFirst, IInv
<1>7. ASSUME NEW u \in Thread PROVE Working(u)'
  <2>1. Working(u) BY DEF IInv
  <2>2. CASE u = t
    <3>1. Start(u)' = Start(u) /\ Share(u)' = Share(u) BY <1>1, SameSize
    <3>2. AsInt(Start(u))' = AsInt(Start(u)) /\ AsInt(Share(u))' = AsInt(Share(u))
      BY <3>1 DEF AsInt
    <3> QED BY <1>1, <1>2, <2>1, <2>2, <3>2 DEF Working, Ended
  <2>3. CASE u # t
    <3>1. pc'[u] = pc[u] /\ offset'[u] = offset[u] /\ bsize'[u] = bsize[u] BY <1>1, <1>2, <2>3
    <3> QED BY <1>1, <1>5, <2>1, <3>1, OthersWork
  <2> QED BY <2>2, <2>3
<1> QED BY <1>3, <1>4, <1>5, <1>6, <1>7 DEF IInv

\* A thread that has seen the header.
LEMMA LeaveHolds ==
  ASSUME IInv, NEW t \in Thread, LeaveLoop(t)
  PROVE  IInv'
<1>1. /\ tsize' = tsize /\ tsize \in Sizes /\ file' = file /\ main' = main /\ result' = result
      /\ secure' = secure /\ offset' = offset /\ bsize' = bsize /\ failed' = failed
      /\ spare' = spare /\ pc[t] = "wait" /\ Goto(t, "wait", "old") /\ Headed
  BY DEF LeaveLoop, IInv, TypeOK, Goto
<1>2. /\ pc' \in [Thread -> {"unborn", "absent", "begin", "header", "wait", "old", "new", "copy", "null", "path"}]
      /\ \A u \in Thread \ {t} : pc'[u] = pc[u]
      /\ pc'[t] = "old"
  BY <1>1, Moved
<1>3. TypeOK'
  <2>1. AsInt(tsize)' = AsInt(tsize) BY <1>1 DEF AsInt
  <2> QED BY <1>1, <1>2, <2>1 DEF TypeOK, IInv
<1>4. Stages' /\ RebuiltExact' BY <1>1, <1>2, StagesKept
<1>5. (Headed' <=> Headed) /\ Grows /\ Sound(secure)' BY <1>1, SameSecure DEF IInv
<1>6. HeaderFirst'
  <2>1. pc'[0] \notin {"unborn", "begin", "header"} BY <1>1, <1>2, HeaderSeen
  <2>2. tsize + Page < IntLimit /\ <<"size", 0>> \notin failed => DOMAIN secure = Cells(tsize + Page)
    BY <1>1 DEF IInv, HeaderFirst
  <2> QED BY <1>1, <1>5, <2>1, <2>2 DEF HeaderFirst
<1>7. ASSUME NEW u \in Thread PROVE Working(u)'
  <2>1. Working(u) BY DEF IInv
  <2>2. CASE u = t
    <3>1. Start(u)' = Start(u) /\ Share(u)' = Share(u) BY <1>1, SameSize
    <3>2. AsInt(Start(u))' = AsInt(Start(u)) /\ AsInt(Share(u))' = AsInt(Share(u))
      BY <3>1 DEF AsInt
    <3> QED BY <1>1, <1>2, <2>1, <2>2, <3>2 DEF Working, Ended
  <2>3. CASE u # t
    <3>1. pc'[u] = pc[u] /\ offset'[u] = offset[u] /\ bsize'[u] = bsize[u] BY <1>1, <1>2, <2>3
    <3> QED BY <1>1, <1>5, <2>1, <3>1, OthersWork
  <2> QED BY <2>2, <2>3
<1> QED BY <1>3, <1>4, <1>5, <1>6, <1>7 DEF IInv

\* A thread that has been told its share and begins to copy.
LEMMA CopyBegins ==
  ASSUME tsize \in Sizes, tsize' = tsize, NEW t \in Thread,
         offset'[t] = AsInt(Start(t)), bsize'[t] = AsInt(Share(t))
  PROVE  Copying(t)'
<1>1. /\ IntLimit \in Nat \ {0} /\ Page \in Nat \ {0} /\ tsize \in Nat
      /\ Full \in Nat /\ t \in Nat /\ t <= Last /\ Last \in Nat /\ Last \in Thread
  BY RebuildAssumption, FullPages, Threads
<1>2. /\ Start(t) \in Nat /\ Start(t) % Page = 0 /\ Share(t) \in Int
      /\ t < Last => Share(t) >= 0
      /\ t = Last => Start(t) + Share(t) = tsize
  BY Shares
<1>3. /\ offset'[t] \in Int /\ offset'[t] <= Start(t) /\ offset'[t] % Page = 0
      /\ Start(t) < IntLimit => offset'[t] = Start(t)
  <2>1. -IntLimit <= Start(t) /\ (Start(t) < IntLimit => Start(t) \in (-IntLimit)..(IntLimit - 1))
    BY <1>1, <1>2
  <2> QED BY <1>1, <1>2, <2>1, IntOf
<1>4. /\ bsize'[t] \in Int /\ (Share(t) >= 0 => bsize'[t] <= Share(t))
      /\ Share(t) \in 0..(IntLimit - 1) => bsize'[t] = Share(t)
  <2>1. /\ Share(t) >= 0 => -IntLimit <= Share(t)
        /\ Share(t) \in 0..(IntLimit - 1) => Share(t) \in (-IntLimit)..(IntLimit - 1)
    BY <1>1, <1>2
  <2> QED BY <1>1, <1>2, <2>1, IntOf
<1>5. ASSUME Start(Last) <= tsize PROVE offset'[t] + bsize'[t] <= Start(t) + Share(t)
  <2>1. Share(t) >= 0
    <3>1. CASE t = Last BY <1>1, <1>2, <1>5, <3>1
    <3>2. CASE t < Last BY <1>2, <3>2
    <3> QED BY <1>1, <3>1, <3>2
  <2> QED BY <1>2, <1>3, <1>4, <2>1
<1>6. ASSUME Copyable(t)
      PROVE  /\ bsize'[t] = Share(t) /\ Share(t) \in 0..Share(t) /\ (Share(t) - bsize'[t]) % Page = 0
             /\ Min2(Start(t) + (Share(t) - bsize'[t]), Full) = Start(t)
             /\ offset'[t] = Start(t) /\ Start(t) < IntLimit
  <2>1. bsize'[t] = Share(t) /\ Share(t) \in 0..Share(t) /\ Start(t) < IntLimit /\ Start(t) <= Full
    BY <1>2, <1>4, <1>6 DEF Copyable
  <2>2. Share(t) - bsize'[t] = 0 /\ Start(t) + 0 = Start(t) /\ 0 % Page = 0
    BY <1>1, <1>2, <2>1
  <2> QED BY <1>3, <2>1, <2>2 DEF Min2
<1>7. \A k \in Cells(Start(t)) : ~ (Start(t) <= k) BY <1>2 DEF Cells
<1>8. /\ Full' = Full /\ Start(t)' = Start(t) /\ Share(t)' = Share(t)
      /\ Start(Last)' = Start(Last) /\ (Copyable(t)' <=> Copyable(t))
  BY SameSize
<1>9. Copyable(t) => Reached(t)' = Start(t) BY <1>6, <1>8 DEF Reached
<1> QED BY <1>3, <1>5, <1>6, <1>7, <1>8, <1>9 DEF Copying

\* One of the files is opened, or cannot be.
LEMMA OpenHolds ==
  ASSUME IInv, NEW t \in Thread, OpenBoth(t)
  PROVE  IInv'
<1>0. PICK from \in {"old", "new"}, to \in {"new", "copy"} :
        Open(t, from, to) /\ (to = "copy" => from = "new")
  BY DEF OpenBoth
<1>1. /\ tsize' = tsize /\ tsize \in Sizes /\ file' = file /\ main' = main /\ result' = result
      /\ secure' = secure /\ offset' = offset /\ bsize' = bsize
      /\ pc[t] = from
  BY <1>0 DEF Open, IInv, TypeOK, Goto
<1>2. \/ Goto(t, from, to) /\ failed' = failed
      \/ Goto(t, from, "null") /\ Note("open", t)
  BY <1>0 DEF Open, Refused
<1>3. failed \subseteq failed' /\ failed' \subseteq Kind \X Thread /\ (Note("open", t) => <<"open", t>> \in failed')
  <2>1. failed \subseteq Kind \X Thread BY DEF IInv, TypeOK
  <2>2. "open" \in Kind BY DEF Kind
  <2> QED BY <1>2, <2>1, <2>2, Noted
<1>4. /\ pc' \in [Thread -> {"unborn", "absent", "begin", "header", "wait", "old", "new", "copy", "null", "path"}]
      /\ \A u \in Thread \ {t} : pc'[u] = pc[u]
      /\ pc'[t] = to \/ (pc'[t] = "null" /\ <<"open", t>> \in failed')
  BY <1>2, <1>3, Moved
<1>5. TypeOK'
  <2>1. AsInt(tsize)' = AsInt(tsize) BY <1>1 DEF AsInt
  <2>2. spare' \in Nat
    <3>1. spare \in Nat BY DEF IInv, TypeOK
    <3>2. (spare > 0 /\ spare' = spare - 1) \/ spare' = spare BY <1>0 DEF Open, Granted, Refused
    <3> QED BY <3>1, <3>2
  <2> QED BY <1>1, <1>3, <1>4, <2>1, <2>2 DEF TypeOK, IInv
<1>6. Stages' /\ RebuiltExact' /\ main \in {"create", "join"} BY <1>1, <1>3, <1>4, StagesKept
<1>7. (Headed' <=> Headed) /\ Grows /\ Sound(secure)' BY <1>1, SameSecure DEF IInv
<1>8. Headed BY <1>1, <1>6 DEF IInv, HeaderFirst
<1>9. HeaderFirst'
  <2>1. pc'[0] \notin {"unborn", "begin", "header"} BY <1>1, <1>4, <1>8, HeaderSeen
  <2>2. tsize + Page < IntLimit /\ <<"size", 0>> \notin failed' => DOMAIN secure = Cells(tsize + Page)
    BY <1>3, <1>8 DEF IInv, HeaderFirst
  <2> QED BY <1>1, <1>7, <1>8, <2>1, <2>2 DEF HeaderFirst
<1>10. ASSUME NEW u \in Thread PROVE Working(u)'
  <2>1. Working(u) BY DEF IInv
  <2>2. CASE u = t
    <3>0. /\ offset'[u] = AsInt(Start(u)) /\ bsize'[u] = AsInt(Share(u))
          /\ AsInt(Start(u))' = AsInt(Start(u)) /\ AsInt(Share(u))' = AsInt(Share(u))
      <4>1. Start(u)' = Start(u) /\ Share(u)' = Share(u) BY <1>1, SameSize
      <4>2. AsInt(Start(u))' = AsInt(Start(u)) /\ AsInt(Share(u))' = AsInt(Share(u))
        BY <4>1 DEF AsInt
      <4>3. offset'[u] = AsInt(Start(u)) /\ bsize'[u] = AsInt(Share(u))
        BY <1>1, <2>1, <2>2 DEF Working
      <4> QED BY <4>2, <4>3
    <3>1. CASE pc'[t] = "copy"
      <4>1. Copying(t)' BY <1>1, <2>2, <3>0, CopyBegins
      <4> QED BY <2>2, <3>1, <4>1 DEF Working, Ended
    <3>2. CASE pc'[t] = "new" BY <2>2, <3>0, <3>2 DEF Working, Ended
    <3>3. CASE pc'[t] = "null" /\ <<"open", t>> \in failed'
      <4>1. Copied(t)' BY <3>3 DEF Copied, Unharmed
      <4> QED BY <2>2, <3>3, <4>1 DEF Working
    <3> QED BY <1>4, <3>1, <3>2, <3>3
  <2>3. CASE u # t
    <3>1. pc'[u] = pc[u] /\ offset'[u] = offset[u] /\ bsize'[u] = bsize[u] BY <1>1, <1>4, <2>3
    <3> QED BY <1>1, <1>3, <1>7, <2>1, <3>1, OthersWork
  <2> QED BY <2>2, <2>3
<1> QED BY <1>5, <1>6, <1>7, <1>9, <1>10 DEF IInv

-----------------------------------------------------------------------------
(* Copying.                                                                *)

\* What is left to be shown when a thread that copies has done a step.
LEMMA CopyKeeps ==
  ASSUME IInv, NEW t \in Thread, pc[t] = "copy", pc'[t] \in {"copy", "null", "path"},
         pc' \in [Thread -> {"unborn", "absent", "begin", "header", "wait", "old", "new", "copy", "null", "path"}],
         offset' \in [Thread -> (-IntLimit)..(IntLimit - 1)],
         bsize' \in [Thread -> (-IntLimit)..(IntLimit - 1)],
         \A u \in Thread \ {t} : pc'[u] = pc[u] /\ offset'[u] = offset[u] /\ bsize'[u] = bsize[u],
         UNCHANGED <<tsize, file, main, result>>, spare' \in Nat,
         failed \subseteq failed', failed' \subseteq Kind \X Thread,
         NEW hi \in 0..IntLimit, hi <= tsize + Page, Writes(hi),
         Working(t)'
  PROVE  IInv'
<1>1. tsize' = tsize /\ tsize \in Sizes /\ TypeOK /\ Sound(secure) BY DEF IInv, TypeOK
<1>2. /\ Grows /\ Sound(secure)' /\ (Headed => Headed')
      /\ \A k \in DOMAIN secure' : secure'[k] \in CellKind
      /\ \E n \in 0..(tsize + Page) :
           /\ DOMAIN secure' = Cells(n)
           /\ (n <= IntLimit \/ n = AsInt(tsize) + Page)
      /\ DOMAIN secure = Cells(tsize + Page) => DOMAIN secure' = Cells(tsize + Page)
  BY <1>1, WriteKeeps
<1>3. TypeOK'
  <2>1. AsInt(tsize)' = AsInt(tsize) BY <1>1 DEF AsInt
  <2> QED BY <1>1, <1>2, <2>1 DEF TypeOK, CellKind
<1>4. Stages' /\ RebuiltExact' /\ main \in {"create", "join"} BY StagesKept
<1>5. Headed BY <1>4 DEF IInv, HeaderFirst
<1>6. HeaderFirst'
  <2>1. pc'[0] \notin {"unborn", "begin", "header"} BY <1>5, HeaderSeen
  <2>2. tsize + Page < IntLimit /\ <<"size", 0>> \notin failed' => DOMAIN secure = Cells(tsize + Page)
    BY <1>5 DEF IInv, HeaderFirst
  <2> QED BY <1>1, <1>2, <1>5, <2>1, <2>2 DEF HeaderFirst
<1>7. ASSUME NEW u \in Thread PROVE Working(u)'
  <2>1. CASE u = t BY <2>1
  <2>2. CASE u # t
    <3>1. Working(u) BY DEF IInv
    <3> QED BY <1>1, <1>2, <2>2, <3>1, OthersWork
  <2> QED BY <2>1, <2>2
<1> QED BY <1>2, <1>3, <1>4, <1>6, <1>7 DEF IInv

\* Nothing is written.
LEMMA NothingWritten ==
  ASSUME secure' = secure
  PROVE  Writes(0)
<1>1. Cells(0) = {} BY DEF Cells
<1>2. DOMAIN secure' = DOMAIN secure \cup Cells(0) BY <1>1
<1> QED BY <1>1, <1>2 DEF Writes

\* What a pwrite leaves behind, whether it is complete or not.
LEMMA PwriteStores ==
  ASSUME NEW t \in Thread, NEW from, NEW count \in Int, NEW to, Pwrite(t, from, count, to),
         failed \subseteq Kind \X Thread
  PROVE  /\ failed \subseteq failed' /\ failed' \subseteq Kind \X Thread
         /\ \E n \in Int :
              /\ secure' = Stored(from, count, n, to)
              /\ n = count \/ (n \in 0..(count - 1) /\ <<"write", t>> \in failed')
<1>1. CASE secure' = Stored(from, count, count, to) /\ UNCHANGED failed BY <1>1
<1>2. CASE Note("write", t) /\ \E n \in Cells(count) : secure' = Stored(from, count, n, to)
  <2>1. "write" \in Kind BY DEF Kind
  <2>2. /\ failed \subseteq failed' /\ failed' \subseteq Kind \X Thread
        /\ <<"write", t>> \in failed'
    BY <1>2, <2>1, Noted
  <2>3. PICK n \in Cells(count) : secure' = Stored(from, count, n, to) BY <1>2
  <2>4. n \in 0..(count - 1) /\ n \in Int BY DEF Cells
  <2> QED BY <2>2, <2>3, <2>4
<1> QED BY <1>1, <1>2 DEF Pwrite, Fault

\* Nothing is stored.
LEMMA StoredNothing ==
  ASSUME NEW from, NEW count \in Int, NEW n \in Int, NEW to \in Int, to < 0 \/ n <= 0,
         secure' = Stored(from, count, n, to), DOMAIN secure \subseteq Nat
  PROVE  Writes(0)
<1>1. Cells(0) = {} BY DEF Cells
<1>2. ~ (to >= 0 /\ n > 0) OBVIOUS
<1>3. secure' = [k \in DOMAIN secure \cup Cells(0) |->
                   IF to >= 0 /\ to <= k /\ k < to + n
                   THEN Copy(from + (k - to), InBlock(k - to, count))
                   ELSE IF k \in DOMAIN secure THEN secure[k] ELSE Hole]
  BY <1>2 DEF Stored
<1>4. DOMAIN secure' = DOMAIN secure \cup Cells(0) BY <1>3
<1>5. ASSUME NEW k \in DOMAIN secure' PROVE k \in DOMAIN secure /\ secure'[k] = secure[k]
  <2>1. k \in DOMAIN secure /\ k \in Nat BY <1>1, <1>4, <1>5
  <2>2. ~ (to >= 0 /\ to <= k /\ k < to + n) BY <2>1
  <2> QED BY <1>3, <1>4, <2>1, <2>2
<1> QED BY <1>4, <1>5 DEF Writes

\* Cells are written at a place from which on all of them are right or misplaced.
LEMMA StoredSome ==
  ASSUME NEW from \in Nat, NEW count \in Nat, NEW n \in Nat \ {0}, NEW to \in Nat,
         from + n <= tsize, tsize \in Nat, DOMAIN secure \subseteq Nat,
         secure' = Stored(from, count, n, to),
         \A k \in to..(to + n - 1) :
           Copy(from + (k - to), InBlock(k - to, count)) = Rebuilt[k] \/ Bad(k)
  PROVE  /\ Writes(to + n)
         /\ \A k \in to..(to + n - 1) : k \in DOMAIN secure' /\ secure'[k] # Hole
<1>1. secure' = [k \in DOMAIN secure \cup Cells(to + n) |->
                   IF to >= 0 /\ to <= k /\ k < to + n
                   THEN Copy(from + (k - to), InBlock(k - to, count))
                   ELSE IF k \in DOMAIN secure THEN secure[k] ELSE Hole]
  BY DEF Stored
<1>2. DOMAIN secure' = DOMAIN secure \cup Cells(to + n) BY <1>1
<1>3. ASSUME NEW k \in to..(to + n - 1)
      PROVE  k \in DOMAIN secure' /\ secure'[k] = Copy(from + (k - to), InBlock(k - to, count))
             /\ secure'[k] \in CellKind \ {Hole}
  <2>1. k \in Cells(to + n) BY DEF Cells
  <2>2. secure'[k] = Copy(from + (k - to), InBlock(k - to, count)) BY <1>1, <1>2, <2>1
  <2>3. from + (k - to) \in 0..(tsize - 1) OBVIOUS
  <2>4. InBlock(k - to, count) \in BOOLEAN BY DEF InBlock
  <2>5. from + (k - to) \in -1..(tsize - 1) /\ from + (k - to) # -1 BY <2>3
  <2> HIDE DEF CellKind
  <2>6. Copy(from + (k - to), InBlock(k - to, count)) \in CellKind BY <2>4, <2>5 DEF Copy, CellKind
  <2>7. Copy(from + (k - to), InBlock(k - to, count)).from = from + (k - to) /\ Hole.from = -1
    BY DEF Copy, Hole
  <2> QED BY <1>2, <2>1, <2>2, <2>5, <2>6, <2>7
<1>4. ASSUME NEW k \in DOMAIN secure', k \notin to..(to + n - 1)
      PROVE  \/ k \notin DOMAIN secure /\ secure'[k] = Hole
             \/ k \in DOMAIN secure /\ secure'[k] = secure[k]
  <2>1. k \in Nat BY <1>2, <1>4 DEF Cells
  <2>2. ~ (to >= 0 /\ to <= k /\ k < to + n) BY <1>4, <2>1
  <2> QED BY <1>1, <1>2, <1>4, <2>2
<1> QED BY <1>2, <1>3, <1>4 DEF Writes

\* The place that comes a page after another one, as an int.
LEMMA NextPlace ==
  ASSUME NEW o \in Nat, o < IntLimit, o % Page = 0
  PROVE  /\ o + Page \in Nat /\ (o + Page) % Page = 0 /\ o + Page <= IntLimit
         /\ AsInt(o + Page) \in (-IntLimit)..(IntLimit - 1) /\ AsInt(o + Page) % Page = 0
         /\ AsInt(o + Page) <= o + Page
         /\ o + Page < IntLimit => AsInt(o + Page) = o + Page
         /\ o + Page >= IntLimit => AsInt(o + Page) < 0
<1>1. Page \in Nat \ {0} /\ IntLimit \in Nat \ {0} BY RebuildAssumption
<1>2. (o + Page) % Page = 0 /\ o + Page <= IntLimit
  <2>1. Page % Page = 0 /\ IntLimit % Page = 0 BY OnePage
  <2>2. o \in Int /\ Page \in Int /\ IntLimit \in Int BY <1>1
  <2>3. (o + Page) % Page = 0 BY <2>1, <2>2, WholePages
  <2>4. o + Page <= IntLimit BY <2>1, <2>2, WholePages
  <2> QED BY <2>3, <2>4
<1>3. /\ AsInt(o + Page) \in (-IntLimit)..(IntLimit - 1) /\ AsInt(o + Page) % Page = 0
      /\ AsInt(o + Page) <= o + Page
      /\ o + Page < IntLimit => AsInt(o + Page) = o + Page
  <2>1. o + Page \in Int /\ -IntLimit <= o + Page BY <1>1
  <2> QED BY <1>1, <1>2, <2>1, IntOf
<1>4. ASSUME o + Page >= IntLimit PROVE AsInt(o + Page) < 0
  <2>1. o + Page = IntLimit BY <1>1, <1>2, <1>4
  <2>2. IntLimit + IntLimit = 2 * IntLimit BY <1>1
  <2>3. (2 * IntLimit) % (2 * IntLimit) = 0 BY <1>1
  <2>4. AsInt(IntLimit) = 0 - IntLimit BY <2>2, <2>3 DEF AsInt
  <2> QED BY <1>1, <2>1, <2>4
<1> QED BY <1>1, <1>2, <1>3, <1>4

\* What is in complete blocks of a page, or of what is left of the file, is in
\* complete blocks of the file.
LEMMA SameBlocks ==
  ASSUME tsize \in Nat, NEW o \in Nat, o % Page = 0, NEW count \in 1..Page, o + count <= tsize,
         count = Page \/ o + count = tsize, NEW i \in 0..(count - 1)
  PROVE  InBlock(i, count) <=> InBlock(o + i, tsize)
<1>1. Page \in Nat \ {0} /\ Block \in Nat \ {0} /\ Page % Block = 0 BY RebuildAssumption
<1>2. PICK c \in Nat : Page = Block * c
  <2>1. Page \div Block \in Nat /\ Page = Block * (Page \div Block) BY <1>1
  <2> QED BY <2>1
<1>3. PICK d \in Nat : o = Block * d
  <2>1. o \div Page \in Nat /\ o = Page * (o \div Page) BY <1>1
  <2> DEFINE e == o \div Page
  <2>2. e \in Nat /\ o = Page * e BY <2>1
  <2> HIDE DEF e
  <2>3. o = Block * (c * e) /\ c * e \in Nat BY <1>1, <1>2, <2>2
  <2> QED BY <2>3
<1> DEFINE p == tsize \div Block
           r == tsize % Block
<1>4. p \in Nat /\ r \in 0..(Block - 1) /\ tsize = Block * p + r BY <1>1
<1>5. CASE o + count = tsize
  <2> HIDE DEF p, r
  <2>1. count = tsize - o BY <1>1, <1>5
  <2>2. count = Block * (p - d) + r BY <1>1, <1>3, <1>4, <2>1
  <2>3. count % Block = r
    <3> DEFINE q == p - d
    <3>1. q \in Int BY <1>3, <1>4
    <3> HIDE DEF q
    <3>2. count = Block * q + r BY <2>2 DEF q
    <3> QED BY <1>1, <1>4, <3>1, <3>2
  <2>4. count - (count % Block) = (tsize - r) - o BY <1>1, <1>4, <2>1, <2>3
  <2> QED BY <1>1, <1>4, <2>4 DEF InBlock, r
<1>6. CASE count = Page
  <2>1. InBlock(i, count) BY <1>1, <1>6 DEF InBlock
  <2> HIDE DEF p, r
  <2>2. Block * (c + d) <= Block * p + r BY <1>1, <1>2, <1>3, <1>4, <1>6
  <2>3. c + d <= p
    <3> SUFFICES ASSUME c + d >= p + 1 PROVE FALSE BY <1>2, <1>3, <1>4
    <3>1. Block * (c + d) >= Block * (p + 1) BY <1>1, <1>2, <1>3, <1>4
    <3>2. Block * (p + 1) = Block * p + Block BY <1>1, <1>4
    <3>3. Block * (c + d) \in Nat /\ Block * p \in Nat BY <1>1, <1>2, <1>3, <1>4
    <3> QED BY <1>1, <1>4, <2>2, <3>1, <3>2, <3>3
  <2>4. Block * (c + d) <= Block * p BY <1>1, <1>2, <1>3, <1>4, <2>3
  <2>5. Block * (c + d) = Page + o BY <1>1, <1>2, <1>3
  <2>6. tsize - r >= o + Page BY <1>1, <1>4, <2>4, <2>5
  <2>7. o + i < tsize - r BY <1>1, <1>4, <1>6, <2>6
  <2> QED BY <2>1, <2>7 DEF InBlock, r
<1> QED BY <1>5, <1>6

\* A page, or what is left of the file, that is stored a page further on, as far as
\* the pwrite gets.
LEMMA StoredRight ==
  ASSUME tsize \in Nat, DOMAIN secure \subseteq Nat,
         NEW o \in Nat, o < IntLimit, o % Page = 0, NEW count \in 1..Page, o + count <= tsize,
         count = Page \/ o + count = tsize, NEW n \in 0..count,
         secure' = Stored(o, count, n, AsInt(o + Page))
  PROVE  \E hi \in 0..IntLimit :
           /\ hi <= tsize + Page /\ Writes(hi)
           /\ n = count => \A k \in o..(o + count - 1) : k + Page < IntLimit => There(k)'
<1>1. Page \in Nat \ {0} /\ IntLimit \in Nat \ {0} /\ 0 \in 0..IntLimit /\ 0 <= tsize + Page
  BY RebuildAssumption
<1> DEFINE to == AsInt(o + Page)
<1>2. /\ o + Page \in Nat /\ (o + Page) % Page = 0 /\ o + Page <= IntLimit /\ to \in Int
      /\ o + Page < IntLimit => to = o + Page
      /\ o + Page >= IntLimit => to < 0
  <2>1. AsInt(o + Page) \in (-IntLimit)..(IntLimit - 1) BY NextPlace
  <2> QED BY <1>1, <2>1, NextPlace
<1> HIDE DEF to
<1>3. CASE o + Page >= IntLimit
  <2>1. secure' = Stored(o, count, n, to) /\ to < 0 /\ count \in Int /\ n \in Int
    BY <1>1, <1>2, <1>3 DEF to
  <2>2. Writes(0) BY <1>2, <2>1, StoredNothing
  <2>3. \A k \in o..(o + count - 1) : ~ (k + Page < IntLimit) BY <1>1, <1>3
  <2> QED BY <1>1, <2>2, <2>3
<1>4. CASE n = 0
  <2>1. secure' = Stored(o, count, n, to) /\ count \in Int /\ n \in Int /\ n <= 0 /\ n # count
    BY <1>1, <1>4 DEF to
  <2>2. Writes(0) BY <1>2, <2>1, StoredNothing
  <2> QED BY <1>1, <2>1, <2>2
<1>5. CASE o + Page < IntLimit /\ n # 0
  <2>1. secure' = Stored(o, count, n, o + Page) BY <1>2, <1>5 DEF to
  <2>2. ASSUME NEW k \in (o + Page)..(o + Page + n - 1)
        PROVE  Copy(o + (k - (o + Page)), InBlock(k - (o + Page), count)) = Rebuilt[k]
    <3> DEFINE i == k - (o + Page)
    <3>1. i \in 0..(count - 1) /\ k - Page = o + i /\ k \in Cells(tsize + Page) /\ ~ (k < Page)
      BY <1>1, <1>2 DEF Cells
    <3>2. Rebuilt[k] = Copy(k - Page, InBlock(k - Page, tsize)) BY <3>1 DEF Rebuilt
    <3> HIDE DEF i
    <3>3. InBlock(i, count) <=> InBlock(o + i, tsize) BY <3>1, SameBlocks
    <3>4. InBlock(i, count) \in BOOLEAN /\ InBlock(o + i, tsize) \in BOOLEAN BY DEF InBlock
    <3>5. InBlock(i, count) = InBlock(o + i, tsize) BY <3>3, <3>4
    <3> QED BY <3>1, <3>2, <3>5 DEF i
  <2> DEFINE at == o + Page
  <2>3. at \in Nat /\ count \in Nat /\ n \in Nat \ {0} /\ o + n <= tsize BY <1>1, <1>5
  <2>4. /\ secure' = Stored(o, count, n, at)
        /\ \A k \in at..(at + n - 1) :
             Copy(o + (k - at), InBlock(k - at, count)) = Rebuilt[k] \/ Bad(k)
    BY <2>1, <2>2
  <2> HIDE DEF at
  <2>5. /\ Writes(at + n)
        /\ \A k \in at..(at + n - 1) : k \in DOMAIN secure' /\ secure'[k] # Hole
    BY <2>3, <2>4, StoredSome
  <2>6. at + Page <= IntLimit
    <3>1. at < IntLimit /\ at % Page = 0 BY <1>2, <1>5 DEF at
    <3> QED BY <2>3, <3>1, NextPlace
  <2>7. at + n \in 0..IntLimit /\ at + n <= tsize + Page BY <1>1, <2>3, <2>6 DEF at
  <2>8. n = count => \A k \in o..(o + count - 1) : There(k)'
    <3> SUFFICES ASSUME n = count, NEW k \in o..(o + count - 1) PROVE There(k)' OBVIOUS
    <3>1. k + Page \in at..(at + n - 1) BY <1>1 DEF at
    <3> QED BY <2>5, <3>1 DEF There
  <2> QED BY <2>5, <2>7, <2>8
<1> QED BY <1>1, <1>3, <1>4, <1>5

\* An incomplete page is stored without room for the header when the size is not
\* good, and there is a page before it.
LEMMA StoredBad ==
  ASSUME tsize \in Sizes, Large, DOMAIN secure \subseteq Nat, ~ GoodSize,
         NEW o \in Nat, o < IntLimit, o % Page = 0, NEW count \in 1..(Page - 1), o + count = tsize,
         NEW n \in 0..count, secure' = Stored(o, count, n, o)
  PROVE  \E hi \in 0..IntLimit : hi <= tsize + Page /\ Writes(hi)
<1>1. Page \in Nat \ {0} /\ IntLimit \in Nat \ {0} BY RebuildAssumption
<1>2. /\ tsize \in Nat /\ Full \in Nat /\ Full % Page = 0 /\ Full <= tsize /\ tsize < Full + Page
      /\ Page <= Full
  BY FullPages
<1>3. o = Full
  <2>1. o < Full => o + Page <= Full BY <1>2, WholePages
  <2>2. Full < o => Full + Page <= o BY <1>2, WholePages
  <2> QED BY <1>1, <1>2, <2>1, <2>2
<1>4. \A k \in o..(o + n - 1) : Bad(k)
  <2> SUFFICES ASSUME NEW k \in o..(o + n - 1) PROVE Bad(k) OBVIOUS
  <2>1. k >= Page /\ k - Page >= Full - Page BY <1>1, <1>2, <1>3
  <2> QED BY <2>1 DEF Bad, BadTail, Full
<1>5. CASE n = 0
  <2>1. Writes(0) BY <1>1, <1>5, StoredNothing
  <2> QED BY <1>1, <1>2, <2>1
<1>6. CASE n # 0
  <2>0. n \in Nat \ {0} /\ count \in Nat /\ o + n <= tsize BY <1>1, <1>2, <1>6
  <2>1. Writes(o + n) BY <1>2, <1>4, <2>0, StoredSome
  <2>2. o + Page <= IntLimit BY NextPlace
  <2> QED BY <1>1, <1>2, <1>3, <2>0, <2>1, <2>2
<1> QED BY <1>5, <1>6

\* Where a thread stands that copies.
LEMMA CopyPlace ==
  ASSUME IInv, NEW t \in Thread, pc[t] = "copy"
  PROVE  /\ offset[t] \in Int /\ -IntLimit <= offset[t] /\ offset[t] < IntLimit
         /\ bsize[t] \in Int /\ -IntLimit <= bsize[t] /\ bsize[t] < IntLimit
         /\ Copying(t) /\ offset[t] % Page = 0 /\ Large /\ tsize \in Sizes
         /\ DOMAIN secure \subseteq Nat
         /\ Start(t) \in Nat /\ Start(t) % Page = 0 /\ Share(t) \in Int
         /\ Start(Last) <= tsize => offset[t] + bsize[t] <= tsize
<1>1. tsize \in Sizes /\ tsize \in Nat /\ IntLimit \in Nat BY RebuildAssumption DEF IInv, TypeOK
<1>2. /\ offset[t] \in Int /\ -IntLimit <= offset[t] /\ offset[t] < IntLimit
      /\ bsize[t] \in Int /\ -IntLimit <= bsize[t] /\ bsize[t] < IntLimit
  <2>1. /\ offset \in [Thread -> (-IntLimit)..(IntLimit - 1)]
        /\ bsize \in [Thread -> (-IntLimit)..(IntLimit - 1)]
    BY DEF IInv, TypeOK
  <2>2. offset[t] \in (-IntLimit)..(IntLimit - 1) /\ bsize[t] \in (-IntLimit)..(IntLimit - 1)
    BY <2>1
  <2> QED BY <1>1, <2>2
<1>3. Copying(t) BY DEF IInv, Working
<1>4. Large BY DEF IInv, Stages, Active
<1>5. DOMAIN secure \subseteq Nat
  <2>1. PICK n \in 0..(tsize + Page) : DOMAIN secure = Cells(n) BY DEF IInv, TypeOK
  <2> QED BY <2>1 DEF Cells
<1>6. Start(t) \in Nat /\ Start(t) % Page = 0 /\ Share(t) \in Int BY <1>1, Shares
<1>7. ASSUME Start(Last) <= tsize PROVE offset[t] + bsize[t] <= tsize
  <2>1. offset[t] + bsize[t] <= Start(t) + Share(t) BY <1>3, <1>7 DEF Copying
  <2>2. Start(t) + Share(t) <= tsize
    <3>1. Last \in Thread /\ t <= Last /\ t \in Nat /\ Last \in Nat BY Threads
    <3>2. Start(Last) \in Nat BY <1>1, <3>1, Shares
    <3>3. CASE t = Last BY <1>1, <3>3, Shares
    <3>4. CASE t < Last
      <4>1. Share(t) = Average /\ Start(t) + Average <= Start(Last) BY <1>1, <3>4, Shares
      <4>2. Average \in Nat BY <1>1, AverageType
      <4> QED BY <1>1, <1>6, <1>7, <3>2, <4>1, <4>2
    <3> QED BY <3>1, <3>3, <3>4
  <2> QED BY <1>1, <1>2, <1>6, <2>1, <2>2
<1> QED BY <1>1, <1>2, <1>3, <1>4, <1>5, <1>6, <1>7 DEF Copying

\* One round of the copying: where it reads, what it writes and where it goes.
LEMMA OneRound ==
  ASSUME IInv, NEW t \in Thread, CopyPage(t)
  PROVE  /\ offset'[t] \in (-IntLimit)..(IntLimit - 1) /\ offset'[t] % Page = 0
         /\ offset'[t] <= offset[t] + Page
         /\ failed \subseteq failed' /\ failed' \subseteq Kind \X Thread
         /\ \E hi \in 0..IntLimit : hi <= tsize + Page /\ Writes(hi)
         /\ \/ offset'[t] = offset[t] /\ <<"read", t>> \in failed'
            \/ offset[t] < 0 /\ offset'[t] = offset[t]
            \/ offset[t] >= 0 /\ offset[t] + Page > tsize /\ offset'[t] = offset[t]
            \/ /\ offset[t] >= 0 /\ offset[t] + Page <= tsize
               /\ offset'[t] = AsInt(offset[t] + Page)
               /\ <<"write", t>> \notin failed' =>
                    \A k \in offset[t]..(offset[t] + Page - 1) : k + Page < IntLimit => There(k)'
<1> DEFINE o == offset[t]
           b == bsize[t]
           count == Count(o)
           to == IF count = Page THEN AsInt(o + count) ELSE o
<1>1. /\ pc[t] = "copy" /\ b >= Page /\ tsize \in Sizes /\ failed \subseteq Kind \X Thread
      /\ \/ offset'[t] = to /\ Pwrite(t, o, count, to)
         \/ Note("read", t) /\ offset'[t] = o /\ secure' = secure
  <2>1. offset \in [Thread -> (-IntLimit)..(IntLimit - 1)] /\ tsize \in Sizes /\ failed \subseteq Kind \X Thread
    BY DEF IInv, TypeOK
  <2>2. CASE offset' = [offset EXCEPT ![t] = to] /\ Pwrite(t, o, count, to)
    <3>1. offset'[t] = to BY <2>1, <2>2
    <3> QED BY <2>1, <2>2, <3>1 DEF CopyPage
  <2>3. CASE ReadFails(t) BY <2>1, <2>3 DEF CopyPage, ReadFails, Fault
  <2> QED BY <2>2, <2>3 DEF CopyPage
<1>2. /\ Page \in Nat \ {0} /\ IntLimit \in Nat \ {0} /\ tsize \in Nat BY <1>1, RebuildAssumption
<1>3. /\ o \in Int /\ -IntLimit <= o /\ o < IntLimit /\ b \in Int /\ o % Page = 0 /\ Large
      /\ DOMAIN secure \subseteq Nat /\ (Start(Last) <= tsize => o + b <= tsize)
  BY <1>1, CopyPlace
<1> HIDE DEF o, b
<1>4. o \in (-IntLimit)..(IntLimit - 1) /\ o <= o + Page BY <1>2, <1>3
<1>5. 0 \in 0..IntLimit /\ 0 <= tsize + Page BY <1>2
<1>6. CASE Note("read", t) /\ offset'[t] = o /\ secure' = secure
  <2>1. "read" \in Kind BY DEF Kind
  <2>2. failed \subseteq failed' /\ failed' \subseteq Kind \X Thread /\ <<"read", t>> \in failed'
    BY <1>1, <1>6, <2>1, Noted
  <2>3. Writes(0) BY <1>6, NothingWritten
  <2> QED BY <1>3, <1>4, <1>5, <1>6, <2>2, <2>3 DEF o
<1>7. CASE offset'[t] = to /\ Pwrite(t, o, count, to)
  <2>1. count \in Int
    <3>1. count = -1 \/ count = 0 \/ count = Page \/ count = tsize - o BY DEF Count, Min2
    <3> HIDE DEF count
    <3> QED BY <1>2, <1>3, <3>1
  <2> HIDE DEF count, to
  <2>2. /\ failed \subseteq failed' /\ failed' \subseteq Kind \X Thread
        /\ \E n \in Int :
             /\ secure' = Stored(o, count, n, to)
             /\ n = count \/ (n \in 0..(count - 1) /\ <<"write", t>> \in failed')
    BY <1>1, <1>7, <2>1, PwriteStores
  <2>3. PICK n \in Int :
          /\ secure' = Stored(o, count, n, to)
          /\ n = count \/ (n \in 0..(count - 1) /\ <<"write", t>> \in failed')
    BY <2>2
  <2>4. CASE o < 0
    <3>1. count = -1 /\ to = o BY <1>2, <2>4 DEF Count, count, to
    <3>2. n <= 0 BY <2>3, <3>1
    <3>3. Writes(0) BY <1>3, <2>1, <2>3, <3>1, <3>2, StoredNothing
    <3> QED BY <1>3, <1>4, <1>5, <1>7, <2>2, <2>4, <3>1, <3>3 DEF o
  <2>5. CASE o >= 0 /\ o + Page <= tsize
    <3>1. count = Page
      <4>1. ~ (o < 0) /\ ~ (o >= tsize) BY <1>2, <1>3, <2>5
      <4>2. Min2(Page, tsize - o) = Page BY <1>2, <1>3, <2>5 DEF Min2
      <4> QED BY <4>1, <4>2 DEF Count, count
    <3>2. to = AsInt(o + Page) BY <3>1 DEF to
    <3>3. secure' = Stored(o, Page, n, AsInt(o + Page)) /\ n \in 0..Page
          /\ (<<"write", t>> \notin failed' => n = Page)
      BY <1>2, <2>3, <3>1, <3>2
    <3>4. \E hi \in 0..IntLimit :
             /\ hi <= tsize + Page /\ Writes(hi)
             /\ n = Page => \A k \in o..(o + Page - 1) : k + Page < IntLimit => There(k)'
      <4>1. o \in Nat /\ Page \in 1..Page BY <1>2, <1>3, <2>5
      <4> QED BY <1>2, <1>3, <2>5, <3>3, <4>1, StoredRight
    <3>5. AsInt(o + Page) \in (-IntLimit)..(IntLimit - 1) /\ AsInt(o + Page) % Page = 0
          /\ AsInt(o + Page) <= o + Page
      BY <1>3, <2>5, NextPlace
    <3> QED BY <1>7, <2>2, <2>5, <3>2, <3>3, <3>4, <3>5 DEF o
  <2>6. CASE o >= 0 /\ o + Page > tsize
    <3>1. /\ o < tsize => count = tsize - o /\ count \in 1..(Page - 1)
          /\ o >= tsize => count = 0
      <4>1. ASSUME o < tsize PROVE count = tsize - o /\ count \in 1..(Page - 1)
        <5>1. Min2(Page, tsize - o) = tsize - o BY <1>2, <1>3, <2>6 DEF Min2
        <5>2. ~ (o < 0) /\ ~ (o >= tsize) BY <1>2, <1>3, <2>6, <4>1
        <5>3. count = tsize - o BY <5>1, <5>2 DEF Count, count
        <5> QED BY <1>2, <1>3, <2>6, <4>1, <5>3
      <4>2. ASSUME o >= tsize PROVE count = 0
        <5>1. ~ (o < 0) BY <1>3, <2>6
        <5> QED BY <4>2, <5>1 DEF Count, count
      <4> QED BY <4>1, <4>2
    <3>2. count # Page BY <1>2, <1>3, <3>1
    <3>3. to = o BY <3>2 DEF to
    <3>4. CASE o >= tsize
      <4>1. n <= 0 BY <2>3, <3>1, <3>4
      <4>2. Writes(0) BY <1>3, <2>1, <2>3, <3>3, <4>1, StoredNothing
      <4> QED BY <1>3, <1>4, <1>5, <1>7, <2>2, <2>6, <3>3, <4>2 DEF o
    <3>5. CASE o < tsize
      <4>1. ~ GoodSize
        <5>1. tsize % Page # 0
          <6> SUFFICES ASSUME tsize % Page = 0 PROVE FALSE OBVIOUS
          <6>1. o \in Int /\ tsize \in Int /\ tsize % Page = 0 /\ o % Page = 0 BY <1>2, <1>3
          <6>2. o + Page <= tsize BY <3>5, <6>1, WholePages
          <6> QED BY <1>2, <1>3, <2>6, <6>2
        <5>2. ~ (Average * Last <= tsize)
          <6> SUFFICES ASSUME Start(Last) <= tsize PROVE FALSE BY DEF Start
          <6>1. o + b <= tsize BY <1>3
          <6> QED BY <1>1, <1>2, <1>3, <2>6, <6>1
        <5>3. ~ (tsize <= Page * THREADS_COUNT)
          <6>1. Page * THREADS_COUNT \in Nat BY <1>2, Threads
          <6> QED BY <1>2, <1>3, <6>1 DEF Large
        <5> QED BY <5>1, <5>2, <5>3 DEF GoodSize
      <4>2. count \in 1..(Page - 1) /\ o + count = tsize /\ o \in Nat BY <1>2, <1>3, <2>6, <3>1, <3>5
      <4>3. n \in 0..count BY <2>3, <4>2
      <4>4. \E hi \in 0..IntLimit : hi <= tsize + Page /\ Writes(hi)
        BY <1>1, <1>3, <2>3, <3>3, <4>1, <4>2, <4>3, StoredBad
      <4> QED BY <1>3, <1>4, <1>7, <2>2, <2>6, <3>3, <4>4 DEF o
    <3> QED BY <1>2, <1>3, <3>4, <3>5
  <2> QED BY <1>2, <1>3, <2>4, <2>5, <2>6
<1> QED BY <1>1, <1>6, <1>7

\* A page further a thread is again where it would be if all pages were complete.
LEMMA StillCopying ==
  ASSUME IInv, NEW t \in Thread, CopyPage(t), Grows
  PROVE  Copying(t)'
<1> DEFINE o == offset[t]
           b == bsize[t]
           p == Start(t) + (Share(t) - b)
<1>1. /\ pc[t] = "copy" /\ b >= Page /\ tsize \in Sizes /\ tsize' = tsize
      /\ bsize'[t] = b - Page
  <2>1. bsize \in [Thread -> (-IntLimit)..(IntLimit - 1)] BY DEF IInv, TypeOK
  <2>2. bsize' = [bsize EXCEPT ![t] = @ - Page] BY DEF CopyPage
  <2>3. bsize'[t] = b - Page BY <2>1, <2>2
  <2> QED BY <2>3 DEF CopyPage, IInv, TypeOK
<1>2. /\ Page \in Nat \ {0} /\ IntLimit \in Nat \ {0} /\ tsize \in Nat
      /\ Full \in Nat /\ Full % Page = 0 /\ Full <= tsize /\ tsize < Full + Page
  BY <1>1, RebuildAssumption, FullPages
<1>3. /\ o \in Int /\ -IntLimit <= o /\ o < IntLimit /\ b \in Int /\ Copying(t)
      /\ Start(t) \in Nat /\ Start(t) % Page = 0 /\ Share(t) \in Int
  BY <1>1, CopyPlace
<1> DEFINE o1 == offset'[t]
<1>4. /\ o1 \in Int /\ o1 % Page = 0 /\ o1 <= o + Page
      /\ \/ o1 = o /\ <<"read", t>> \in failed'
         \/ o < 0 /\ o1 = o
         \/ o >= 0 /\ o + Page > tsize /\ o1 = o
         \/ /\ o >= 0 /\ o + Page <= tsize /\ o1 = AsInt(o + Page)
            /\ <<"write", t>> \notin failed' => \A k \in o..(o + Page - 1) : k + Page < IntLimit => There(k)'
  <2>1. o1 \in (-IntLimit)..(IntLimit - 1) BY OneRound
  <2>2. o1 \in Int BY <1>2, <2>1
  <2> QED BY <2>2, OneRound
<1> HIDE DEF o, o1, b
<1>5. ASSUME Start(Last) <= tsize PROVE o1 + (b - Page) <= Start(t) + Share(t)
  <2>1. o + b <= Start(t) + Share(t) BY <1>3, <1>5 DEF Copying, o, b
  <2> QED BY <1>2, <1>3, <1>4, <2>1
<1> DEFINE q == p + Page
<1>6. ASSUME Copyable(t), Unharmed(t)'
      PROVE  /\ b - Page \in 0..Share(t) /\ (Share(t) - (b - Page)) % Page = 0
             /\ IF Min2(q, Full) < IntLimit THEN o1 = Min2(q, Full) ELSE o1 < 0
             /\ \A k \in Cells(Min2(q, Full)) : Start(t) <= k /\ k + Page < IntLimit => There(k)'
  <2>0. /\ Unharmed(t) /\ <<"read", t>> \notin failed' /\ <<"write", t>> \notin failed'
    BY <1>6, OneRound DEF Unharmed
  <2>1. /\ b \in 0..Share(t) /\ (Share(t) - b) % Page = 0
        /\ IF Reached(t) < IntLimit THEN o = Reached(t) ELSE o < 0
        /\ \A k \in Cells(Reached(t)) : Start(t) <= k /\ k + Page < IntLimit => There(k)
    BY <1>3, <1>6, <2>0 DEF Copying, o, b
  <2>2. Reached(t) = Min2(p, Full) BY DEF Reached, o, b
  <2>3. b - Page \in 0..Share(t) BY <1>1, <1>2, <1>3, <2>1
  <2> DEFINE d == Share(t) - b
  <2>4. d \in Int /\ d >= 0 /\ d % Page = 0 BY <1>3, <2>1
  <2>5. Page \in Int /\ Page % Page = 0 BY OnePage
  <2> HIDE DEF d
  <2>6. (d + Page) % Page = 0 BY <2>4, <2>5, WholePages
  <2>7. Share(t) - (b - Page) = d + Page BY <1>2, <1>3 DEF d
  <2>8. p = Start(t) + d BY DEF d
  <2>9. p \in Nat /\ p % Page = 0
    <3>1. (Start(t) + d) % Page = 0 BY <1>3, <2>4, WholePages
    <3> QED BY <1>3, <2>4, <2>8, <3>1
  <2> HIDE DEF p
  <2>10. \A k \in Cells(Min2(p, Full)) : k \in Nat BY DEF Cells
  <2>11. \A k \in Cells(Min2(p, Full)) : Start(t) <= k /\ k + Page < IntLimit => There(k)'
    BY <2>1, <2>2, <2>10 DEF Grows
  <2>12. CASE p >= Full
    <3>1. Min2(p, Full) = Full /\ Min2(q, Full) = Full BY <1>2, <2>9, <2>12 DEF Min2
    <3>2. IF Full < IntLimit THEN o = Full ELSE o < 0 BY <2>1, <2>2, <3>1
    <3>3. o1 = o BY <1>2, <1>3, <1>4, <2>0, <3>2
    <3> QED BY <2>3, <2>6, <2>7, <2>11, <3>1, <3>2, <3>3
  <2>13. CASE p < Full
    <3>0. p \in Int /\ Full \in Int /\ p % Page = 0 /\ Full % Page = 0 BY <1>2, <2>9
    <3>1. p + Page <= Full BY <2>13, <3>0, WholePages
    <3>2. Min2(p, Full) = p /\ Min2(q, Full) = q BY <1>2, <2>9, <2>13, <3>1 DEF Min2
    <3>3. CASE p >= IntLimit
      <4>1. o < 0 BY <1>2, <2>1, <2>2, <2>9, <3>2, <3>3
      <4>2. o1 = o BY <1>3, <1>4, <2>0, <4>1
      <4>3. ~ (q < IntLimit) BY <1>2, <2>9, <3>3
      <4>4. \A k \in Cells(q) : Start(t) <= k /\ k + Page < IntLimit => There(k)'
        <5>1. \A k \in Cells(q) : k + Page < IntLimit => k \in Cells(p)
          BY <1>2, <2>9, <3>3 DEF Cells
        <5> QED BY <2>11, <3>2, <5>1
      <4> QED BY <2>3, <2>6, <2>7, <3>2, <4>1, <4>2, <4>3, <4>4
    <3>4. CASE p < IntLimit
      <4>1. o = p /\ o >= 0 /\ o + Page <= tsize
        BY <1>2, <2>1, <2>2, <2>9, <3>1, <3>2, <3>4
      <4>2. /\ o1 = AsInt(p + Page)
            /\ \A k \in p..(p + Page - 1) : k + Page < IntLimit => There(k)'
        BY <1>2, <1>3, <1>4, <2>0, <4>1
      <4>3. IF q < IntLimit THEN o1 = q ELSE o1 < 0
        <5>1. /\ p + Page \in Nat
              /\ p + Page < IntLimit => AsInt(p + Page) = p + Page
              /\ p + Page >= IntLimit => AsInt(p + Page) < 0
          BY <2>9, <3>4, NextPlace
        <5>2. IntLimit \in Nat BY <1>2
        <5> QED BY <4>2, <5>1, <5>2
      <4>4. \A k \in Cells(q) : Start(t) <= k /\ k + Page < IntLimit => There(k)'
        <5>1. ASSUME NEW k \in Cells(q) PROVE k \in Cells(p) \/ k \in p..(p + Page - 1)
          <6>1. p \in Nat /\ Page \in Nat BY <1>2, <2>9
          <6>2. k \in 0..((p + Page) - 1) BY DEF Cells
          <6>3. k \in Nat /\ k < p + Page BY <6>1, <6>2
          <6> QED BY <6>1, <6>3 DEF Cells
        <5> QED BY <2>11, <3>2, <4>2, <5>1
      <4> QED BY <2>3, <2>6, <2>7, <3>2, <4>3, <4>4
    <3> QED BY <1>2, <2>9, <3>3, <3>4
  <2> QED BY <1>2, <2>9, <2>12, <2>13
<1>7. /\ Full' = Full /\ Start(t)' = Start(t) /\ Share(t)' = Share(t)
      /\ Start(Last)' = Start(Last) /\ (Copyable(t)' <=> Copyable(t))
  BY <1>1, SameSize
<1>8. Reached(t)' = Min2(q, Full)
  <2>1. Start(t) + (Share(t) - (b - Page)) = q BY <1>2, <1>3 DEF b
  <2> QED BY <1>1, <1>7, <2>1 DEF Reached
<1> HIDE DEF q
<1> QED BY <1>1, <1>4, <1>5, <1>6, <1>7, <1>8 DEF Copying, o1

\* One page is copied.
LEMMA PageHolds ==
  ASSUME IInv, NEW t \in Thread, CopyPage(t)
  PROVE  IInv'
<1>1. /\ tsize' = tsize /\ file' = file /\ main' = main /\ result' = result
      /\ spare' \in Nat /\ pc' = pc /\ pc[t] = "copy" /\ bsize[t] >= Page
      /\ failed \subseteq failed' /\ failed' \subseteq Kind \X Thread
  BY OneRound DEF CopyPage, IInv, TypeOK
<1>2. /\ offset \in [Thread -> (-IntLimit)..(IntLimit - 1)]
      /\ bsize \in [Thread -> (-IntLimit)..(IntLimit - 1)]
      /\ pc \in [Thread -> {"unborn", "absent", "begin", "header", "wait", "old", "new", "copy", "null", "path"}]
      /\ TypeOK /\ Sound(secure)
  BY DEF IInv, TypeOK
<1>3. PICK hi \in 0..IntLimit : hi <= tsize + Page /\ Writes(hi) BY OneRound
<1>4. Grows BY <1>1, <1>2, <1>3, WriteKeeps
<1>5. Copying(t)' BY <1>4, StillCopying
<1>6. Working(t)' BY <1>1, <1>5 DEF Working, Ended
<1>7. /\ offset' \in [Thread -> (-IntLimit)..(IntLimit - 1)]
      /\ \A u \in Thread \ {t} : offset'[u] = offset[u]
  <2>1. PICK to : offset' = [offset EXCEPT ![t] = to]
    <3>1. offset = [offset EXCEPT ![t] = offset[t]] BY <1>2
    <3> QED BY <3>1 DEF CopyPage, ReadFails
  <2>2. offset'[t] \in (-IntLimit)..(IntLimit - 1) BY OneRound
  <2>3. to \in (-IntLimit)..(IntLimit - 1) BY <1>2, <2>1, <2>2
  <2> QED BY <1>2, <2>1, <2>3
<1>8. /\ bsize' \in [Thread -> (-IntLimit)..(IntLimit - 1)]
      /\ \A u \in Thread \ {t} : bsize'[u] = bsize[u]
  <2>1. bsize' = [bsize EXCEPT ![t] = @ - Page] BY DEF CopyPage
  <2>2. bsize[t] \in (-IntLimit)..(IntLimit - 1) BY <1>2
  <2>3. bsize[t] - Page \in (-IntLimit)..(IntLimit - 1)
    <3>1. Page \in Nat /\ IntLimit \in Nat BY RebuildAssumption
    <3> QED BY <1>1, <2>2, <3>1
  <2> QED BY <1>2, <2>1, <2>3
<1> QED BY <1>1, <1>2, <1>3, <1>6, <1>7, <1>8, CopyKeeps

\* What the last thread copies when less than a page is left to it.
LEMMA RestWritten ==
  ASSUME IInv, CopyTail(Last), pc[Last] = "copy", tsize' = tsize
  PROVE  /\ offset' \in [Thread -> (-IntLimit)..(IntLimit - 1)]
         /\ \A u \in Thread \ {Last} : offset'[u] = offset[u]
         /\ failed \subseteq failed' /\ failed' \subseteq Kind \X Thread
         /\ \E hi \in 0..IntLimit :
              /\ hi <= tsize + Page /\ Writes(hi)
              /\ Unharmed(Last)' => \A k \in Cells(tsize) :
                   0 <= offset[Last] /\ offset[Last] <= k /\ k < offset[Last] + Page /\ k + Page < IntLimit
                     => There(k)'
<1> DEFINE o == offset[Last]
           count == Count(o)
<1>1. /\ Last \in Thread /\ failed \subseteq Kind \X Thread
      /\ offset \in [Thread -> (-IntLimit)..(IntLimit - 1)]
      /\ \/ /\ count > 0 /\ offset' = [offset EXCEPT ![Last] = AsInt(o + Page)]
            /\ Pwrite(Last, o, count, AsInt(o + Page))
         \/ count <= 0 /\ offset' = offset /\ secure' = secure /\ failed' = failed
         \/ Note("read", Last) /\ offset' = offset /\ secure' = secure
  BY Threads DEF CopyTail, ReadFails, Fault, IInv, TypeOK
<1>2. /\ o \in Int /\ -IntLimit <= o /\ o < IntLimit /\ o % Page = 0
      /\ DOMAIN secure \subseteq Nat /\ tsize \in Sizes
  BY <1>1, CopyPlace
<1>3. /\ Page \in Nat \ {0} /\ IntLimit \in Nat \ {0} /\ tsize \in Nat
      /\ 0 \in 0..IntLimit /\ 0 <= tsize + Page
  BY <1>2, RebuildAssumption
<1> HIDE DEF o
<1>4. CASE Note("read", Last) /\ offset' = offset /\ secure' = secure
  <2>1. "read" \in Kind BY DEF Kind
  <2>2. failed \subseteq failed' /\ failed' \subseteq Kind \X Thread /\ <<"read", Last>> \in failed'
    BY <1>1, <1>4, <2>1, Noted
  <2>3. ~ Unharmed(Last)' BY <2>2 DEF Unharmed
  <2>4. Writes(0) BY <1>4, NothingWritten
  <2> QED BY <1>1, <1>3, <1>4, <2>2, <2>3, <2>4
<1>5. CASE count <= 0 /\ offset' = offset /\ secure' = secure /\ failed' = failed
  <2>1. ASSUME NEW k \in Cells(tsize), 0 <= o, o <= k PROVE FALSE
    <3>1. k \in Int /\ k < tsize BY <1>3 DEF Cells
    <3>2. ~ (o < 0) /\ ~ (o >= tsize) BY <1>2, <1>3, <2>1, <3>1
    <3>3. count = Min2(Page, tsize - o) BY <3>2 DEF Count
    <3> HIDE DEF count
    <3> QED BY <1>2, <1>3, <1>5, <3>2, <3>3 DEF Min2
  <2>2. Writes(0) BY <1>5, NothingWritten
  <2> QED BY <1>1, <1>3, <1>5, <2>1, <2>2 DEF o
<1>6. CASE /\ count > 0 /\ offset' = [offset EXCEPT ![Last] = AsInt(o + Page)]
           /\ Pwrite(Last, o, count, AsInt(o + Page))
  <2>1. 0 <= o /\ o < tsize
    <3>1. o < 0 => count = -1 BY DEF Count
    <3>2. ~ (o < 0) /\ o >= tsize => count = 0 BY DEF Count
    <3> HIDE DEF count
    <3> QED BY <1>2, <1>3, <1>6, <3>1, <3>2
  <2>2. count \in 1..Page /\ o + count <= tsize /\ (count = Page \/ o + count = tsize)
    <3>1. count = Min2(Page, tsize - o) BY <1>2, <1>3, <2>1 DEF Count
    <3>2. CASE Page <= tsize - o
      <4>1. count = Page BY <3>1, <3>2 DEF Min2
      <4> HIDE DEF count
      <4> QED BY <1>2, <1>3, <2>1, <3>2, <4>1
    <3>3. CASE ~ (Page <= tsize - o)
      <4>1. count = tsize - o BY <3>1, <3>3 DEF Min2
      <4> HIDE DEF count
      <4> QED BY <1>2, <1>3, <2>1, <3>3, <4>1
    <3> QED BY <3>2, <3>3
  <2> HIDE DEF count
  <2>3. o \in Nat /\ count \in Int BY <1>2, <2>1, <2>2
  <2>4. AsInt(o + Page) \in (-IntLimit)..(IntLimit - 1) BY <1>2, <2>3, NextPlace
  <2>5. /\ failed \subseteq failed' /\ failed' \subseteq Kind \X Thread
        /\ \E n \in Int :
             /\ secure' = Stored(o, count, n, AsInt(o + Page))
             /\ n = count \/ (n \in 0..(count - 1) /\ <<"write", Last>> \in failed')
    BY <1>1, <1>6, <2>3, PwriteStores
  <2>6. PICK n \in Int :
          /\ secure' = Stored(o, count, n, AsInt(o + Page))
          /\ n = count \/ (n \in 0..(count - 1) /\ <<"write", Last>> \in failed')
    BY <2>5
  <2>7. n \in 0..count BY <2>2, <2>6
  <2>8. Unharmed(Last)' => n = count BY <2>6 DEF Unharmed
  <2>9. PICK hi \in 0..IntLimit :
          /\ hi <= tsize + Page /\ Writes(hi)
          /\ n = count => \A k \in o..(o + count - 1) : k + Page < IntLimit => There(k)'
    BY <1>2, <1>3, <2>2, <2>3, <2>6, <2>7, StoredRight
  <2>10. ASSUME NEW k \in Cells(tsize), o <= k, k < o + Page
         PROVE  k \in o..(o + count - 1)
    <3>1. k \in Int /\ k < tsize BY <1>3 DEF Cells
    <3>2. count \in Int /\ k < o + count BY <1>2, <1>3, <2>2, <2>10, <3>1
    <3> QED BY <1>2, <2>10, <3>1, <3>2
  <2>11. /\ offset' \in [Thread -> (-IntLimit)..(IntLimit - 1)]
         /\ \A u \in Thread \ {Last} : offset'[u] = offset[u]
    BY <1>1, <1>6, <2>4
  <2> QED BY <2>5, <2>8, <2>9, <2>10, <2>11 DEF o
<1> QED BY <1>1, <1>4, <1>5, <1>6

\* When less than a page is left to a thread, it has stored its share as far as
\* there are complete pages.
LEMMA PagesStored ==
  ASSUME IInv, NEW t \in Thread, pc[t] = "copy", bsize[t] < Page, Share(t) < IntLimit,
         Unharmed(t), NEW k \in Cells(tsize), Owns(t, k), k + Page < IntLimit
  PROVE  /\ k < Full => There(k)
         /\ t < Last /\ k >= Full => BadTail(k)
         /\ t = Last /\ k >= Full => offset[t] = Full
<1> DEFINE b == bsize[t]
           s == Start(t)
<1>1. /\ tsize \in Sizes /\ b \in Int /\ Copying(t) /\ s \in Nat /\ s % Page = 0
      /\ Share(t) \in Int /\ Large
  BY CopyPlace
<1>2. /\ Page \in Nat \ {0} /\ IntLimit \in Nat \ {0} /\ tsize \in Nat
      /\ Full \in Nat /\ Full % Page = 0 /\ Full <= tsize /\ tsize < Full + Page
      /\ t \in Nat /\ t <= Last /\ Last \in Nat /\ Last \in Thread
      /\ tsize % Page = 0 <=> Full = tsize
  BY <1>1, RebuildAssumption, FullPages, Threads
<1>3. k \in Nat /\ k < tsize /\ k < IntLimit /\ s <= k
  BY <1>2 DEF Cells, Owns
<1>4. /\ t < Last => Share(t) = Average /\ Share(t) >= 0 /\ Share(t) % Page = 0
                     /\ Start(t + 1) = s + Average /\ s + Average <= Start(Last)
      /\ t = Last => s + Share(t) = tsize
  BY <1>1, Shares
<1> HIDE DEF s, b
<1>5. s <= Full
  <2> SUFFICES ASSUME Full < s PROVE FALSE BY <1>1, <1>2
  <2>1. Full \in Int /\ s \in Int /\ Full % Page = 0 /\ s % Page = 0 BY <1>1, <1>2
  <2>2. Full + Page <= s BY <2>1, WholePages
  <2> QED BY <1>1, <1>2, <1>3, <2>2
<1>6. Share(t) >= 0
  <2>1. CASE t < Last BY <1>4, <2>1
  <2>2. CASE t = Last BY <1>1, <1>2, <1>3, <1>4, <2>2
  <2> QED BY <1>2, <2>1, <2>2
<1>7. Copyable(t) BY <1>1, <1>2, <1>3, <1>5, <1>6 DEF Copyable, s
<1> DEFINE p == s + (Share(t) - b)
<1>8. /\ b \in 0..Share(t) /\ (Share(t) - b) % Page = 0
      /\ IF Min2(p, Full) < IntLimit THEN offset[t] = Min2(p, Full) ELSE offset[t] < 0
      /\ \A i \in Cells(Min2(p, Full)) : s <= i /\ i + Page < IntLimit => There(i)
  <2>1. Reached(t) = Min2(p, Full) BY DEF Reached, s, b
  <2> HIDE DEF p
  <2> QED BY <1>1, <1>7, <2>1 DEF Copying, b, s
<1>9. b >= 0 /\ b < Page /\ b <= Share(t) BY <1>1, <1>8 DEF b
<1> DEFINE d == Share(t) - b
<1>10. d \in Int /\ d % Page = 0 /\ d >= 0 BY <1>1, <1>8, <1>9
<1> HIDE DEF d
<1>11. p = s + d BY DEF d
<1>12. p \in Int /\ p % Page = 0 /\ s <= p
  <2>1. (s + d) % Page = 0
    <3>1. s \in Int /\ d \in Int /\ s % Page = 0 /\ d % Page = 0 BY <1>1, <1>10
    <3> QED BY <3>1, WholePages
  <2> HIDE DEF p
  <2> QED BY <1>1, <1>10, <1>11, <2>1
<1>13. CASE t = Last
  <2>1. p = tsize - b BY <1>1, <1>4, <1>13
  <2> HIDE DEF p
  <2>2. p = Full
    <3>0. p \in Int /\ Full \in Int /\ p % Page = 0 /\ Full % Page = 0 BY <1>2, <1>12
    <3>1. p < Full => p + Page <= Full BY <3>0, WholePages
    <3>2. Full < p => Full + Page <= p BY <3>0, WholePages
    <3>3. p <= tsize /\ tsize < p + Page BY <1>1, <1>2, <1>9, <2>1
    <3> QED BY <1>2, <1>12, <3>1, <3>2, <3>3
  <2>3. Min2(p, Full) = Full BY <1>2, <2>2 DEF Min2
  <2>4. k < Full => There(k)
    <3>1. k < Full => k \in Cells(Full) BY <1>2, <1>3 DEF Cells
    <3> QED BY <1>3, <1>8, <2>3, <3>1
  <2>5. k >= Full => offset[t] = Full BY <1>2, <1>3, <1>8, <2>3
  <2> QED BY <1>2, <1>13, <2>4, <2>5
<1>14. CASE t < Last
  <2>1. b = 0
    <3>1. b % Page = 0
      <4>1. Share(t) \in Int /\ d \in Int /\ Share(t) % Page = 0 /\ d % Page = 0
        BY <1>1, <1>4, <1>10, <1>14
      <4>2. (Share(t) - d) % Page = 0 BY <4>1, WholePages
      <4>3. b = Share(t) - d BY <1>1 DEF d
      <4> QED BY <4>2, <4>3
    <3>2. 0 \in Int /\ 0 % Page = 0 BY <1>2
    <3>3. 0 < b => 0 + Page <= b BY <1>1, <3>1, <3>2, WholePages
    <3> QED BY <1>1, <1>2, <1>9, <3>3
  <2>2. p = s + Average BY <1>1, <1>4, <1>14, <2>1
  <2>3. k < p BY <1>4, <1>14, <2>2 DEF Owns
  <2> HIDE DEF p
  <2>4. ASSUME k < Full PROVE There(k)
    <3>1. k < Min2(p, Full) BY <2>3, <2>4 DEF Min2
    <3>2. Min2(p, Full) \in Int BY <1>2, <1>12 DEF Min2
    <3>3. k \in Cells(Min2(p, Full)) BY <1>3, <3>1, <3>2 DEF Cells
    <3> QED BY <1>3, <1>8, <3>3
  <2>5. ASSUME k >= Full PROVE BadTail(k)
    <3>1. Full < p BY <1>2, <1>3, <1>12, <2>3, <2>5
    <3>2. Full + Page <= p
      <4>1. p \in Int /\ Full \in Int /\ p % Page = 0 /\ Full % Page = 0 BY <1>2, <1>12
      <4> QED BY <3>1, <4>1, WholePages
    <3>3. Start(Last) \in Nat BY <1>1, <1>2, Shares
    <3>4. ~ (Average * Last <= tsize)
      <4>1. p <= Start(Last) BY <1>4, <1>14, <2>2
      <4>2. tsize < Start(Last) BY <1>2, <1>12, <3>2, <3>3, <4>1
      <4>3. ~ (Start(Last) <= tsize) BY <1>2, <3>3, <4>2
      <4> QED BY <4>3 DEF Start
    <3>5. tsize % Page # 0 BY <1>2, <1>3, <2>5
    <3>6. ~ (tsize <= Page * THREADS_COUNT)
      <4>1. Page * THREADS_COUNT \in Nat BY <1>2, Threads
      <4> QED BY <1>1, <1>2, <4>1 DEF Large
    <3>7. k >= Full - Page BY <1>2, <1>3, <2>5
    <3> QED BY <3>4, <3>5, <3>6, <3>7 DEF BadTail, GoodSize, Full
  <2> QED BY <1>2, <1>14, <2>4, <2>5
<1> QED BY <1>2, <1>13, <1>14

\* A thread has copied its share.
LEMMA RestHolds ==
  ASSUME IInv, NEW t \in Thread, CopyRest(t)
  PROVE  IInv'
<1>1. /\ tsize' = tsize /\ file' = file /\ main' = main /\ result' = result /\ tsize \in Sizes
      /\ spare' = spare + 2 /\ bsize' = bsize /\ pc[t] = "copy" /\ bsize[t] < Page
      /\ t = Last => Goto(t, "copy", "path") /\ CopyTail(t)
      /\ t # Last => Goto(t, "copy", "null") /\ offset' = offset /\ secure' = secure /\ failed' = failed
  BY DEF CopyRest, Goto, IInv, TypeOK
<1>2. /\ offset \in [Thread -> (-IntLimit)..(IntLimit - 1)]
      /\ bsize \in [Thread -> (-IntLimit)..(IntLimit - 1)]
      /\ TypeOK /\ Sound(secure) /\ spare \in Nat /\ failed \subseteq Kind \X Thread
  BY DEF IInv, TypeOK
<1>3. /\ Page \in Nat \ {0} /\ IntLimit \in Nat \ {0} /\ tsize \in Nat
      /\ Full \in Nat /\ tsize < Full + Page
  BY <1>1, RebuildAssumption, FullPages
<1>4. /\ pc' \in [Thread -> {"unborn", "absent", "begin", "header", "wait", "old", "new", "copy", "null", "path"}]
      /\ pc'[t] \in Ended /\ \A u \in Thread \ {t} : pc'[u] = pc[u]
  <2>1. CASE t = Last
    <3>1. pc'[t] = "path" BY <1>1, <2>1, Moved
    <3> QED BY <1>1, <2>1, <3>1, Moved DEF Ended
  <2>2. CASE t # Last
    <3>1. pc'[t] = "null" BY <1>1, <2>2, Moved
    <3> QED BY <1>1, <2>2, <3>1, Moved DEF Ended
  <2> QED BY <2>1, <2>2
<1>5. /\ offset' \in [Thread -> (-IntLimit)..(IntLimit - 1)]
      /\ \A u \in Thread \ {t} : offset'[u] = offset[u]
      /\ failed \subseteq failed' /\ failed' \subseteq Kind \X Thread
      /\ \E hi \in 0..IntLimit :
           /\ hi <= tsize + Page /\ Writes(hi)
           /\ t = Last /\ Unharmed(t)' => \A k \in Cells(tsize) :
                0 <= offset[t] /\ offset[t] <= k /\ k < offset[t] + Page /\ k + Page < IntLimit
                  => There(k)'
  <2>1. CASE t = Last
    <3>1. CopyTail(Last) /\ pc[Last] = "copy" BY <1>1, <2>1
    <3> QED BY <1>1, <2>1, <3>1, RestWritten
  <2>2. CASE t # Last
    <3>1. Writes(0) BY <1>1, <2>2, NothingWritten
    <3>2. 0 \in 0..IntLimit /\ 0 <= tsize + Page BY <1>3
    <3> QED BY <1>1, <1>2, <2>2, <3>1, <3>2
  <2> QED BY <2>1, <2>2
<1>6. PICK hi \in 0..IntLimit :
        /\ hi <= tsize + Page /\ Writes(hi)
        /\ t = Last /\ Unharmed(t)' => \A k \in Cells(tsize) :
             0 <= offset[t] /\ offset[t] <= k /\ k < offset[t] + Page /\ k + Page < IntLimit
               => There(k)'
  BY <1>5
<1>7. Grows BY <1>1, <1>2, <1>6, WriteKeeps
<1>8. ASSUME Unharmed(t)', Share(t) < IntLimit, NEW k \in Cells(tsize), Owns(t, k), k + Page < IntLimit
      PROVE  There(k)' \/ BadTail(k)
  <2>0. Unharmed(t) BY <1>5, <1>8 DEF Unharmed
  <2>1. /\ k < Full => There(k)
        /\ t < Last /\ k >= Full => BadTail(k)
        /\ t = Last /\ k >= Full => offset[t] = Full
    BY <1>1, <1>8, <2>0, PagesStored
  <2>2. k \in Nat /\ k < tsize BY <1>3 DEF Cells
  <2>3. CASE k < Full BY <1>7, <2>1, <2>2, <2>3 DEF Grows
  <2>4. CASE k >= Full /\ t = Last
    <3>1. offset[t] = Full BY <2>1, <2>4
    <3>2. 0 <= offset[t] /\ offset[t] <= k /\ k < offset[t] + Page BY <1>3, <2>2, <2>4, <3>1
    <3> QED BY <1>6, <1>8, <2>4, <3>2
  <2>5. CASE k >= Full /\ t # Last
    <3>1. t < Last BY <2>5, Threads
    <3> QED BY <2>1, <2>5, <3>1
  <2> QED BY <1>3, <2>2, <2>3, <2>4, <2>5
<1>9. Copied(t)'
  <2>1. /\ Share(t)' = Share(t) /\ \A k : Owns(t, k)' <=> Owns(t, k)
        /\ \A k : BadTail(k)' <=> BadTail(k)
    BY <1>1, SameSize
  <2> QED BY <1>1, <1>8, <2>1 DEF Copied
<1>10. Working(t)' BY <1>4, <1>9 DEF Working, Ended
<1>11. pc'[t] \in {"copy", "null", "path"} /\ spare' \in Nat BY <1>1, <1>2, <1>4 DEF Ended
<1> QED BY <1>1, <1>2, <1>4, <1>5, <1>6, <1>10, <1>11, CopyKeeps

-----------------------------------------------------------------------------
(* All steps together.                                                     *)

\* The process is killed.
LEMMA CrashHolds ==
  ASSUME IInv, Crash
  PROVE  IInv'
<1>1. /\ tsize' = tsize /\ tsize \in Sizes /\ file' = file /\ result' = result
      /\ secure' = secure /\ offset' = offset /\ bsize' = bsize
      /\ main # "done" /\ main' = "crashed" /\ pc' = [u \in Thread |-> "absent"]
      /\ Note("crash", 0) /\ spare' = spare
  BY DEF Crash, Fault, IInv, TypeOK
<1>2. \A u \in Thread : pc'[u] = "absent" BY <1>1
<1>3. failed \subseteq failed' /\ failed' \subseteq Kind \X Thread
  <2>1. failed \subseteq Kind \X Thread /\ "crash" \in Kind BY DEF IInv, TypeOK, Kind
  <2> QED BY <1>1, <2>1, Threads, Noted
<1>4. TypeOK'
  <2>1. AsInt(tsize)' = AsInt(tsize) BY <1>1 DEF AsInt
  <2>2. pc' \in [Thread -> {"unborn", "absent", "begin", "header", "wait", "old", "new", "copy", "null", "path"}]
    BY <1>1
  <2> QED BY <1>1, <1>3, <2>1, <2>2 DEF TypeOK, IInv
<1>5. result = 0 BY <1>1 DEF IInv, Stages
<1>6. Stages' BY <1>1, <1>2, <1>5 DEF Stages, Active, Ended
<1>7. (Headed' <=> Headed) /\ Sound(secure)' BY <1>1, SameSecure DEF IInv
<1>8. HeaderFirst'
  <2>1. pc'[0] = "absent" BY <1>2, Threads
  <2> QED BY <1>1, <1>3, <1>7, <2>1, SameSize DEF HeaderFirst, IInv
<1>9. ASSUME NEW u \in Thread PROVE Working(u)' BY <1>2 DEF Working, Ended
<1>10. RebuiltExact' BY <1>1, <1>5, NotYet
<1> QED BY <1>4, <1>6, <1>7, <1>8, <1>9, <1>10 DEF IInv

\* Nothing changes.
LEMMA StutterHolds ==
  ASSUME IInv, UNCHANGED vars
  PROVE  IInv'
<1>1. /\ tsize' = tsize /\ file' = file /\ secure' = secure /\ main' = main /\ result' = result
      /\ pc' = pc /\ offset' = offset /\ bsize' = bsize /\ failed' = failed /\ tsize \in Sizes
      /\ spare' = spare
  BY DEF vars, IInv, TypeOK
<1>2. TypeOK'
  <2>1. AsInt(tsize)' = AsInt(tsize) BY <1>1 DEF AsInt
  <2> QED BY <1>1, <2>1 DEF TypeOK, IInv
<1>3. Stages' BY <1>1, SameSize DEF Stages, IInv
<1>4. (Headed' <=> Headed) /\ Grows /\ Sound(secure)' BY <1>1, SameSecure DEF IInv
<1>5. HeaderFirst' BY <1>1, <1>4, SameSize DEF HeaderFirst, IInv
<1>6. ASSUME NEW u \in Thread PROVE Working(u)'
  <2>1. Working(u) BY DEF IInv
  <2> QED BY <1>1, <1>4, <2>1, OthersWork
<1>7. RebuiltExact'
  <2>1. \A k : (Lost(k)' <=> Lost(k)) /\ (BadTail(k)' <=> BadTail(k))
    <3>1. \A t : Share(t)' = Share(t) /\ Average' = Average BY <1>1, SameSize
    <3>2. \A k : Lost(k)' <=> Lost(k) BY <1>1, <3>1 DEF Lost
    <3> QED BY <1>1, <3>2, SameSize
  <2>2. Rebuilt' = Rebuilt BY <1>1, SameSize
  <2>3. RebuiltExact BY DEF IInv
  <2> QED BY <1>1, <2>1, <2>2, <2>3 DEF RebuiltExact
<1> QED BY <1>2, <1>3, <1>4, <1>5, <1>6, <1>7 DEF IInv

\* IInv is inductive.
LEMMA StepHolds == IInv /\ [Next]_vars => IInv'
<1> SUFFICES ASSUME IInv, [Next]_vars PROVE IInv' OBVIOUS
<1>1. CASE RebuildSmall BY <1>1, SmallHolds
<1>2. CASE StartThreads BY <1>2, StartHolds
<1>3. CASE \E t \in Thread : CreateThread(t) BY <1>3, CreateHolds
<1>4. CASE JoinThreads BY <1>4, JoinHolds
<1>5. CASE CreateSecure BY <1>5, CreateSecureHolds
<1>6. CASE WriteHeader BY <1>6, WriteHeaderHolds
<1>7. ASSUME NEW t \in Thread, Run(t) PROVE IInv'
  <2>1. CASE SkipHeader(t) BY <2>1, SkipHolds
  <2>2. CASE LeaveLoop(t) BY <2>2, LeaveHolds
  <2>3. CASE OpenBoth(t) BY <2>3, OpenHolds
  <2>4. CASE CopyPage(t) BY <2>4, PageHolds
  <2>5. CASE CopyRest(t) BY <2>5, RestHolds
  <2> QED BY <1>7, <2>1, <2>2, <2>3, <2>4, <2>5 DEF Run
<1>8. CASE Crash BY <1>8, CrashHolds
<1>9. CASE UNCHANGED vars BY <1>9, StutterHolds
<1> QED BY <1>1, <1>2, <1>3, <1>4, <1>5, <1>6, <1>7, <1>8, <1>9 DEF Next, Main

\* Type correctness, and that no write goes beyond the size that "<path>.s" was
\* given, whatever the sizes of the file, the page, the block and an int.
THEOREM TypesRight == Spec => []TypeOK
<1>1. IInv => TypeOK BY DEF IInv
<1> QED BY InitHolds, StepHolds, <1>1, PTL DEF Spec

\* The file that takes the place of the plain one is exactly the rebuilt one, but
\* for what is lost with a call that failed, misplaced at the end of a file of a size that is
\* not good, or beyond what an int can count: however many threads there are and
\* however they interleave.
THEOREM RebuildsRight == Spec => []RebuiltExact
<1>1. IInv => RebuiltExact BY DEF IInv
<1> QED BY InitHolds, StepHolds, <1>1, PTL DEF Spec
=============================================================================
