---------------------------- MODULE PolicyProofs ----------------------------
(***************************************************************************)
(* What is subject to encryption: theorems about Policy, which processes,  *)
(* and FileType, which paths.                                              *)
(*                                                                         *)
(* The answer of Policy is put together from four reads and is one that    *)
(* was right at some moment of the call: the property AnswerWasTrue, for   *)
(* any domains, entries, processes and number of calls and changes.  It    *)
(* speaks of the step that answers.  What makes it true is a fact of every *)
(* moment before it: the answer to which the rest of the call would lead   *)
(* if nothing were changed any more (Outcome) has been right already.  A   *)
(* step of the call keeps that answer.  A change may alter it, and to see  *)
(* that the new one is right as well one has to know that until the first  *)
(* change all that was read still holds (ReadHolds).                       *)
(*                                                                         *)
(* The answer of FileType is proved about any table whose names do not end *)
(* in each other, and any path.                                            *)
(*                                                                         *)
(* Which state the text of the entries gives a domain is proved for any    *)
(* domain and any list of entries (PersonalExact).  TextReadable says how  *)
(* the entries stand in the text, FirstHolding in which of them the digits *)
(* are first found, FromDomain and FromState what is read from there.      *)
(***************************************************************************)
EXTENDS Policy, FileType, FiniteSetTheorems, SequenceTheorems,
        WellFoundedInduction, TLAPS

Setting == {"current", "enable", "mdm", "config"}

Shape ==
  /\ pc \in {"idle", "trust", "domain", "personal", "mdm", "config"}
  /\ changed \in Seq(Setting)

\* What the rest of the call finds out if nothing is changed any more.
Managed == mdm = domain /\ ConfigState(config) # 0
Outcome ==
  CASE pc = "trust" -> Truth
    [] pc = "domain" -> DomainState # 0
    [] pc = "personal" -> PersonalState[enable, domain] # 0 \/ Managed
    [] pc = "mdm" -> Managed
    [] OTHER -> ConfigState(config) # 0

\* As long as nothing has been changed, the values read are the present ones.
ReadHolds ==
  (pc # "idle" /\ changed = <<>>) =>
    /\ pc # "trust" => Trusted(current)
    /\ pc \in {"personal", "mdm", "config"} => domain = current
    /\ pc \in {"mdm", "config"} => PersonalState[enable, domain] = 0
    /\ pc = "config" => mdm = domain

\* The property excepts these calls.
Excepted == Len(changed) > 1 \/ (changed = <<"current">> /\ caller.user # 0)

OutcomeRight == (pc # "idle" /\ ~ Excepted) => Outcome \in truths

IInv == Shape /\ ReadHolds /\ OutcomeRight
-----------------------------------------------------------------------------
(* What a change to one setting leaves as it is.                           *)

\* Nothing has been asked yet.
LEMMA InitShape == Init => IInv
  BY DEF Init, IInv, Shape, ReadHolds, OutcomeRight

\* A call begins with the answer that is right now.
LEMMA CallKeeps == IInv /\ Call => IInv'
<1> SUFFICES ASSUME IInv, Call PROVE IInv'
  OBVIOUS
<1>1. pc' = "trust" /\ changed' = <<>> /\ truths' = {Truth}
  BY DEF Call, Goto
<1>2. Truth' = Truth
  BY DEF Call, settings, Truth, DomainState, Trusted
<1>3. Shape'
  BY <1>1 DEF Shape
<1>4. ReadHolds'
  BY <1>1 DEF ReadHolds
<1>5. OutcomeRight'
  BY <1>1, <1>2 DEF OutcomeRight, Outcome
<1> QED
  BY <1>3, <1>4, <1>5 DEF IInv

\* While the call runs the settings and the history stay.
Still == UNCHANGED <<settings, caller, calls, truths, changed>>

\* A step of the call keeps the outcome: what it reads decides between an answer
\* that is the outcome and going on towards it.
LEMMA RunKeeps ==
  ASSUME IInv, Run
  PROVE  /\ IInv'
         /\ pc # "idle" /\ (pc' = "idle" /\ ~ Excepted => answer' \in truths)
<1>1. CASE is_trust_process
  <2>1. Still /\ UNCHANGED domain /\ pc = "trust"
    BY <1>1 DEF is_trust_process, Goto, Answer, Still
  <2>2. \/ Trusted(current) /\ pc' = "domain"
        \/ ~ Trusted(current) /\ pc' = "idle" /\ answer' = FALSE
    BY <1>1 DEF is_trust_process, Goto, Answer
  <2>3. Outcome = Truth
    BY <2>1 DEF Outcome
  <2>4. /\ (Trusted(current))' = Trusted(current)
        /\ DomainState' = DomainState /\ Excepted' = Excepted
    BY <2>1 DEF Still, settings, Trusted, DomainState, Excepted
  <2>5. Shape' /\ ReadHolds'
    BY <2>1, <2>2, <2>4 DEF IInv, Shape, ReadHolds, Still
  <2>6. OutcomeRight'
    BY <2>1, <2>2, <2>3, <2>4 DEF IInv, OutcomeRight, Outcome, Truth, Still
  <2>7. pc' = "idle" /\ ~ Excepted => answer' \in truths
    BY <2>1, <2>2, <2>3 DEF IInv, OutcomeRight, Truth
  <2> QED
    BY <2>1, <2>5, <2>6, <2>7 DEF IInv
<1>2. CASE read_domain
  <2>1. Still /\ pc = "domain"
    BY <1>2 DEF read_domain, Goto, Answer, Still
  <2>2. \/ current # 0 /\ pc' = "personal" /\ domain' = current
        \/ current = 0 /\ pc' = "idle" /\ answer' = FALSE
    BY <1>2 DEF read_domain, Goto, Answer
  <2>3. Outcome = (DomainState # 0)
    BY <2>1 DEF Outcome
  <2>4. /\ Managed' = (mdm = domain' /\ ConfigState(config) # 0)
        /\ (PersonalState[enable, domain])' = PersonalState[enable, domain']
        /\ (Trusted(current))' = Trusted(current) /\ Excepted' = Excepted
    BY <2>1 DEF Still, settings, Managed, Trusted, Excepted
  <2>5. Shape' /\ ReadHolds'
    BY <2>1, <2>2, <2>4 DEF IInv, Shape, ReadHolds, Still, settings
  <2>6. ASSUME pc' = "personal" PROVE Outcome' = (DomainState # 0)
    BY <2>2, <2>4, <2>6 DEF Outcome, DomainState
  <2>7. OutcomeRight'
    BY <2>1, <2>2, <2>3, <2>4, <2>6 DEF IInv, OutcomeRight, Still
  <2>8. pc' = "idle" /\ ~ Excepted => answer' \in truths
    BY <2>1, <2>2, <2>3 DEF IInv, OutcomeRight, DomainState
  <2> QED
    BY <2>1, <2>5, <2>7, <2>8 DEF IInv
<1>3. CASE read_personal
  <2>1. Still /\ UNCHANGED domain /\ pc = "personal"
    BY <1>3 DEF read_personal, Goto, Answer, Still
  <2>2. \/ PersonalState[enable, domain] # 0 /\ pc' = "idle" /\ answer' = TRUE
        \/ PersonalState[enable, domain] = 0 /\ pc' = "mdm"
    BY <1>3 DEF read_personal, Goto, Answer
  <2>3. Outcome = (PersonalState[enable, domain] # 0 \/ Managed)
    BY <2>1 DEF Outcome
  <2>4. Managed' = Managed /\ (Trusted(current))' = Trusted(current) /\ Excepted' = Excepted
    BY <2>1 DEF Still, settings, Managed, Trusted, Excepted
  <2>5. Shape' /\ ReadHolds'
    BY <2>1, <2>2, <2>4 DEF IInv, Shape, ReadHolds, Still, settings
  <2>6. pc' = "mdm" => Outcome' = Managed
    BY <2>4 DEF Outcome
  <2>7. OutcomeRight'
    BY <2>1, <2>2, <2>3, <2>4, <2>6 DEF IInv, OutcomeRight, Still, Managed
  <2>8. pc' = "idle" => answer' = Outcome
    BY <2>2, <2>3
  <2>9. pc' = "idle" /\ ~ Excepted => answer' \in truths
    BY <2>1, <2>8 DEF IInv, OutcomeRight
  <2> QED
    BY <2>1, <2>5, <2>7, <2>9 DEF IInv
<1>4. CASE read_mdm
  <2>1. Still /\ UNCHANGED domain /\ pc = "mdm"
    BY <1>4 DEF read_mdm, Goto, Answer, Still
  <2>2. \/ mdm = domain /\ pc' = "config"
        \/ mdm # domain /\ pc' = "idle" /\ answer' = FALSE
    BY <1>4 DEF read_mdm, Goto, Answer
  <2>3. Outcome = Managed
    BY <2>1 DEF Outcome
  <2>4. (Trusted(current))' = Trusted(current) /\ Excepted' = Excepted
    BY <2>1 DEF Still, settings, Trusted, Excepted
  <2>5. Shape' /\ ReadHolds'
    BY <2>1, <2>2, <2>4 DEF IInv, Shape, ReadHolds, Still, settings
  <2>6. pc' = "config" => Outcome' = (ConfigState(config) # 0)
    BY <2>1 DEF Outcome, Still, settings
  <2>7. OutcomeRight'
    BY <2>1, <2>2, <2>3, <2>4, <2>6 DEF IInv, OutcomeRight, Still, Managed
  <2>8. pc' = "idle" /\ ~ Excepted => answer' \in truths
    BY <2>1, <2>2, <2>3 DEF IInv, OutcomeRight, Managed
  <2> QED
    BY <2>1, <2>5, <2>7, <2>8 DEF IInv
<1>5. CASE read_config
  <2>1. Still /\ pc = "config" /\ pc' = "idle" /\ answer' = (ConfigState(config) # 0)
    BY <1>5 DEF read_config, Goto, Answer, Still
  <2>2. Outcome = (ConfigState(config) # 0)
    BY <2>1 DEF Outcome
  <2>3. Shape' /\ ReadHolds' /\ OutcomeRight'
    BY <2>1 DEF IInv, Shape, ReadHolds, OutcomeRight, Still
  <2> QED
    BY <2>1, <2>2, <2>3 DEF IInv, OutcomeRight
<1> QED
  BY <1>1, <1>2, <1>3, <1>4, <1>5 DEF Run
-----------------------------------------------------------------------------
(* A change.                                                               *)

\* Between calls nothing is remembered that a change could disturb.
LEMMA ChangeBetween ==
  ASSUME IInv, pc = "idle", NEW what, Change(what)
  PROVE  IInv'
<1>1. pc' = "idle" /\ changed' = changed
  BY DEF Change
<1> QED
  BY <1>1 DEF IInv, Shape, ReadHolds, OutcomeRight

\* The second change excepts the call.
LEMMA SecondChange ==
  ASSUME IInv, NEW what \in Setting, Change(what), pc # "idle", changed # <<>>
  PROVE  IInv'
<1>1. pc' = pc /\ changed' = Append(changed, what)
  BY DEF Change
<1>2. changed \in Seq(Setting)
  BY DEF IInv, Shape
<1>3. changed' \in Seq(Setting) /\ Len(changed') > 1
  BY <1>1, <1>2
<1>4. changed' # <<>>
  BY <1>3
<1> QED
  BY <1>1, <1>3, <1>4 DEF IInv, Shape, ReadHolds, OutcomeRight, Excepted

\* For the first change it is enough that the outcome stays or is what is right
\* after it, unless the call is excepted.
LEMMA FirstChange ==
  ASSUME IInv, NEW what \in Setting, Change(what), pc # "idle", changed = <<>>,
         (what = "current" => caller.user = 0) => Outcome' = Outcome \/ Outcome' = Truth'
  PROVE  IInv'
<1>1. pc' = pc /\ changed' = Append(changed, what) /\ truths' = truths \cup {Truth'} /\ caller' = caller
  BY DEF Change
<1>2. changed' = <<what>>
  BY <1>1
<1>3. changed' \in Seq(Setting) /\ changed' # <<>> /\ Len(changed') = 1
  BY <1>2
<1>4. ~ Excepted /\ Outcome \in truths
  BY DEF Excepted, IInv, OutcomeRight
<1>5. Excepted' \/ (what = "current" => caller.user = 0)
  BY <1>1, <1>2 DEF Excepted
<1>6. OutcomeRight'
  BY <1>1, <1>4, <1>5 DEF OutcomeRight
<1>7. Shape' /\ ReadHolds'
  BY <1>1, <1>3 DEF IInv, Shape, ReadHolds
<1> QED
  BY <1>6, <1>7 DEF IInv

\* The current domain changes.  A process of no user that was trusted is trusted
\* under every domain; after get_domain_state has read the domain the outcome is
\* that for the domain read.
LEMMA SetCurrentKeeps == IInv /\ SetCurrent => IInv'
<1> SUFFICES ASSUME IInv, SetCurrent PROVE IInv'
  OBVIOUS
<1>1. /\ Change("current") /\ "current" \in Setting
      /\ enable' = enable /\ mdm' = mdm /\ config' = config
  BY DEF SetCurrent, Setting
<1>2. pc' = pc /\ domain' = domain /\ caller' = caller
  BY <1>1 DEF Change
<1>3. CASE pc # "idle" /\ changed = <<>>
  <2>1. ASSUME caller.user = 0 PROVE Outcome' = Outcome \/ Outcome' = Truth'
    <3>1. CASE pc = "trust"
      BY <1>2, <3>1 DEF Outcome
    <3>2. CASE pc = "domain"
      <4>1. Trusted(current)
        BY <1>3, <3>2 DEF IInv, ReadHolds
      <4>2. caller.media
        BY <4>1, <2>1 DEF Trusted
      <4>3. (Trusted(current))' <=> current' # 0
        BY <1>2, <2>1, <4>2 DEF Trusted
      <4>4. DomainState' # 0 => current' # 0
        BY DEF DomainState
      <4>5. Truth' = (DomainState' # 0)
        BY <4>3, <4>4 DEF Truth
      <4>6. Outcome' = (DomainState' # 0)
        BY <1>2, <3>2 DEF Outcome
      <4> QED
        BY <4>5, <4>6
    <3>3. CASE pc \notin {"trust", "domain"}
      <4>1. Managed' = Managed
        BY <1>1, <1>2 DEF Managed
      <4> QED
        BY <1>1, <1>2, <3>3, <4>1 DEF Outcome
    <3> QED
      BY <3>1, <3>2, <3>3
  <2> QED
    BY <1>1, <1>3, <2>1, FirstChange
<1>4. CASE pc = "idle"
  BY <1>1, <1>4, ChangeBetween
<1>5. CASE pc # "idle" /\ changed # <<>>
  BY <1>1, <1>5, SecondChange
<1> QED
  BY <1>3, <1>4, <1>5

\* Another setting changes while nothing else has: what was read still holds, and
\* the outcome is what is right after it, unless what changes has been read.
LEMMA OtherChange ==
  ASSUME IInv, NEW what \in Setting, Change(what), what # "current",
         current' = current, pc # "idle", changed = <<>>,
         pc \in {"trust", "domain", "personal"} \/ enable' = enable,
         pc # "config" \/ mdm' = mdm
  PROVE  Outcome' = Truth'
<1>1. pc' = pc /\ domain' = domain /\ caller' = caller
  BY DEF Change
<1>2. CASE pc = "trust"
  BY <1>1, <1>2 DEF Outcome
<1>3. CASE pc # "trust"
  <2>1. Trusted(current) /\ (Trusted(current))' = Trusted(current) /\ current # 0
    BY <1>1, <1>3 DEF IInv, ReadHolds, Trusted
  <2>2. Truth' = (DomainState' # 0)
    BY <2>1 DEF Truth
  <2>3. CASE pc = "domain"
    BY <1>1, <2>2, <2>3 DEF Outcome
  <2>4. CASE pc # "domain"
    <3>1. domain = current
      BY <1>3, <2>4 DEF IInv, ReadHolds, Shape
    <3>2. DomainState' = IF PersonalState[enable', domain] # 0 THEN PersonalState[enable', domain]
                         ELSE IF mdm' = domain THEN ConfigState(config') ELSE 0
      BY <2>1, <3>1 DEF DomainState
    <3>3. (DomainState' # 0) = (PersonalState[enable', domain] # 0 \/ Managed')
      BY <1>1, <3>2 DEF Managed
    <3>4. CASE pc = "personal"
      BY <1>1, <2>2, <3>3, <3>4 DEF Outcome
    <3>5. CASE pc \in {"mdm", "config"}
      <4>1. PersonalState[enable', domain] = 0
        BY <3>5 DEF IInv, ReadHolds
      <4>2. CASE pc = "mdm"
        BY <1>1, <2>2, <3>3, <4>1, <4>2 DEF Outcome, Managed
      <4>3. CASE pc = "config"
        <5>1. Managed' = (ConfigState(config') # 0)
          BY <1>1, <4>3 DEF IInv, ReadHolds, Managed
        <5>2. Outcome' = (ConfigState(config') # 0)
          BY <1>1, <4>3 DEF Outcome
        <5> QED
          BY <2>2, <3>3, <4>1, <5>1, <5>2
      <4> QED
        BY <3>5, <4>2, <4>3
    <3> QED
      BY <1>3, <2>4, <3>4, <3>5 DEF IInv, Shape
  <2> QED
    BY <2>3, <2>4
<1> QED
  BY <1>2, <1>3

\* The entries change; they have been read when the managed domain is to be.
LEMMA SetEnableKeeps == IInv /\ SetEnable => IInv'
<1> SUFFICES ASSUME IInv, SetEnable PROVE IInv'
  OBVIOUS
<1>1. /\ Change("enable") /\ "enable" \in Setting
      /\ current' = current /\ mdm' = mdm /\ config' = config
  BY DEF SetEnable, Setting
<1>2. CASE pc # "idle" /\ changed = <<>>
  <2>1. Outcome' = Outcome \/ Outcome' = Truth'
    <3>1. CASE pc \in {"trust", "domain", "personal"}
      BY <1>1, <1>2, <3>1, OtherChange
    <3>2. CASE pc \notin {"trust", "domain", "personal"}
      BY <1>1, <3>2 DEF Change, Outcome, Managed
    <3> QED
      BY <3>1, <3>2
  <2> QED
    BY <1>1, <1>2, <2>1, FirstChange
<1>3. CASE pc = "idle"
  BY <1>1, <1>3, ChangeBetween
<1>4. CASE pc # "idle" /\ changed # <<>>
  BY <1>1, <1>4, SecondChange
<1> QED
  BY <1>2, <1>3, <1>4

\* The managed domain changes; it has been read when the file is to be.
LEMMA SetMdmKeeps == IInv /\ SetMdm => IInv'
<1> SUFFICES ASSUME IInv, SetMdm PROVE IInv'
  OBVIOUS
<1>1. /\ Change("mdm") /\ "mdm" \in Setting
      /\ current' = current /\ enable' = enable /\ config' = config
  BY DEF SetMdm, Setting
<1>2. CASE pc # "idle" /\ changed = <<>>
  <2>1. Outcome' = Outcome \/ Outcome' = Truth'
    <3>1. CASE pc # "config"
      BY <1>1, <1>2, <3>1, OtherChange
    <3>2. CASE pc = "config"
      BY <1>1, <3>2 DEF Change, Outcome
    <3> QED
      BY <3>1, <3>2
  <2> QED
    BY <1>1, <1>2, <2>1, FirstChange
<1>3. CASE pc = "idle"
  BY <1>1, <1>3, ChangeBetween
<1>4. CASE pc # "idle" /\ changed # <<>>
  BY <1>1, <1>4, SecondChange
<1> QED
  BY <1>2, <1>3, <1>4

\* The file changes; it is read last.
LEMMA SetConfigKeeps == IInv /\ SetConfig => IInv'
<1> SUFFICES ASSUME IInv, SetConfig PROVE IInv'
  OBVIOUS
<1>1. /\ Change("config") /\ "config" \in Setting
      /\ current' = current /\ enable' = enable /\ mdm' = mdm
  BY DEF SetConfig, Setting
<1>2. CASE pc # "idle" /\ changed = <<>>
  BY <1>1, <1>2, OtherChange, FirstChange
<1>3. CASE pc = "idle"
  BY <1>1, <1>3, ChangeBetween
<1>4. CASE pc # "idle" /\ changed # <<>>
  BY <1>1, <1>4, SecondChange
<1> QED
  BY <1>2, <1>3, <1>4

-----------------------------------------------------------------------------
(* The property.                                                           *)

\* A step that changes nothing keeps the invariant.
LEMMA StutterKeeps == IInv /\ UNCHANGED vars => IInv'
<1> SUFFICES ASSUME IInv, UNCHANGED vars PROVE IInv'
  OBVIOUS
<1>1. /\ pc' = pc /\ changed' = changed /\ Outcome' = Outcome /\ Excepted' = Excepted
      /\ truths' = truths
      /\ (Trusted(current))' = Trusted(current)
      /\ UNCHANGED <<domain, current, mdm, enable>>
  BY DEF vars, settings, Outcome, Truth, DomainState, Trusted, Managed, Excepted
<1> QED
  BY <1>1 DEF IInv, Shape, ReadHolds, OutcomeRight

\* A call that answers has found something that was right at one moment of it:
\* is_trust_process and get_domain_state put it together from four reads, and if
\* one setting has been changed meanwhile it is the answer before or after that.
THEOREM AnswerRight == Spec => AnswerWasTrue
<1>1. IInv /\ [Next]_vars => IInv'
  BY CallKeeps, RunKeeps, SetCurrentKeeps, SetEnableKeeps, SetMdmKeeps, SetConfigKeeps,
     StutterKeeps DEF Next
<1>2. ASSUME IInv, [Next]_vars, pc # "idle", pc' = "idle"
      PROVE  \/ answer' \in truths
             \/ Len(changed) > 1
             \/ changed = <<"current">> /\ caller.user # 0
  <2>1. CASE Run
    BY <1>2, <2>1, RunKeeps DEF Excepted
  <2>2. ~ Call /\ pc' # pc
    BY <1>2 DEF Call, Goto
  <2>3. ~ (SetCurrent \/ SetEnable \/ SetMdm \/ SetConfig \/ UNCHANGED vars)
    BY <2>2 DEF SetCurrent, SetEnable, SetMdm, SetConfig, Change, vars
  <2> QED
    BY <1>2, <2>1, <2>2, <2>3 DEF Next
<1> QED
  BY InitShape, <1>1, <1>2, PTL DEF Spec, AnswerWasTrue
-----------------------------------------------------------------------------
(* Numbers and sequences.                                                  *)

\* Numbers have a least one among them.
LEMMA LeastOf ==
  ASSUME NEW S \in SUBSET Nat, S # {}
  PROVE  \E m \in S : \A k \in S : m <= k
<1> DEFINE R == {p \in Nat \X Nat : p[1] < p[2]}
<1>1. OpToRel(<, Nat) = R
  BY Zenon DEF OpToRel
<1>2. IsWellFoundedOn(R, Nat)
  BY <1>1, NatLessThanWellFounded
<1>3. PICK m \in S : \A k \in S : ~ (<<k, m>> \in R)
  <2> HIDE DEF R
  <2> QED
    BY <1>2, WFMin
<1>4. ASSUME NEW k \in S PROVE m <= k
  <2>1. m \in Nat /\ k \in Nat /\ ~ (k < m)
    BY <1>3
  <2> QED
    BY <2>1
<1> QED
  BY <1>4

\* Min of a set of naturals is its least member.
LEMMA MinOf ==
  ASSUME NEW S \in SUBSET Nat, S # {}
  PROVE  Min(S) \in S /\ \A k \in S : Min(S) <= k
  BY LeastOf DEF Min

\* IsSuffix, place by place.
LEMMA SuffixIs ==
  ASSUME NEW S, NEW s \in Seq(S), NEW t \in Seq(S)
  PROVE  IsSuffix(s, t) <=>
           /\ Len(s) <= Len(t)
           /\ \A i \in 1..Len(s) : s[i] = t[Len(t) - Len(s) + i]
<1> DEFINE rs == Reverse(s)
           rt == Reverse(t)
<1>1. /\ rs \in Seq(S) /\ Len(rs) = Len(s)
      /\ \A i \in 1..Len(s) : rs[i] = s[Len(s) - i + 1]
  BY DEF Reverse
<1>2. /\ rt \in Seq(S) /\ Len(rt) = Len(t)
      /\ \A i \in 1..Len(t) : rt[i] = t[Len(t) - i + 1]
  BY DEF Reverse
<1>3. IsSuffix(s, t) <=> Len(s) <= Len(t) /\ SubSeq(rs, 1, Len(s)) = SubSeq(rt, 1, Len(s))
  BY <1>1, <1>2 DEF IsSuffix, IsPrefix
<1> HIDE DEF rs, rt
<1>4. CASE Len(s) <= Len(t)
  <2>1. SubSeq(rs, 1, Len(s)) = SubSeq(rt, 1, Len(s)) <=> \A i \in 1..Len(s) : rs[i] = rt[i]
    <3> DEFINE a == SubSeq(rs, 1, Len(s))
               b == SubSeq(rt, 1, Len(s))
    <3>1. a \in Seq(S) /\ Len(a) = Len(s) /\ \A i \in 1..Len(s) : a[i] = rs[i]
      BY <1>1
    <3>2. b \in Seq(S) /\ Len(b) = Len(s) /\ \A i \in 1..Len(s) : b[i] = rt[i]
      BY <1>2, <1>4
    <3>3. a = b <=> \A i \in 1..Len(s) : rs[i] = rt[i]
      <4> HIDE DEF a, b
      <4> QED
        BY <3>1, <3>2, SeqEqual
    <3> QED
      BY <3>3
  <2>2. ASSUME \A i \in 1..Len(s) : rs[i] = rt[i], NEW i \in 1..Len(s)
        PROVE  s[i] = t[Len(t) - Len(s) + i]
    <3> DEFINE j == Len(s) - i + 1
    <3>1. j \in 1..Len(s) /\ j \in 1..Len(t)
      BY <1>4
    <3>2. rs[j] = rt[j]
      BY <2>2, <3>1
    <3>3. rs[j] = s[Len(s) - j + 1] /\ rt[j] = t[Len(t) - j + 1]
      BY <1>1, <1>2, <3>1
    <3>4. Len(s) - j + 1 = i /\ Len(t) - j + 1 = Len(t) - Len(s) + i
      OBVIOUS
    <3> QED
      BY <3>2, <3>3, <3>4
  <2>3. ASSUME \A i \in 1..Len(s) : s[i] = t[Len(t) - Len(s) + i], NEW i \in 1..Len(s)
        PROVE  rs[i] = rt[i]
    <3>1. Len(s) - i + 1 \in 1..Len(s) /\ i \in 1..Len(t)
      BY <1>4
    <3>2. s[Len(s) - i + 1] = t[Len(t) - Len(s) + (Len(s) - i + 1)]
      BY <2>3, <3>1
    <3>3. Len(t) - Len(s) + (Len(s) - i + 1) = Len(t) - i + 1
      OBVIOUS
    <3> QED
      BY <1>1, <1>2, <3>1, <3>2, <3>3
  <2> QED
    BY <1>3, <1>4, <2>1, <2>2, <2>3
<1> QED
  BY <1>3, <1>4
-----------------------------------------------------------------------------
(* The type of a path.                                                     *)

\* Pieces of paths; "s" is one of them when a "<path>.s" is asked about.
AnyPiece == Piece \cup {"s"}
Dot == <<".">>

\* The names in the table are paths that begin with a dot, and have an id.
LEMMA TypesKind ==
  /\ "." \in AnyPiece
  /\ \A i \in DOMAIN types :
       /\ i \in Nat /\ types[i].id \in Nat \ {0}
       /\ types[i].name \in Seq(AnyPiece) /\ Len(types[i].name) >= 1 /\ types[i].name[1] = "."
<1> DEFINE Row == [name : Seq(Piece), id : Nat \ {0}]
<1>1. /\ types \in Seq(Row) /\ "." \in Piece
      /\ \A i \in DOMAIN types : types[i].name # <<>> /\ types[i].name[1] = "."
  BY FileTypeAssumption
<1>2. ASSUME NEW i \in DOMAIN types
      PROVE  /\ i \in Nat /\ types[i].id \in Nat \ {0}
             /\ types[i].name \in Seq(AnyPiece) /\ Len(types[i].name) >= 1
  <2>1. i \in Nat /\ types[i] \in Row
    <3> HIDE DEF Row
    <3> QED
      BY <1>1
  <2>2. types[i].name \in Seq(Piece) /\ types[i].name # <<>>
    BY <1>1, <2>1
  <2>3. types[i].name \in Seq(AnyPiece)
    BY <2>2 DEF AnyPiece
  <2> QED
    BY <2>1, <2>2, <2>3
<1> QED
  BY <1>1, <1>2 DEF AnyPiece

\* Where a name is found, one piece after the other.
LEMMA PlaceIs ==
  ASSUME NEW s \in Seq(AnyPiece), NEW sub \in Seq(AnyPiece), Len(sub) >= 1
  PROVE  /\ Places(s, sub) \in SUBSET Nat
         /\ \A k \in Nat : k \in Places(s, sub) <=>
              /\ 1 <= k /\ k + Len(sub) - 1 <= Len(s)
              /\ \A i \in 1..Len(sub) : s[k + i - 1] = sub[i]
<1>1. Places(s, sub) \in SUBSET Nat
  BY DEF Places
<1>2. ASSUME NEW k \in Nat
      PROVE  k \in Places(s, sub) <=>
              /\ 1 <= k /\ k + Len(sub) - 1 <= Len(s)
              /\ \A i \in 1..Len(sub) : s[k + i - 1] = sub[i]
  <2>1. CASE ~ (1 <= k /\ k + Len(sub) - 1 <= Len(s))
    BY <2>1 DEF Places
  <2>2. CASE 1 <= k /\ k + Len(sub) - 1 <= Len(s)
    <3> DEFINE w == SubSeq(s, k, k + Len(sub) - 1)
    <3>1. /\ w \in Seq(AnyPiece) /\ Len(w) = Len(sub)
          /\ \A i \in 1..Len(sub) : w[i] = s[k + i - 1]
      BY <2>2
    <3>2. w = sub <=> \A i \in 1..Len(sub) : s[k + i - 1] = sub[i]
      <4> HIDE DEF w
      <4> QED
        BY <3>1, SeqEqual
    <3>3. k \in Places(s, sub) <=> w = sub
      BY <2>2 DEF Places
    <3> QED
      BY <2>2, <3>2, <3>3
  <2> QED
    BY <2>1, <2>2
<1> QED
  BY <1>1, <1>2

\* What a path has from its first dot on, or is left of it from place k on.
LEMMA FromIs ==
  ASSUME NEW s \in Seq(AnyPiece), NEW k \in 1..Len(s)
  PROVE  /\ From(s, k) \in Seq(AnyPiece) /\ Len(From(s, k)) = Len(s) - k + 1
         /\ \A i \in 1..(Len(s) - k + 1) : From(s, k)[i] = s[k + i - 1]
  BY DEF From

\* A name fits a path that ends in it and has it nowhere else.
LEMMA FitsIs ==
  ASSUME NEW s \in Seq(AnyPiece), NEW name \in Seq(AnyPiece), Len(name) >= 1
  PROVE  Fits(s, name) <=> IsSuffix(name, s) /\ Cardinality(Places(s, name)) = 1
<1> DEFINE P == Places(s, name)
           last == Len(s) - Len(name) + 1
<1>1. P \in SUBSET Nat /\ \A k \in P : 1 <= k /\ k <= last
  <2>1. \A k \in P : k \in Nat /\ 1 <= k /\ k + Len(name) - 1 <= Len(s)
    BY PlaceIs
  <2>2. ASSUME NEW k \in P PROVE k <= last
    BY <2>1
  <2> QED
    BY <2>1, <2>2
<1>2. IsSuffix(name, s) <=> last \in P
  <2>1. CASE Len(name) <= Len(s)
    <3>1. last \in Nat /\ 1 <= last /\ last + Len(name) - 1 <= Len(s)
      BY <2>1
    <3>2. \A i \in 1..Len(name) : last + i - 1 = Len(s) - Len(name) + i
      OBVIOUS
    <3>3. last \in P <=> \A i \in 1..Len(name) : s[last + i - 1] = name[i]
      <4> HIDE DEF last
      <4> QED
        BY <3>1, PlaceIs
    <3>4. IsSuffix(name, s) <=> \A i \in 1..Len(name) : name[i] = s[Len(s) - Len(name) + i]
      BY <2>1, SuffixIs
    <3> QED
      BY <3>2, <3>3, <3>4
  <2>2. CASE ~ (Len(name) <= Len(s))
    <3>1. ~ (1 <= last)
      BY <2>2
    <3> QED
      BY <1>1, <2>2, <3>1, SuffixIs
  <2> QED
    BY <2>1, <2>2
<1> HIDE DEF P
<1>3. ASSUME Fits(s, name) PROVE IsSuffix(name, s) /\ Cardinality(P) = 1
  <2>1. P # {} /\ From(s, Min(P)) = name
    BY <1>3 DEF Fits, First, P
  <2>2. Min(P) \in P /\ \A k \in P : Min(P) <= k
    BY <1>1, <2>1, MinOf
  <2>3. Min(P) \in 1..Len(s)
    <3>1. Min(P) \in Nat /\ 1 <= Min(P) /\ Min(P) <= last
      BY <1>1, <2>2
    <3> QED
      BY <3>1
  <2>4. Len(s) - Min(P) + 1 = Len(name)
    BY <2>1, <2>3, FromIs
  <2>5. Min(P) = last
    BY <2>3, <2>4
  <2>6. P = {last}
    <3> SUFFICES ASSUME NEW k \in P PROVE k = last
      BY <2>2, <2>5
    <3>1. k \in Nat /\ k <= last /\ last <= k /\ last \in Int
      BY <1>1, <2>2, <2>5
    <3> QED
      BY <3>1
  <2> QED
    BY <1>2, <2>6, FS_Singleton
<1>4. ASSUME IsSuffix(name, s), Cardinality(P) = 1 PROVE Fits(s, name)
  <2>1. last \in P /\ 1 <= last
    BY <1>1, <1>2, <1>4
  <2>2. P \subseteq 1..last
    BY <1>1, <2>1
  <2>3. IsFiniteSet(P)
    <3>1. IsFiniteSet(1..last)
      BY <2>1, FS_Interval
    <3> QED
      BY <2>2, <3>1, FS_Subset
  <2>4. P = {last}
    <3>1. PICK x : P = {x}
      BY <1>4, <2>3, FS_Singleton
    <3> QED
      BY <2>1, <3>1
  <2>5. Min(P) = last
    BY <1>1, <2>4, MinOf
  <2>6. last \in 1..Len(s) /\ Len(s) - last + 1 = Len(name)
    BY <2>1
  <2>7. From(s, last) = name
    <3> HIDE DEF last
    <3>1. /\ From(s, last) \in Seq(AnyPiece) /\ Len(From(s, last)) = Len(name)
          /\ \A i \in 1..Len(name) : From(s, last)[i] = s[last + i - 1]
      BY <2>6, FromIs
    <3>2. last \in Nat /\ \A i \in 1..Len(name) : s[last + i - 1] = name[i]
      BY <2>1, <2>6, PlaceIs DEF P
    <3> QED
      BY <3>1, <3>2, SeqEqual
  <2> QED
    BY <2>1, <2>5, <2>7 DEF Fits, First, P
<1> QED
  BY <1>3, <1>4 DEF P

\* A dot is found where it is.
LEMMA DotPlaces ==
  ASSUME NEW s \in Seq(AnyPiece)
  PROVE  Places(s, Dot) = {k \in 1..Len(s) : s[k] = "."}
<1>1. ASSUME NEW k \in 1..Len(s) PROVE SubSeq(s, k, k + Len(Dot) - 1) = Dot <=> s[k] = "."
  <2>1. k + Len(Dot) - 1 = k
    BY DEF Dot
  <2>2. SubSeq(s, k, k) = <<s[k]>>
    <3> DEFINE w == SubSeq(s, k, k)
    <3>1. w \in Seq(AnyPiece) /\ Len(w) = 1 /\ w[1] = s[k]
      OBVIOUS
    <3> HIDE DEF w
    <3>2. w = <<s[k]>>
      BY <3>1
    <3> QED
      BY <3>2 DEF w
  <2> QED
    BY <2>1, <2>2 DEF Dot
<1>2. 1..(Len(s) - Len(Dot) + 1) = 1..Len(s)
  BY DEF Dot
<1> QED
  BY <1>1, <1>2 DEF Places

\* Whatever fits has a dot.
LEMMA FittingHasDot ==
  ASSUME NEW s \in Seq(AnyPiece), NEW i \in DOMAIN types, IsSuffix(types[i].name, s)
  PROVE  LET last == Len(s) - Len(types[i].name) + 1
         IN  last \in Nat /\ last \in Places(s, Dot)
<1> DEFINE name == types[i].name
           last == Len(s) - Len(name) + 1
<1>1. name \in Seq(AnyPiece) /\ Len(name) >= 1 /\ name[1] = "."
  BY TypesKind
<1>2. Len(name) <= Len(s) /\ \A j \in 1..Len(name) : name[j] = s[Len(s) - Len(name) + j]
  BY <1>1, SuffixIs
<1>3. last \in Nat /\ 1 <= last /\ last <= Len(s) /\ s[last] = "."
  <2>1. 1 \in 1..Len(name) /\ Len(s) \in Nat /\ Len(name) \in Nat
    BY <1>1
  <2>2. name[1] = s[Len(s) - Len(name) + 1]
    BY <1>2, <2>1
  <2> HIDE DEF name
  <2> QED
    BY <1>1, <1>2, <2>1, <2>2
<1>4. last \in Places(s, Dot)
  <2> HIDE DEF last
  <2> QED
    BY <1>3, DotPlaces
<1> QED
  BY <1>3, <1>4

\* Of two names that a path ends in one would end in the other.
LEMMA OneEnding ==
  ASSUME NEW s \in Seq(AnyPiece), NEW i \in DOMAIN types, NEW j \in DOMAIN types,
         IsSuffix(types[i].name, s), IsSuffix(types[j].name, s)
  PROVE  i = j
<1>1. ASSUME NEW a \in DOMAIN types, NEW b \in DOMAIN types,
             IsSuffix(types[a].name, s), IsSuffix(types[b].name, s),
             Len(types[a].name) <= Len(types[b].name)
      PROVE  a = b
  <2> DEFINE na == types[a].name
             nb == types[b].name
  <2>1. na \in Seq(AnyPiece) /\ nb \in Seq(AnyPiece)
    BY TypesKind
  <2>2. /\ \A k \in 1..Len(na) : na[k] = s[Len(s) - Len(na) + k]
        /\ \A k \in 1..Len(nb) : nb[k] = s[Len(s) - Len(nb) + k]
    BY <1>1, <2>1, SuffixIs
  <2>3. ASSUME NEW k \in 1..Len(na) PROVE na[k] = nb[Len(nb) - Len(na) + k]
    <3> DEFINE m == Len(nb) - Len(na) + k
    <3>1. m \in 1..Len(nb) /\ Len(s) - Len(nb) + m = Len(s) - Len(na) + k
      <4>1. Len(na) <= Len(nb) /\ Len(na) \in Nat /\ Len(nb) \in Nat /\ Len(s) \in Nat
        BY <1>1, <2>1
      <4> HIDE DEF na, nb
      <4> QED
        BY <4>1
    <3> QED
      BY <2>2, <3>1
  <2>4. IsSuffix(na, nb)
    <3> HIDE DEF na, nb
    <3>1. Len(na) <= Len(nb)
      BY <1>1 DEF na, nb
    <3> QED
      BY <2>1, <2>3, <3>1, SuffixIs
  <2> QED
    BY <2>4, TableAssumption
<1>2. Len(types[i].name) \in Nat /\ Len(types[j].name) \in Nat
  BY TypesKind
<1>3. CASE Len(types[i].name) <= Len(types[j].name)
  BY <1>1, <1>3
<1>4. CASE Len(types[j].name) <= Len(types[i].name)
  BY <1>1, <1>4
<1> QED
  BY <1>2, <1>3, <1>4

\* A path has the number of the one name that fits, or 0.
LEMMA TypeOfPath ==
  ASSUME NEW s \in Seq(AnyPiece)
  PROVE  /\ \A i \in DOMAIN types : get_tid_by_path(s) = types[i].id <=> Fits(s, types[i].name)
         /\ get_tid_by_path(s) # 0 =>
              \E j \in DOMAIN types : Fits(s, types[j].name) /\ get_tid_by_path(s) = types[j].id
<1> DEFINE fitting == {j \in DOMAIN types : Fits(s, types[j].name)}
<1>1. \A j \in fitting : j \in Nat /\ IsSuffix(types[j].name, s)
  <2> SUFFICES ASSUME NEW j \in fitting PROVE j \in Nat /\ IsSuffix(types[j].name, s)
    OBVIOUS
  <2>1. j \in Nat /\ types[j].name \in Seq(AnyPiece) /\ Len(types[j].name) >= 1
    BY TypesKind
  <2> QED
    BY <2>1, FitsIs
<1>2. fitting # {} => Places(s, Dot) # {}
  BY <1>1, FittingHasDot
<1>3. get_tid_by_path(s) = IF Places(s, Dot) = {} \/ fitting = {} THEN 0 ELSE types[Min(fitting)].id
  BY DEF get_tid_by_path, Lookup, Dot
<1>4. ASSUME NEW j \in fitting PROVE get_tid_by_path(s) = types[j].id
  <2>1. fitting \in SUBSET Nat /\ fitting # {}
    BY <1>1
  <2>2. Min(fitting) \in fitting
    <3> HIDE DEF fitting
    <3> QED
      BY <2>1, MinOf
  <2>3. Min(fitting) = j
    BY <1>1, <2>2, OneEnding
  <2> QED
    BY <1>2, <1>3, <2>1, <2>3
<1>5. \A j \in DOMAIN types : types[j].id # 0
  BY TypesKind
<1>6. ASSUME get_tid_by_path(s) # 0
      PROVE  \E j \in fitting : get_tid_by_path(s) = types[j].id
  <2>1. fitting # {}
    BY <1>3, <1>6
  <2> QED
    BY <1>4, <2>1
<1>7. ASSUME NEW i \in DOMAIN types, get_tid_by_path(s) = types[i].id PROVE i \in fitting
  <2>1. PICK j \in fitting : types[i].id = types[j].id
    BY <1>5, <1>6, <1>7
  <2> QED
    BY <2>1, TableAssumption
<1> QED
  BY <1>4, <1>6, <1>7

\* The types of paths, asked about in any order.
AskSpec == AskInit /\ [][Ask]_asked

\* Every path asked about is a sequence of the pieces names are made of.
AskedPath == asked \in Seq(AnyPiece)

\* AskedPath holds of every path asked about.
LEMMA AskedIsPath == AskSpec => []AskedPath
<1>1. AskInit => AskedPath
  BY DEF AskInit, AskedPath
<1>2. AskedPath /\ [Ask]_asked => AskedPath'
  <2> SUFFICES ASSUME AskedPath, [Ask]_asked PROVE asked' \in Seq(AnyPiece)
    BY DEF AskedPath
  <2> USE DEF AskedPath
  <2>1. ASSUME NEW c \in Piece PROVE Append(asked, c) \in Seq(AnyPiece)
    BY DEF AnyPiece
  <2>2. <<>> \in Seq(AnyPiece)
    OBVIOUS
  <2>3. asked' = asked \/ asked' = <<>> \/ \E c \in Piece : asked' = Append(asked, c)
    BY DEF Ask
  <2> QED
    BY <2>1, <2>2, <2>3
<1> QED
  BY <1>1, <1>2, PTL DEF AskSpec

\* get_tid_by_path gives a path the type of the one name of its table the path
\* ends in, unless that name occurs in it a second time; nor has the "<path>.s" of
\* a rebuild ever a type.
THEOREM TypeIsRight == AskSpec => []TypeIsEnding
<1>1. ASSUME asked \in Seq(AnyPiece) PROVE TypeIsEnding
  <2>1. ASSUME NEW i \in DOMAIN types
        PROVE  get_tid_by_path(asked) = types[i].id <=>
                 i \in Entries(asked) /\ Cardinality(Places(asked, types[i].name)) = 1
    <3>1. types[i].name \in Seq(AnyPiece) /\ Len(types[i].name) >= 1
      BY TypesKind
    <3>2. Fits(asked, types[i].name) <=>
            IsSuffix(types[i].name, asked) /\ Cardinality(Places(asked, types[i].name)) = 1
      BY <1>1, <3>1, FitsIs
    <3>3. get_tid_by_path(asked) = types[i].id <=> Fits(asked, types[i].name)
      BY <1>1, TypeOfPath
    <3> QED
      BY <3>2, <3>3 DEF Entries
  <2>2. get_tid_by_path(asked \o <<".", "s">>) = 0
    <3> DEFINE s == asked \o <<".", "s">>
    <3>1. s \in Seq(AnyPiece) /\ Len(s) >= 2 /\ s[Len(s) - 1] = "." /\ s[Len(s)] = "s"
      BY <1>1, TypesKind DEF AnyPiece
    <3> SUFFICES ASSUME get_tid_by_path(s) # 0 PROVE FALSE
      OBVIOUS
    <3> HIDE DEF s
    <3>2. PICK j \in DOMAIN types : Fits(s, types[j].name)
      BY <3>1, TypeOfPath
    <3> DEFINE name == types[j].name
    <3>3. name \in Seq(AnyPiece) /\ Len(name) >= 1 /\ name[1] = "."
      BY TypesKind
    <3> HIDE DEF name
    <3>4. Len(name) <= Len(s) /\ \A k \in 1..Len(name) : name[k] = s[Len(s) - Len(name) + k]
      BY <3>1, <3>2, <3>3, FitsIs, SuffixIs DEF name
    <3>5. name[Len(name)] = "s"
      BY <3>1, <3>3, <3>4
    <3>6. Len(name) >= 2
      BY <3>3, <3>5
    <3>7. name[Len(name) - 1] = "."
      BY <3>1, <3>3, <3>4, <3>6
    <3>8. IsSuffix(<<".", "s">>, name)
      <4> DEFINE e == <<".", "s">>
      <4>1. e \in Seq(AnyPiece) /\ Len(e) = 2 /\ e[1] = "." /\ e[2] = "s"
        BY TypesKind DEF AnyPiece
      <4>2. \A k \in 1..2 : e[k] = name[Len(name) - 2 + k]
        BY <3>3, <3>5, <3>6, <3>7, <4>1
      <4> HIDE DEF e
      <4>3. IsSuffix(e, name)
        BY <3>3, <3>6, <4>1, <4>2, SuffixIs
      <4> QED
        BY <4>3 DEF e
    <3> QED
      BY <3>8, TableAssumption DEF name
  <2> QED
    BY <2>1, <2>2 DEF TypeIsEnding
<1>2. AskedPath => TypeIsEnding
  BY <1>1 DEF AskedPath
<1> QED
  BY <1>2, AskedIsPath, PTL

\* getfid compares what a path has from its first dot on.
LEMMA FromDot ==
  ASSUME NEW s \in Seq(AnyPiece), Places(s, Dot) # {}
  PROVE  LET d == First(s, Dot)
         IN  /\ d \in 1..Len(s) /\ s[d] = "." /\ \A k \in Places(s, Dot) : d <= k
             /\ From(s, d) \in Seq(AnyPiece) /\ Len(From(s, d)) = Len(s) - d + 1
             /\ \A i \in 1..(Len(s) - d + 1) : From(s, d)[i] = s[d + i - 1]
<1>1. Places(s, Dot) = {k \in 1..Len(s) : s[k] = "."}
  BY DotPlaces
<1>2. Places(s, Dot) \in SUBSET Nat
  BY <1>1
<1>3. First(s, Dot) \in Places(s, Dot) /\ \A k \in Places(s, Dot) : First(s, Dot) <= k
  BY <1>2, MinOf DEF First
<1>4. First(s, Dot) \in 1..Len(s) /\ s[First(s, Dot)] = "."
  BY <1>1, <1>3
<1> QED
  BY <1>3, <1>4, FromIs

\* It finds the number of the name that this is, or 0.
LEMMA FidOfPath ==
  ASSUME NEW s \in Seq(AnyPiece), Places(s, Dot) # {}
  PROVE  LET rest == From(s, First(s, Dot))
         IN  /\ \A i \in DOMAIN types : rest = types[i].name => getfid(s) = types[i].id
             /\ getfid(s) # 0 => \E i \in DOMAIN types : rest = types[i].name
<1> DEFINE rest == From(s, First(s, Dot))
           fitting == {i \in DOMAIN types : FromDotFits(rest, types[i].name)}
<1>1. ASSUME NEW i \in DOMAIN types PROVE FromDotFits(rest, types[i].name) <=> rest = types[i].name
  <2> DEFINE name == types[i].name
  <2>1. name \in Seq(AnyPiece) /\ Len(name) >= 1
    BY TypesKind
  <2>2. 1 \in Places(name, name)
    <3> HIDE DEF name
    <3>1. 1 \in 1..(Len(name) - Len(name) + 1) /\ SubSeq(name, 1, 1 + Len(name) - 1) = name
      BY <2>1
    <3> QED
      BY <3>1 DEF Places
  <2> QED
    BY <2>2 DEF FromDotFits
<1>2. getfid(s) = IF fitting = {} THEN 0 ELSE types[Min(fitting)].id
  BY DEF getfid, Lookup, Dot
<1>3. ASSUME NEW i \in DOMAIN types, rest = types[i].name PROVE getfid(s) = types[i].id
  <2>1. fitting = {i}
    <3>1. ASSUME NEW j \in fitting PROVE j = i
      <4>1. types[j].name = types[i].name
        BY <1>1, <1>3
      <4>2. types[i].name \in Seq(AnyPiece) /\ Len(types[i].name) \in Nat
        BY TypesKind
      <4>3. IsSuffix(types[j].name, types[i].name)
        BY <4>1, <4>2, SuffixIs
      <4> QED
        BY <4>3, TableAssumption
    <3> QED
      BY <1>1, <1>3, <3>1
  <2>2. i \in Nat
    BY TypesKind
  <2>3. Min({i}) = i
    <3>1. {i} \in SUBSET Nat /\ {i} # {}
      BY <2>2
    <3>2. Min({i}) \in {i}
      BY <3>1, MinOf
    <3> QED
      BY <3>2
  <2> QED
    BY <1>2, <2>1, <2>3
<1>4. ASSUME getfid(s) # 0 PROVE \E i \in DOMAIN types : rest = types[i].name
  BY <1>1, <1>2, <1>4
<1> QED
  BY <1>3, <1>4

\* What begins at the first dot begins nowhere else, and fits.
LEMMA FromDotFitsToo ==
  ASSUME NEW s \in Seq(AnyPiece), NEW d \in 1..Len(s), \A k \in Places(s, Dot) : d <= k,
         NEW name \in Seq(AnyPiece), Len(name) >= 1, name[1] = ".", Len(name) = Len(s) - d + 1,
         \A i \in 1..Len(name) : name[i] = s[d + i - 1]
  PROVE  Fits(s, name)
<1>1. IsSuffix(name, s)
  <2>1. Len(name) <= Len(s) /\ \A k \in 1..Len(name) : name[k] = s[Len(s) - Len(name) + k]
    OBVIOUS
  <2> QED
    BY <2>1, SuffixIs
<1>2. Places(s, name) \in SUBSET Nat
  BY PlaceIs
<1>3. ASSUME NEW k \in Places(s, name) PROVE k = d
  <2>1. k \in Nat /\ 1 <= k /\ k + Len(name) - 1 <= Len(s)
    BY <1>2, PlaceIs
  <2>2. s[k + 1 - 1] = name[1]
    <3>1. 1 \in 1..Len(name)
      OBVIOUS
    <3>2. \A i \in 1..Len(name) : s[k + i - 1] = name[i]
      BY <2>1, PlaceIs, Zenon
    <3> QED
      BY <3>1, <3>2, Zenon
  <2>3. k + 1 - 1 = k /\ k \in 1..Len(s)
    BY <2>1
  <2>4. d <= k
    BY <2>2, <2>3, DotPlaces
  <2> QED
    BY <2>1, <2>4
<1>4. d \in Places(s, name)
  <2>1. d \in Nat /\ 1 <= d /\ d + Len(name) - 1 <= Len(s)
    OBVIOUS
  <2> QED
    BY <2>1, PlaceIs
<1>5. Places(s, name) = {d}
  BY <1>3, <1>4
<1> QED
  BY <1>1, <1>5, FS_Singleton, FitsIs

\* getfid of init and get_tid_by_path of ports disagree only about paths with a
\* dot before the name they end in.
THEOREM LookUpsAgree == AskSpec => []TablesAgree
<1>1. ASSUME asked \in Seq(AnyPiece), getfid(asked) # get_tid_by_path(asked)
      PROVE  \E i \in Entries(asked) :
               Len(asked) - Len(types[i].name) >= First(asked, <<".">>)
  <2> DEFINE d == First(asked, Dot)
             rest == From(asked, d)
  <2>1. Places(asked, Dot) # {}
    BY <1>1 DEF getfid, get_tid_by_path, Dot
  <2>2. /\ d \in 1..Len(asked) /\ asked[d] = "." /\ \A k \in Places(asked, Dot) : d <= k
        /\ rest \in Seq(AnyPiece) /\ Len(rest) = Len(asked) - d + 1
        /\ \A i \in 1..(Len(asked) - d + 1) : rest[i] = asked[d + i - 1]
    BY <1>1, <2>1, FromDot
  <2> HIDE DEF d, rest
  <2>3. ASSUME NEW i \in DOMAIN types PROVE rest # types[i].name
    <3> SUFFICES ASSUME rest = types[i].name PROVE FALSE
      OBVIOUS
    <3>1. getfid(asked) = types[i].id
      BY <1>1, <2>1, FidOfPath DEF d, rest
    <3>2. rest[1] = "." /\ Len(rest) >= 1
      BY TypesKind
    <3>7. Fits(asked, rest)
      <4>1. \A k \in 1..Len(rest) : rest[k] = asked[d + k - 1]
        BY <2>2
      <4> QED
        BY <1>1, <2>2, <3>2, <4>1, FromDotFitsToo
    <3>8. get_tid_by_path(asked) = types[i].id
      BY <1>1, <3>7, TypeOfPath
    <3> QED
      BY <1>1, <3>1, <3>8
  <2>4. getfid(asked) = 0
    BY <1>1, <2>1, <2>3, FidOfPath DEF d, rest
  <2>5. ASSUME NEW i \in Entries(asked) PROVE Len(asked) - Len(types[i].name) >= d
    <3> DEFINE name == types[i].name
               last == Len(asked) - Len(name) + 1
    <3>1. i \in DOMAIN types /\ IsSuffix(name, asked)
      BY DEF Entries
    <3>2. name \in Seq(AnyPiece) /\ Len(name) >= 1
      BY <3>1, TypesKind
    <3>3. last \in Nat /\ last \in Places(asked, Dot)
      BY <1>1, <3>1, FittingHasDot
    <3>4. d <= last
      BY <2>2, <3>3
    <3>5. Len(name) <= Len(asked) /\ \A k \in 1..Len(name) : name[k] = asked[Len(asked) - Len(name) + k]
      BY <1>1, <3>1, <3>2, SuffixIs
    <3>6. last # d
      <4> SUFFICES ASSUME last = d PROVE FALSE
        OBVIOUS
      <4>1. Len(rest) = Len(name) /\ Len(asked) - Len(name) = d - 1
        BY <1>1, <2>2, <3>2
      <4>2. ASSUME NEW k \in 1..Len(name) PROVE rest[k] = name[k]
        <5> HIDE DEF name
        <5>1. /\ k \in Nat /\ d \in Nat /\ Len(asked) \in Nat /\ Len(name) \in Nat
          BY <1>1, <2>2, <3>2
        <5>2. k \in 1..(Len(asked) - d + 1) /\ Len(asked) - Len(name) + k = d + k - 1
          <6>1. Len(asked) - Len(name) = d - 1 /\ k \in 1..Len(name)
            BY <4>1, <4>2 DEF name
          <6> QED
            BY <5>1, <6>1
        <5>3. rest[k] = asked[d + k - 1] /\ name[k] = asked[Len(asked) - Len(name) + k]
          BY <2>2, <3>5, <5>2
        <5> QED
          BY <5>2, <5>3
      <4>3. rest = name
        <5> HIDE DEF name
        <5> QED
          BY <2>2, <3>2, <4>1, <4>2, SeqEqual
      <4> QED
        BY <2>3, <3>1, <4>3
    <3>7. Len(asked) \in Nat /\ Len(name) \in Nat /\ d \in Nat
      BY <1>1, <2>2, <3>2
    <3> HIDE DEF name
    <3>8. Len(asked) - Len(name) >= d
      BY <3>4, <3>6, <3>7
    <3> QED
      BY <3>8 DEF name
  <2>6. Entries(asked) # {}
    <3>1. PICK i \in DOMAIN types : Fits(asked, types[i].name)
      BY <1>1, <2>4, TypeOfPath
    <3>2. types[i].name \in Seq(AnyPiece) /\ Len(types[i].name) >= 1
      BY TypesKind
    <3>3. IsSuffix(types[i].name, asked)
      BY <1>1, <3>1, <3>2, FitsIs
    <3> QED
      BY <3>3 DEF Entries
  <2> QED
    BY <2>5, <2>6 DEF d, Dot
<1>2. AskedPath => TablesAgree
  BY <1>1 DEF TablesAgree, AskedPath
<1> QED
  BY <1>2, AskedIsPath, PTL
-----------------------------------------------------------------------------
(* The text of the entries.  What its recursions compute is shown with the *)
(* least number for which they would be wrong (LeastOf).                   *)

Entered == [domain : Nat, state : Nat]
Sign == Digit \cup {Colon, Comma}

\* The digits of each number: what the recursion of Digits is to give.
IsDigits(f, n) ==
  f = [k \in 0..n |-> IF k < 10 THEN <<k>> ELSE Append(f[k \div 10], k % 10)]

\* A number without its last digit, and that digit.
LEMMA LastDigit ==
  ASSUME NEW k \in Nat, k >= 10
  PROVE  k \div 10 \in Nat /\ k \div 10 < k /\ k \div 10 # 0 /\ k % 10 \in Digit /\ k # 0
<1> DEFINE a == k \div 10
           b == k % 10
<1>1. a \in Int /\ b \in Int /\ b >= 0 /\ b <= 9 /\ k = 10 * a + b OBVIOUS
<1> HIDE DEF a, b
<1>2. a \in Nat /\ a < k /\ a # 0 /\ b \in Digit /\ k # 0 BY <1>1 DEF Digit
<1> QED BY <1>2 DEF a, b

LEMMA DigitsUpTo ==
  ASSUME NEW n \in Nat
  PROVE  \E f : IsDigits(f, n)
<1> DEFINE without == {m \in Nat : ~ \E f : IsDigits(f, m)}
<1>1. SUFFICES ASSUME without # {} PROVE FALSE OBVIOUS
<1>2. PICK m \in without : \A k \in without : m <= k BY <1>1, LeastOf
<1>3. m # 0
  <2> DEFINE f == [k \in 0..0 |-> <<k>>]
  <2>1. \A k \in 0..0 : k < 10 OBVIOUS
  <2>2. IsDigits(f, 0) BY <2>1 DEF IsDigits
  <2> QED BY <2>2
<1>4. m \in Nat /\ m - 1 \in Nat /\ ~ (m - 1 \in without) BY <1>2, <1>3
<1>5. PICK f : IsDigits(f, m - 1) BY <1>4
<1> DEFINE next == IF m < 10 THEN <<m>> ELSE Append(f[m \div 10], m % 10)
           g == [k \in 0..m |-> IF k = m THEN next ELSE f[k]]
<1>6. ASSUME NEW k \in 0..m
      PROVE  g[k] = IF k < 10 THEN <<k>> ELSE Append(g[k \div 10], k % 10)
  <2> DEFINE h == k \div 10
  <2>1. k >= 10 => h \in 0..m /\ h # m /\ h < k
    <3>1. k \in Nat /\ k <= m BY <1>4
    <3>2. k >= 10 => h \in Nat /\ h < k BY <3>1, LastDigit
    <3> HIDE DEF h
    <3> QED BY <1>4, <3>1, <3>2
  <2>2. k >= 10 => g[h] = f[h]
    <3> HIDE DEF h, next
    <3> QED BY <2>1
  <2>3. CASE k = m
    <3>1. g[k] = next
      <4> HIDE DEF next
      <4> QED BY <2>3
    <3>2. k < 10 \/ k >= 10 BY <1>4
    <3> HIDE DEF g
    <3> QED BY <2>2, <2>3, <3>1, <3>2
  <2>4. CASE k # m
    <3>1. k \in 0..(m - 1) /\ (k < 10 \/ k >= 10) BY <1>4, <2>4
    <3>2. g[k] = f[k]
      <4> HIDE DEF next
      <4> QED BY <2>4
    <3>3. f[k] = IF k < 10 THEN <<k>> ELSE Append(f[h], k % 10)
      BY <1>5, <3>1, Zenon DEF IsDigits
    <3> HIDE DEF g, h
    <3>4. g[k] = IF k < 10 THEN <<k>> ELSE Append(g[h], k % 10)
      BY <2>2, <3>1, <3>2, <3>3
    <3> QED BY <3>4 DEF h
  <2> QED BY <2>3, <2>4
<1>7. g = [k \in 0..m |-> g[k]] OBVIOUS
<1> HIDE DEF g
<1>8. IsDigits(g, m)
  <2>1. [k \in 0..m |-> g[k]]
          = [k \in 0..m |-> IF k < 10 THEN <<k>> ELSE Append(g[k \div 10], k % 10)]
    BY <1>6, Zenon
  <2> QED BY <1>7, <2>1, Zenon DEF IsDigits
<1> QED BY <1>2, <1>8

\* A number has digits, which are not all 0 unless it is.
IsNumeral(s, k) ==
  s \in Seq(Digit) /\ Len(s) >= 1 /\ ((\E j \in 1..Len(s) : s[j] # 0) <=> k # 0)

LEMMA DigitsAre ==
  ASSUME NEW n \in Nat
  PROVE  /\ Digits(n) \in Seq(Digit) /\ Len(Digits(n)) \in Nat /\ Len(Digits(n)) >= 1
         /\ (\E j \in 1..Len(Digits(n)) : Digits(n)[j] # 0) <=> n # 0
<1> DEFINE f == CHOOSE h : IsDigits(h, n)
           bad == {k \in 0..n : ~ IsNumeral(f[k], k)}
<1>1. IsDigits(f, n) BY DigitsUpTo
<1>2. Digits(n) = f[n] BY Zenon DEF Digits, IsDigits
<1> HIDE DEF f
<1>3. bad = {}
  <2> SUFFICES ASSUME bad # {} PROVE FALSE OBVIOUS
  <2>1. PICK k \in bad : \A i \in bad : k <= i
    <3>1. bad \in SUBSET Nat OBVIOUS
    <3> HIDE DEF bad
    <3> QED BY <3>1, LeastOf
  <2>2. k \in 0..n /\ k \in Nat /\ ~ IsNumeral(f[k], k) BY <2>1
  <2>3. f[k] = IF k < 10 THEN <<k>> ELSE Append(f[k \div 10], k % 10)
    BY <1>1, <2>2, Zenon DEF IsDigits
  <2>4. CASE k < 10
    <3>1. f[k] = <<k>> /\ k \in Digit BY <2>2, <2>3, <2>4 DEF Digit
    <3> QED BY <2>2, <3>1 DEF IsNumeral
  <2>5. CASE k >= 10
    <3> DEFINE h == k \div 10
               d == k % 10
               s == f[h]
    <3>1. h \in Nat /\ h < k /\ h # 0 /\ d \in Digit /\ k # 0 BY <2>2, <2>5, LastDigit
    <3>2. f[k] = Append(s, d)
      <4>1. ~ (k < 10) BY <2>2, <2>5
      <4> QED BY <2>3, <4>1
    <3> HIDE DEF h, d
    <3>3. h \in 0..n /\ ~ (h \in bad) BY <2>1, <2>2, <3>1
    <3>4. IsNumeral(s, h) BY <3>3
    <3> HIDE DEF s
    <3>5. s \in Seq(Digit) /\ Len(s) \in Nat /\ Len(s) >= 1 BY <3>4 DEF IsNumeral
    <3>6. PICK j \in 1..Len(s) : s[j] # 0 BY <3>1, <3>4 DEF IsNumeral
    <3> DEFINE u == Append(s, d)
    <3>7. u \in Seq(Digit) /\ Len(u) = Len(s) + 1 /\ u[j] = s[j] BY <3>1, <3>5
    <3> HIDE DEF u
    <3>8. j \in 1..Len(u) /\ u[j] # 0 /\ Len(u) >= 1 BY <3>5, <3>6, <3>7
    <3>9. IsNumeral(u, k) BY <3>1, <3>7, <3>8 DEF IsNumeral
    <3> QED BY <2>2, <3>2, <3>9 DEF u
  <2> QED BY <2>2, <2>4, <2>5
<1>4. IsNumeral(f[n], n)
  <2>1. n \in 0..n OBVIOUS
  <2> QED BY <1>3, <2>1
<1> QED BY <1>2, <1>4 DEF IsNumeral

Separator(i) == IF i = 1 THEN <<>> ELSE <<Comma>>

\* The text up to each entry: what the recursion of Text is to give.
IsTextUpTo(f, es, n) ==
  f = [i \in 0..n |-> IF i = 0 THEN <<>> ELSE f[i - 1] \o Separator(i) \o Entry(es[i])]

\* The recursion defines something: a text up to one entry less can be continued.
LEMMA TextUpTo ==
  ASSUME NEW es, NEW n \in Nat
  PROVE  \E f : IsTextUpTo(f, es, n)
<1> DEFINE without == {m \in Nat : ~ \E f : IsTextUpTo(f, es, m)}
<1>1. SUFFICES ASSUME without # {} PROVE FALSE OBVIOUS
<1>2. PICK m \in without : \A k \in without : m <= k BY <1>1, LeastOf
<1>3. m # 0
  <2> DEFINE f == [i \in 0..0 |-> <<>>]
  <2>1. IsTextUpTo(f, es, 0) BY DEF IsTextUpTo
  <2> QED BY <2>1
<1>4. m \in Nat /\ m - 1 \in Nat /\ ~ (m - 1 \in without) BY <1>2, <1>3
<1>5. PICK f : IsTextUpTo(f, es, m - 1) BY <1>4
<1> DEFINE next == f[m - 1] \o Separator(m) \o Entry(es[m])
           g == [i \in 0..m |-> IF i = m THEN next ELSE f[i]]
<1>6. ASSUME NEW i \in 0..m
      PROVE  g[i] = IF i = 0 THEN <<>> ELSE g[i - 1] \o Separator(i) \o Entry(es[i])
  <2>1. CASE i = m
    <3>1. g[i] = next /\ i # 0 BY <1>3, <2>1
    <3>2. m - 1 \in 0..m /\ m - 1 # m BY <1>4
    <3> HIDE DEF next
    <3>3. g[m - 1] = f[m - 1] BY <3>2
    <3> QED BY <2>1, <3>1, <3>3 DEF next
  <2>2. CASE i # m
    <3>1. i \in 0..(m - 1) BY <1>4, <2>2
    <3> HIDE DEF next
    <3>2. g[i] = f[i] BY <2>2
    <3>3. f[i] = IF i = 0 THEN <<>> ELSE f[i - 1] \o Separator(i) \o Entry(es[i])
      BY <1>5, <3>1, Zenon DEF IsTextUpTo
    <3>4. i # 0 => i - 1 \in 0..m /\ i - 1 # m BY <1>4
    <3>5. i # 0 => g[i - 1] = f[i - 1] BY <3>4
    <3> HIDE DEF g
    <3> QED BY <3>2, <3>3, <3>5
  <2> QED BY <2>1, <2>2
<1>7. g = [i \in 0..m |-> g[i]] OBVIOUS
<1> HIDE DEF g
<1>8. IsTextUpTo(g, es, m)
  <2>1. [i \in 0..m |-> g[i]]
          = [i \in 0..m |-> IF i = 0 THEN <<>> ELSE g[i - 1] \o Separator(i) \o Entry(es[i])]
    BY <1>6, Zenon
  <2> QED BY <1>7, <2>1, Zenon DEF IsTextUpTo
<1> QED BY <1>2, <1>8

\* The text of the entries is that of the last of the steps.
LEMMA TextIs ==
  ASSUME NEW es, Len(es) \in Nat
  PROVE  \E f : IsTextUpTo(f, es, Len(es)) /\ Text(es) = f[Len(es)]
<1> DEFINE f == CHOOSE h : IsTextUpTo(h, es, Len(es))
<1>1. IsTextUpTo(f, es, Len(es)) BY TextUpTo
<1>2. Text(es) = f[Len(es)] BY Zenon DEF Text, IsTextUpTo, Separator
<1> QED BY <1>1, <1>2

\* Where an entry stands in a text: its domain from place a on, the colon, its state,
\* and the place behind it.
Colons(e, a) == a + Len(Digits(e.domain))
Behind(e, a) == Colons(e, a) + 1 + Len(Digits(e.state))

EntryAt(t, e, a) ==
  /\ Matches(t, a, Digits(e.domain)) /\ t[Colons(e, a)] = Colon
  /\ Matches(t, Colons(e, a) + 1, Digits(e.state))
  /\ Behind(e, a) <= Len(t) + 1
  /\ Behind(e, a) <= Len(t) => t[Behind(e, a)] = Comma

InDomain(e, a, k) == a <= k /\ k < Colons(e, a)
InState(e, a, k) == Colons(e, a) < k /\ k < Behind(e, a)

\* The entries stand one behind the other, and there are no digits besides.
Readable(t, es, n, at) ==
  /\ at \in [1..n -> Nat \ {0}]
  /\ \A i \in 1..n : EntryAt(t, es[i], at[i])
  /\ \A i, k \in 1..n : i < k => Behind(es[i], at[i]) <= at[k]
  /\ \A k \in 1..Len(t) : t[k] \in Digit =>
       \E i \in 1..n : InDomain(es[i], at[i], k) \/ InState(es[i], at[i], k)

LEMMA EntrySize ==
  ASSUME NEW e \in Entered, NEW a \in Nat
  PROVE  /\ Len(Digits(e.domain)) \in Nat /\ Len(Digits(e.domain)) >= 1
         /\ Len(Digits(e.state)) \in Nat /\ Len(Digits(e.state)) >= 1
         /\ Digits(e.domain) \in Seq(Digit) /\ Digits(e.state) \in Seq(Digit)
         /\ Colons(e, a) \in Nat /\ Behind(e, a) \in Nat
         /\ a < Colons(e, a) /\ Colons(e, a) + 1 < Behind(e, a)
<1>1. e.domain \in Nat /\ e.state \in Nat BY DEF Entered
<1>2. /\ Digits(e.domain) \in Seq(Digit) /\ Digits(e.state) \in Seq(Digit)
      /\ Len(Digits(e.domain)) \in Nat /\ Len(Digits(e.domain)) >= 1
      /\ Len(Digits(e.state)) \in Nat /\ Len(Digits(e.state)) >= 1
  BY <1>1, DigitsAre
<1> QED BY <1>2 DEF Colons, Behind

\* An entry, sign by sign.
LEMMA EntryIs ==
  ASSUME NEW e \in Entered
  PROVE  LET y == Entry(e)
         IN  /\ y \in Seq(Sign) /\ Len(y) = Behind(e, 0)
             /\ Matches(y, 1, Digits(e.domain)) /\ y[Colons(e, 0) + 1] = Colon
             /\ Matches(y, Colons(e, 0) + 2, Digits(e.state))
<1> DEFINE p == Digits(e.domain)
           q == Digits(e.state)
           c == <<Colon>>
           v == p \o c
           y == v \o q
<1>1. /\ p \in Seq(Digit) /\ q \in Seq(Digit)
      /\ Len(p) \in Nat /\ Len(q) \in Nat /\ Len(p) >= 1 /\ Len(q) >= 1
  BY EntrySize
<1>2. Entry(e) = y BY DEF Entry
<1>3. Colons(e, 0) = Len(p) /\ Behind(e, 0) = Len(p) + 1 + Len(q)
  BY <1>1 DEF Colons, Behind
<1>4. c \in Seq(Sign) /\ Len(c) = 1 /\ c[1] = Colon BY DEF Sign
<1> HIDE DEF p, q, c
<1>5. p \in Seq(Sign) /\ q \in Seq(Sign)
  <2>1. Seq(Digit) \subseteq Seq(Sign) BY DEF Sign
  <2> QED BY <1>1, <2>1
<1>6. /\ v \in Seq(Sign) /\ Len(v) = Len(p) + Len(c)
      /\ \A k \in 1..(Len(p) + Len(c)) : v[k] = IF k <= Len(p) THEN p[k] ELSE c[k - Len(p)]
  BY <1>4, <1>5, ConcatProperties
<1> HIDE DEF v
<1>7. /\ y \in Seq(Sign) /\ Len(y) = Len(v) + Len(q)
      /\ \A k \in 1..(Len(v) + Len(q)) : y[k] = IF k <= Len(v) THEN v[k] ELSE q[k - Len(v)]
  <2>1. v \in Seq(Sign) /\ q \in Seq(Sign) BY <1>5, <1>6
  <2> QED BY <2>1, ConcatProperties
<1> HIDE DEF y
<1>8. Len(v) = Len(p) + 1 /\ Len(v) \in Nat BY <1>1, <1>4, <1>6
<1>9. ASSUME NEW j \in 1..Len(p) PROVE y[1 + j - 1] = p[j]
  <2>1. 1 + j - 1 = j /\ j \in 1..(Len(v) + Len(q)) /\ j <= Len(v) /\ j \in 1..(Len(p) + Len(c))
        /\ j <= Len(p)
    BY <1>1, <1>4, <1>8
  <2>2. y[j] = v[j] BY <1>7, <2>1
  <2>3. v[j] = p[j] BY <1>6, <2>1
  <2> QED BY <2>1, <2>2, <2>3
<1>10. y[Len(p) + 1] = Colon
  <2> DEFINE k == Len(p) + 1
  <2>1. k \in 1..(Len(v) + Len(q)) /\ k <= Len(v) /\ k \in 1..(Len(p) + Len(c))
        /\ ~ (k <= Len(p)) /\ k - Len(p) = 1
    BY <1>1, <1>4, <1>8
  <2> HIDE DEF k
  <2>2. y[k] = v[k] BY <1>7, <2>1
  <2>3. v[k] = c[k - Len(p)] BY <1>6, <2>1
  <2> QED BY <1>4, <2>1, <2>2, <2>3 DEF k
<1>11. ASSUME NEW j \in 1..Len(q) PROVE y[Len(p) + 2 + j - 1] = q[j]
  <2> DEFINE k == Len(p) + 2 + j - 1
  <2>1. k \in 1..(Len(v) + Len(q)) /\ ~ (k <= Len(v)) /\ k - Len(v) = j BY <1>1, <1>8
  <2> HIDE DEF k
  <2>2. y[k] = q[k - Len(v)] BY <1>7, <2>1
  <2> QED BY <2>1, <2>2 DEF k
<1>12. Len(y) = Len(p) + 1 + Len(q) BY <1>7, <1>8
<1> DEFINE m == Len(p)
<1>13. Matches(y, 1, p) /\ y[m + 1] = Colon /\ Matches(y, m + 2, q)
  BY <1>9, <1>10, <1>11 DEF Matches
<1> HIDE DEF m
<1>14. Colons(e, 0) = m /\ Len(y) = Behind(e, 0) BY <1>3, <1>12 DEF m
<1>15. /\ y \in Seq(Sign) /\ Len(y) = Behind(e, 0)
       /\ Matches(y, 1, p) /\ y[Colons(e, 0) + 1] = Colon /\ Matches(y, Colons(e, 0) + 2, q)
  BY <1>7, <1>13, <1>14
<1> QED BY <1>2, <1>15 DEF p, q

\* A text with one entry more, sign by sign.
LEMMA LongerText ==
  ASSUME NEW t \in Seq(Sign), NEW i \in Nat, i >= 1, NEW e \in Entered
  PROVE  LET u == t \o Separator(i) \o Entry(e)
             s == IF i = 1 THEN 0 ELSE 1
         IN  /\ u \in Seq(Sign) /\ Len(u) = Len(t) + s + Len(Entry(e))
             /\ \A k \in 1..Len(t) : u[k] = t[k]
             /\ i # 1 => u[Len(t) + 1] = Comma
             /\ \A k \in 1..Len(Entry(e)) : u[Len(t) + s + k] = Entry(e)[k]
<1> DEFINE y == Entry(e)
           v == t \o Separator(i)
           u == v \o y
           s == IF i = 1 THEN 0 ELSE 1
<1>1. y \in Seq(Sign) BY EntryIs
<1>2. s \in Nat OBVIOUS
<1>3. /\ v \in Seq(Sign) /\ Len(v) = Len(t) + s
      /\ \A k \in 1..Len(t) : v[k] = t[k]
      /\ i # 1 => v[Len(t) + 1] = Comma
  <2>1. CASE i = 1
    <3>1. v = t
      <4>1. v = t \o <<>> BY <2>1 DEF Separator
      <4>2. t \o <<>> = t BY ConcatEmptySeq
      <4> QED BY <4>1, <4>2
    <3>2. s = 0 /\ Len(t) \in Nat BY <2>1
    <3>3. Len(t) + s = Len(t) BY <3>2
    <3> QED BY <2>1, <3>1, <3>3, Zenon
  <2>2. CASE i # 1
    <3>1. v = Append(t, Comma)
      <4>1. v = t \o <<Comma>> BY <2>2 DEF Separator
      <4> QED BY <4>1
    <3>2. Comma \in Sign BY DEF Sign
    <3>3. v \in Seq(Sign) /\ Len(v) = Len(t) + 1 /\ v[Len(t) + 1] = Comma
          /\ \A k \in 1..Len(t) : v[k] = t[k]
      BY <3>1, <3>2
    <3> QED BY <2>2, <3>3
  <2> QED BY <2>1, <2>2
<1> HIDE DEF y, v
<1>4. /\ u \in Seq(Sign) /\ Len(u) = Len(v) + Len(y)
      /\ \A k \in 1..(Len(v) + Len(y)) : u[k] = IF k <= Len(v) THEN v[k] ELSE y[k - Len(v)]
  BY <1>1, <1>3, ConcatProperties
<1>5. Len(t) \in Nat /\ Len(y) \in Nat /\ Len(v) \in Nat BY <1>1, <1>3
<1> HIDE DEF u
<1>6. \A k \in 1..Len(v) : u[k] = v[k] BY <1>4, <1>5
<1>7. \A k \in 1..Len(t) : u[k] = t[k] BY <1>2, <1>3, <1>5, <1>6
<1>8. i # 1 => u[Len(t) + 1] = Comma BY <1>3, <1>5, <1>6
<1>9. ASSUME NEW k \in 1..Len(y) PROVE u[Len(t) + s + k] = y[k]
  <2> DEFINE z == Len(v) + k
  <2>1. z \in 1..(Len(v) + Len(y)) /\ ~ (z <= Len(v)) /\ z - Len(v) = k BY <1>5
  <2>2. z = Len(t) + s + k BY <1>3
  <2> HIDE DEF z
  <2>3. u[z] = y[z - Len(v)] BY <1>4, <2>1
  <2> QED BY <2>1, <2>2, <2>3, Zenon
<1> QED BY <1>3, <1>4, <1>7, <1>8, <1>9 DEF u, v, y

\* The entries of the text stand in a longer one as they did.
LEMMA EntryKept ==
  ASSUME NEW t \in Seq(Sign), NEW u \in Seq(Sign), NEW e \in Entered, NEW a \in Nat, a >= 1,
         EntryAt(t, e, a), Len(u) > Len(t), \A k \in 1..Len(t) : u[k] = t[k],
         u[Len(t) + 1] = Comma
  PROVE  EntryAt(u, e, a)
<1> DEFINE p == Digits(e.domain)
           q == Digits(e.state)
           c == Colons(e, a)
           b == Behind(e, a)
<1>1. Len(t) \in Nat /\ Len(u) \in Nat OBVIOUS
<1>2. /\ Len(p) \in Nat /\ Len(q) \in Nat /\ c \in Nat /\ b \in Nat
      /\ a < c /\ c + 1 < b
  BY EntrySize
<1>3. c = a + Len(p) /\ b = c + 1 + Len(q) BY DEF Colons, Behind
<1>4. /\ Matches(t, a, p) /\ t[c] = Colon /\ Matches(t, c + 1, q)
      /\ b <= Len(t) + 1 /\ (b <= Len(t) => t[b] = Comma)
  BY DEF EntryAt
<1> HIDE DEF p, q, c, b
<1>5. ASSUME NEW j \in 1..Len(p) PROVE u[a + j - 1] = p[j]
  <2>1. a + j - 1 \in 1..Len(t) BY <1>1, <1>2, <1>3, <1>4
  <2> QED BY <1>4, <2>1 DEF Matches
<1>6. ASSUME NEW j \in 1..Len(q) PROVE u[c + 1 + j - 1] = q[j]
  <2>1. c + 1 + j - 1 \in 1..Len(t) BY <1>1, <1>2, <1>3, <1>4
  <2> QED BY <1>4, <2>1 DEF Matches
<1>7. u[c] = Colon
  <2>1. c \in 1..Len(t) BY <1>1, <1>2, <1>4
  <2> QED BY <1>4, <2>1
<1>8. b <= Len(u) + 1 BY <1>1, <1>2, <1>4
<1>9. u[b] = Comma
  <2>1. b \in 1..Len(t) \/ b = Len(t) + 1 BY <1>1, <1>2, <1>4
  <2>2. b \in 1..Len(t) => b <= Len(t) BY <1>1
  <2> QED BY <1>4, <2>1, <2>2
<1>10. Matches(u, a, p) /\ Matches(u, c + 1, q) BY <1>5, <1>6 DEF Matches
<1> QED BY <1>7, <1>8, <1>9, <1>10 DEF EntryAt, p, q, c, b

\* One entry more can be read as well.
LEMMA ReadableMore ==
  ASSUME NEW t \in Seq(Sign), NEW es, NEW n \in Nat, NEW at, Readable(t, es, n, at),
         \A i \in 1..(n + 1) : es[i] \in Entered, n = 0 => t = <<>>
  PROVE  LET u == t \o Separator(n + 1) \o Entry(es[n + 1])
         IN  \E ats : Readable(u, es, n + 1, ats)
<1> DEFINE e == es[n + 1]
           y == Entry(e)
           u == t \o Separator(n + 1) \o y
           s == IF n + 1 = 1 THEN 0 ELSE 1
           top == Len(t) + s
           ats == [i \in 1..(n + 1) |-> IF i = n + 1 THEN top + 1 ELSE at[i]]
<1>1. e \in Entered /\ (\A i \in 1..n : es[i] \in Entered) /\ n + 1 \in 1..(n + 1) OBVIOUS
<1>2. /\ u \in Seq(Sign) /\ Len(u) = top + Len(y)
      /\ \A k \in 1..Len(t) : u[k] = t[k]
      /\ n # 0 => u[Len(t) + 1] = Comma
      /\ \A k \in 1..Len(y) : u[top + k] = y[k]
  <2>1. n + 1 \in Nat /\ n + 1 >= 1 /\ (n + 1 # 1 <=> n # 0) OBVIOUS
  <2>2. /\ u \in Seq(Sign) /\ Len(u) = Len(t) + s + Len(y)
        /\ \A k \in 1..Len(t) : u[k] = t[k]
        /\ n + 1 # 1 => u[Len(t) + 1] = Comma
        /\ \A k \in 1..Len(y) : u[Len(t) + s + k] = y[k]
    BY <1>1, <2>1, LongerText, Zenon
  <2> QED BY <2>1, <2>2, Zenon
<1>3. Len(t) \in Nat /\ top \in Nat
  <2>1. s \in {0, 1} /\ Len(t) \in Nat OBVIOUS
  <2> HIDE DEF s
  <2> QED BY <2>1
<1>4. n = 0 => Len(t) = 0 /\ top = 0 OBVIOUS
<1>5. n # 0 => top = Len(t) + 1 OBVIOUS
<1>6. /\ y \in Seq(Sign) /\ Len(y) = Behind(e, 0)
      /\ Matches(y, 1, Digits(e.domain)) /\ y[Colons(e, 0) + 1] = Colon
      /\ Matches(y, Colons(e, 0) + 2, Digits(e.state))
  BY <1>1, EntryIs
<1>7. /\ at \in [1..n -> Nat \ {0}] /\ \A i \in 1..n : EntryAt(t, es[i], at[i])
      /\ \A i, k \in 1..n : i < k => Behind(es[i], at[i]) <= at[k]
      /\ \A k \in 1..Len(t) : t[k] \in Digit =>
           \E i \in 1..n : InDomain(es[i], at[i], k) \/ InState(es[i], at[i], k)
  BY DEF Readable
<1> HIDE DEF u, y, e, s, top
<1>8. /\ ats \in [1..(n + 1) -> Nat \ {0}] /\ ats[n + 1] = top + 1
      /\ \A i \in 1..n : ats[i] = at[i]
  BY <1>3, <1>7
<1>9. \A i \in 1..(n + 1) : i = n + 1 \/ i \in 1..n OBVIOUS
<1> HIDE DEF ats
<1> DEFINE p == Digits(e.domain)
           q == Digits(e.state)
           c == Colons(e, top + 1)
           b == Behind(e, top + 1)
<1>10. /\ p \in Seq(Digit) /\ q \in Seq(Digit) /\ Len(p) \in Nat /\ Len(q) \in Nat
       /\ Len(p) >= 1 /\ Len(q) >= 1
  BY <1>1, EntrySize
<1>11. /\ c = top + 1 + Len(p) /\ b = top + 2 + Len(p) + Len(q)
       /\ Colons(e, 0) = Len(p) /\ Len(y) = Len(p) + 1 + Len(q) /\ Len(u) + 1 = b
  BY <1>2, <1>3, <1>6, <1>10 DEF Colons, Behind
<1>12. Matches(y, 1, p) /\ y[Len(p) + 1] = Colon /\ Matches(y, Len(p) + 2, q)
  BY <1>6, <1>11
<1>13. \A i \in 1..n : ats[i] \in Nat /\ ats[i] >= 1 /\ Behind(es[i], ats[i]) <= Len(t) + 1
                       /\ Behind(es[i], ats[i]) \in Nat
  <2> SUFFICES ASSUME NEW i \in 1..n
               PROVE  ats[i] \in Nat /\ ats[i] >= 1 /\ Behind(es[i], ats[i]) <= Len(t) + 1
                      /\ Behind(es[i], ats[i]) \in Nat
    OBVIOUS
  <2>1. ats[i] = at[i] /\ EntryAt(t, es[i], at[i]) BY <1>7, <1>8
  <2>2. at[i] \in Nat \ {0} BY <1>7
  <2>3. Behind(es[i], at[i]) \in Nat BY <1>1, <2>2, EntrySize
  <2> QED BY <2>1, <2>2, <2>3 DEF EntryAt
<1> HIDE DEF p, q, c, b
<1>14. EntryAt(u, e, top + 1)
  <2>1. ASSUME NEW j \in 1..Len(p) PROVE u[top + 1 + j - 1] = p[j]
    <3>1. top + 1 + j - 1 = top + j /\ j \in 1..Len(y) /\ 1 + j - 1 = j BY <1>3, <1>10, <1>11
    <3>2. u[top + j] = y[j] BY <1>2, <3>1
    <3>3. y[1 + j - 1] = p[j] BY <1>12 DEF Matches
    <3> QED BY <3>1, <3>2, <3>3
  <2>2. ASSUME NEW j \in 1..Len(q) PROVE u[c + 1 + j - 1] = q[j]
    <3> DEFINE k == Len(p) + 2 + j - 1
    <3>1. c + 1 + j - 1 = top + k /\ k \in 1..Len(y) BY <1>3, <1>10, <1>11
    <3>2. y[k] = q[j] BY <1>12 DEF Matches
    <3> HIDE DEF k
    <3>3. u[top + k] = y[k] BY <1>2, <3>1
    <3> QED BY <3>1, <3>2, <3>3
  <2>3. u[c] = Colon
    <3> DEFINE k == Len(p) + 1
    <3>1. c = top + k /\ k \in 1..Len(y) BY <1>3, <1>10, <1>11
    <3>2. y[k] = Colon BY <1>12
    <3> HIDE DEF k
    <3>3. u[top + k] = y[k] BY <1>2, <3>1
    <3> QED BY <3>1, <3>2, <3>3
  <2>4. Matches(u, top + 1, p) /\ Matches(u, c + 1, q) BY <2>1, <2>2 DEF Matches
  <2>5. b <= Len(u) + 1 /\ ~ (b <= Len(u))
    <3>1. Len(u) \in Nat BY <1>2
    <3> QED BY <1>11, <3>1
  <2> QED BY <2>3, <2>4, <2>5 DEF EntryAt, p, q, c, b
<1>15. ASSUME NEW i \in 1..(n + 1) PROVE EntryAt(u, es[i], ats[i])
  <2>1. CASE i = n + 1 BY <1>8, <1>14, <2>1 DEF e
  <2>2. CASE i \in 1..n
    <3>1. ats[i] = at[i] /\ at[i] \in Nat /\ at[i] >= 1 BY <1>8, <1>13, <2>2
    <3>2. EntryAt(t, es[i], at[i]) /\ es[i] \in Entered BY <1>1, <1>7, <2>2
    <3>3. n # 0 /\ u[Len(t) + 1] = Comma BY <1>2, <2>2
    <3>4. Len(u) > Len(t) BY <1>2, <1>3, <1>10, <1>11, <1>5, <3>3
    <3>5. EntryAt(u, es[i], at[i]) BY <1>2, <3>1, <3>2, <3>3, <3>4, EntryKept
    <3> QED BY <3>1, <3>5
  <2> QED BY <1>9, <2>1, <2>2
<1>16. ASSUME NEW i \in 1..(n + 1), NEW k \in 1..(n + 1), i < k
       PROVE  Behind(es[i], ats[i]) <= ats[k]
  <2>1. i \in 1..n BY <1>16
  <2>2. CASE k = n + 1
    <3>1. n # 0 BY <2>1
    <3>2. top = Len(t) + 1 /\ ats[k] = top + 1 BY <1>5, <1>8, <2>2, <3>1
    <3>3. Behind(es[i], ats[i]) <= Len(t) + 1 /\ Behind(es[i], ats[i]) \in Nat BY <1>13, <2>1
    <3> HIDE DEF Behind
    <3> QED BY <1>3, <3>2, <3>3
  <2>3. CASE k \in 1..n
    <3>1. ats[i] = at[i] /\ ats[k] = at[k] BY <1>8, <2>1, <2>3
    <3> QED BY <1>7, <1>16, <2>1, <2>3, <3>1
  <2> QED BY <1>9, <2>2, <2>3
<1>17. ASSUME NEW k \in 1..Len(u), u[k] \in Digit
       PROVE  \E i \in 1..(n + 1) : InDomain(es[i], ats[i], k) \/ InState(es[i], ats[i], k)
  <2>1. Comma \notin Digit /\ Colon \notin Digit BY DEF Comma, Colon, Digit
  <2>2. k \in Nat /\ k >= 1 /\ k <= Len(u) /\ Len(u) \in Nat BY <1>2
  <2>3. CASE k <= Len(t)
    <3>1. k \in 1..Len(t) /\ t[k] \in Digit BY <1>2, <1>3, <1>17, <2>2, <2>3
    <3>2. PICK i \in 1..n : InDomain(es[i], at[i], k) \/ InState(es[i], at[i], k)
      BY <1>7, <3>1
    <3>3. i \in 1..(n + 1) /\ ats[i] = at[i] BY <1>8
    <3> QED BY <3>2, <3>3
  <2>4. CASE Len(t) < k /\ k <= top
    <3>1. n # 0 /\ k = Len(t) + 1 BY <1>3, <1>4, <1>5, <2>2, <2>4
    <3> QED BY <1>2, <1>17, <2>1, <3>1
  <2>5. CASE top < k
    <3>1. k # c
      <4>1. u[c] = Colon BY <1>14 DEF EntryAt, c
      <4> QED BY <1>17, <2>1, <4>1
    <3>2. k < b BY <1>11, <2>2
    <3>3. (top + 1 <= k /\ k < c) \/ (c < k /\ k < b)
      <4>1. c \in Nat BY <1>3, <1>10, <1>11
      <4> QED BY <1>3, <2>2, <2>5, <3>1, <3>2, <4>1
    <3>4. InDomain(e, top + 1, k) \/ InState(e, top + 1, k)
      BY <3>3 DEF InDomain, InState, c, b
    <3>5. es[n + 1] = e /\ ats[n + 1] = top + 1 BY <1>8 DEF e
    <3> QED BY <1>1, <3>4, <3>5
  <2> QED BY <1>3, <2>2, <2>3, <2>4, <2>5
<1>18. Readable(u, es, n + 1, ats) BY <1>8, <1>15, <1>16, <1>17, Zenon DEF Readable
<1> QED BY <1>18 DEF u, y, e

\* The text of the entries can be read.
LEMMA TextReadable ==
  ASSUME NEW es \in Seq(Entered)
  PROVE  Text(es) \in Seq(Sign) /\ \E at : Readable(Text(es), es, Len(es), at)
<1>1. Len(es) \in Nat /\ \A i \in 1..Len(es) : es[i] \in Entered OBVIOUS
<1>2. PICK f : IsTextUpTo(f, es, Len(es)) /\ Text(es) = f[Len(es)] BY <1>1, TextIs
<1> DEFINE Good(m) == f[m] \in Seq(Sign) /\ \E at : Readable(f[m], es, m, at)
           bad == {m \in Nat : m <= Len(es) /\ ~ Good(m)}
<1>3. bad = {}
  <2> SUFFICES ASSUME bad # {} PROVE FALSE OBVIOUS
  <2>1. PICK m \in bad : \A k \in bad : m <= k
    <3>1. bad \in SUBSET Nat OBVIOUS
    <3> HIDE DEF bad
    <3> QED BY <3>1, LeastOf
  <2>2. m \in Nat /\ m <= Len(es) /\ ~ Good(m) BY <2>1
  <2> HIDE DEF Good
  <2>3. f[0] = <<>>
    <3>1. 0 \in 0..Len(es) BY <1>1
    <3> QED BY <1>2, <3>1 DEF IsTextUpTo
  <2>4. m # 0
    <3> SUFFICES ASSUME m = 0 PROVE Good(0) BY <2>2
    <3> DEFINE at == [i \in 1..0 |-> 1]
    <3>1. <<>> \in Seq(Sign) /\ Len(<<>>) = 0 OBVIOUS
    <3>2. at \in [1..0 -> Nat \ {0}] OBVIOUS
    <3>3. \A i \in 1..0 : FALSE OBVIOUS
    <3>4. \A k \in 1..Len(<<>>) : FALSE BY <3>1
    <3> HIDE DEF at
    <3>5. Readable(<<>>, es, 0, at) BY <3>2, <3>3, <3>4, Zenon DEF Readable
    <3> QED BY <2>3, <3>1, <3>5, Zenon DEF Good
  <2> DEFINE n == m - 1
  <2>5. n \in Nat /\ n + 1 = m /\ n < m /\ n <= Len(es) BY <1>1, <2>2, <2>4
  <2>6. Good(n)
    <3>1. ~ (n \in bad) BY <2>1, <2>2, <2>5
    <3> HIDE DEF n
    <3> QED BY <2>5, <3>1
  <2>7. f[m] = f[n] \o Separator(m) \o Entry(es[m])
    <3>1. m \in 0..Len(es) BY <1>1, <2>2
    <3> QED BY <1>2, <2>4, <3>1, Zenon DEF IsTextUpTo
  <2>8. \A i \in 1..(n + 1) : es[i] \in Entered BY <1>1, <2>2
  <2> HIDE DEF n
  <2>9. f[n] \in Seq(Sign) /\ \E at : Readable(f[n], es, n, at) BY <2>6 DEF Good
  <2>10. n = 0 => f[n] = <<>> BY <2>3
  <2>11. PICK at : Readable(f[n], es, n, at) BY <2>9
  <2>12. \E ats : Readable(f[m], es, m, ats)
    <3>1. \E ats : Readable(f[n] \o Separator(n + 1) \o Entry(es[n + 1]), es, n + 1, ats)
      BY <2>5, <2>8, <2>9, <2>10, <2>11, ReadableMore
    <3> QED BY <2>5, <2>7, <3>1, Zenon
  <2>13. f[m] \in Seq(Sign)
    <3>1. n + 1 \in Nat /\ n + 1 >= 1 /\ es[n + 1] \in Entered BY <2>5, <2>8
    <3>2. f[n] \o Separator(n + 1) \o Entry(es[n + 1]) \in Seq(Sign)
      BY <2>9, <3>1, LongerText
    <3> QED BY <2>5, <2>7, <3>2, Zenon
  <2> QED BY <2>2, <2>12, <2>13 DEF Good
<1>4. Good(Len(es)) BY <1>1, <1>3
<1> QED BY <1>2, <1>4

\* Where a number ends.
LEMMA NumberEnds ==
  ASSUME NEW t, NEW a \in Nat, NEW b \in Nat, Len(t) \in Nat, a <= b, b <= Len(t),
         \A j \in a..b : t[j] \in Digit, b < Len(t) => t[b + 1] \notin Digit
  PROVE  EndOfNumber(t, a) = b
<1> DEFINE ends == {i \in a..Len(t) : \A j \in a..i : t[j] \in Digit}
<1>1. b \in ends OBVIOUS
<1>2. ASSUME NEW i \in ends PROVE i \in Int /\ b >= i
  <2>1. i \in Int /\ i >= a /\ i <= Len(t) /\ \A j \in a..i : t[j] \in Digit OBVIOUS
  <2>2. ~ (b < Len(t) /\ b + 1 \in a..i) BY <2>1
  <2> QED BY <2>1, <2>2
<1>3. EndOfNumber(t, a) = Max(ends) BY DEF EndOfNumber
<1> HIDE DEF ends
<1>4. Max(ends) \in ends /\ \A i \in ends : Max(ends) >= i BY <1>1, <1>2 DEF Max
<1>5. Max(ends) \in Int /\ b >= Max(ends) /\ Max(ends) >= b BY <1>1, <1>2, <1>4
<1> QED BY <1>3, <1>5

\* The digits of an entry, and its end.
LEMMA NumbersOf ==
  ASSUME NEW t \in Seq(Sign), NEW e \in Entered, NEW a \in Nat, a >= 1, EntryAt(t, e, a)
  PROVE  LET c == Colons(e, a)
             b == Behind(e, a)
         IN  /\ c \in Nat /\ b \in Nat /\ a < c /\ c + 1 < b /\ b <= Len(t) + 1
             /\ Len(t) \in Nat /\ t[c] = Colon
             /\ \A k \in a..(c - 1) : t[k] = Digits(e.domain)[k - a + 1] /\ t[k] \in Digit
             /\ \A k \in (c + 1)..(b - 1) : t[k] = Digits(e.state)[k - c] /\ t[k] \in Digit
             /\ b <= Len(t) => t[b] = Comma
<1> DEFINE p == Digits(e.domain)
           q == Digits(e.state)
           c == Colons(e, a)
           b == Behind(e, a)
<1>1. /\ p \in Seq(Digit) /\ q \in Seq(Digit) /\ Len(p) \in Nat /\ Len(q) \in Nat
      /\ c \in Nat /\ b \in Nat /\ a < c /\ c + 1 < b /\ Len(t) \in Nat
  BY EntrySize
<1>2. c = a + Len(p) /\ b = c + 1 + Len(q) BY DEF Colons, Behind
<1>3. /\ Matches(t, a, p) /\ t[c] = Colon /\ Matches(t, c + 1, q)
      /\ b <= Len(t) + 1 /\ (b <= Len(t) => t[b] = Comma)
  BY DEF EntryAt
<1> HIDE DEF p, q, c, b
<1>4. ASSUME NEW k \in a..(c - 1) PROVE t[k] = p[k - a + 1] /\ t[k] \in Digit
  <2> DEFINE j == k - a + 1
  <2>1. j \in 1..Len(p) /\ a + j - 1 = k BY <1>1, <1>2
  <2> HIDE DEF j
  <2>2. t[k] = p[j] BY <1>3, <2>1 DEF Matches
  <2>3. p[j] \in Digit BY <1>1, <2>1, ElementOfSeq
  <2> QED BY <2>2, <2>3 DEF j
<1>5. ASSUME NEW k \in (c + 1)..(b - 1) PROVE t[k] = q[k - c] /\ t[k] \in Digit
  <2> DEFINE j == k - c
  <2>1. j \in 1..Len(q) /\ c + 1 + j - 1 = k BY <1>1, <1>2
  <2> HIDE DEF j
  <2>2. t[k] = q[j] BY <1>3, <2>1 DEF Matches
  <2>3. q[j] \in Digit BY <1>1, <2>1, ElementOfSeq
  <2> QED BY <2>2, <2>3 DEF j
<1> QED BY <1>1, <1>3, <1>4, <1>5 DEF p, q, c, b

\* A place where digits are found.
LEMMA PlaceFacts ==
  ASSUME NEW u, NEW needle \in Seq(Digit), Len(u) \in Nat, Len(needle) >= 1,
         NEW k \in FoundAt(u, needle)
  PROVE  /\ k \in Nat /\ k >= 1 /\ k + Len(needle) - 1 <= Len(u) /\ k <= Len(u)
         /\ u[k] = needle[1] /\ u[k] \in Digit
         /\ \A j \in 1..Len(needle) : u[k + j - 1] = needle[j]
<1> DEFINE n == Len(needle)
           x == Len(u)
<1>1. k \in 1..(x - n + 1) /\ Matches(u, k, needle) BY DEF FoundAt
<1>2. \A j \in 1..n : u[k + j - 1] = needle[j] BY <1>1, Zenon DEF Matches
<1>3. n \in Nat /\ 1 \in 1..n OBVIOUS
<1>4. needle[1] \in Digit BY <1>3, ElementOfSeq
<1>5. x \in Nat /\ n >= 1 OBVIOUS
<1> HIDE DEF n, x
<1>6. k \in Nat /\ k >= 1 /\ k + n - 1 <= x /\ k <= x /\ k + 1 - 1 = k BY <1>1, <1>3, <1>5
<1>7. u[k] = needle[1] BY <1>2, <1>3, <1>6
<1> QED BY <1>2, <1>4, <1>6, <1>7 DEF n, x

\* And where they are found.
LEMMA PlaceHere ==
  ASSUME NEW u, NEW needle, NEW k, k \in 1..(Len(u) - Len(needle) + 1),
         \A j \in 1..Len(needle) : u[k + j - 1] = needle[j]
  PROVE  k \in FoundAt(u, needle)
<1>1. Matches(u, k, needle) BY Zenon DEF Matches
<1> QED BY <1>1, Zenon DEF FoundAt

\* A number w stands in the text from place l to r, with no digit behind it: digits
\* that are found at a place of it are found in it.
LEMMA MatchWithin ==
  ASSUME NEW t \in Seq(Sign), NEW w \in Seq(Digit), NEW needle \in Seq(Digit), Len(needle) >= 1,
         NEW l \in Nat, NEW r \in Nat, Len(w) = r - l + 1, l >= 1, r <= Len(t),
         \A k \in l..r : t[k] = w[k - l + 1], r < Len(t) => t[r + 1] \notin Digit,
         NEW k \in FoundAt(t, needle), l <= k, k <= r
  PROVE  FoundAt(w, needle) # {}
<1> DEFINE n == Len(needle)
           m == Len(t)
<1>1. /\ n \in Nat /\ m \in Nat /\ k \in Nat /\ k >= 1 /\ k + n - 1 <= m
      /\ \A j \in 1..n : t[k + j - 1] = needle[j]
  <2>1. n \in Nat /\ m \in Nat OBVIOUS
  <2> QED BY <2>1, PlaceFacts
<1>2. \A j \in 1..n : needle[j] \in Digit BY ElementOfSeq
<1> HIDE DEF n, m
<1>3. k + n - 1 <= r
  <2> SUFFICES ASSUME ~ (k + n - 1 <= r) PROVE FALSE OBVIOUS
  <2> DEFINE j == r + 1 - k + 1
  <2>1. j \in 1..n /\ k + j - 1 = r + 1 /\ r < m BY <1>1
  <2> HIDE DEF j
  <2>2. t[r + 1] = needle[j] BY <1>1, <2>1
  <2>3. t[r + 1] \notin Digit BY <2>1 DEF m
  <2> QED BY <1>2, <2>1, <2>2, <2>3
<1> DEFINE h == k - l + 1
<1>4. h \in 1..(Len(w) - n + 1)
  <2> DEFINE x == Len(w)
  <2>1. x = r - l + 1 OBVIOUS
  <2> HIDE DEF x
  <2> QED BY <1>1, <1>3, <2>1 DEF x
<1>5. ASSUME NEW j \in 1..n PROVE w[h + j - 1] = needle[j]
  <2>1. k + j - 1 \in l..r /\ (k + j - 1) - l + 1 = h + j - 1 BY <1>1, <1>3
  <2>2. t[k + j - 1] = w[(k + j - 1) - l + 1] BY <2>1
  <2>3. t[k + j - 1] = needle[j] BY <1>1
  <2> QED BY <2>1, <2>2, <2>3
<1> HIDE DEF h
<1>6. h \in FoundAt(w, needle) BY <1>4, <1>5, PlaceHere DEF n
<1> QED BY <1>6

\* Digits that are found in the number are found in the text, at a place of it.
LEMMA WithinMatch ==
  ASSUME NEW t \in Seq(Sign), NEW w \in Seq(Digit), NEW needle \in Seq(Digit), Len(needle) >= 1,
         NEW l \in Nat, NEW r \in Nat, Len(w) = r - l + 1, l >= 1, r <= Len(t),
         \A k \in l..r : t[k] = w[k - l + 1], FoundAt(w, needle) # {}
  PROVE  \E k \in FoundAt(t, needle) : l <= k /\ k <= r
<1> DEFINE n == Len(needle)
           x == Len(w)
<1>1. PICK h : h \in FoundAt(w, needle) OBVIOUS
<1>2. h \in Nat /\ h >= 1 /\ h + n - 1 <= x /\ n \in Nat /\ n >= 1 /\ x \in Nat /\ x = r - l + 1
      /\ (\A j \in 1..n : w[h + j - 1] = needle[j])
  <2>1. n \in Nat /\ n >= 1 /\ x \in Nat /\ x = r - l + 1 OBVIOUS
  <2> QED BY <1>1, <2>1, PlaceFacts
<1> DEFINE k == l + h - 1
<1>3. Len(t) \in Nat OBVIOUS
<1> HIDE DEF n, x
<1>4. k \in 1..(Len(t) - n + 1) /\ l <= k /\ k <= r BY <1>2, <1>3
<1>5. ASSUME NEW j \in 1..n PROVE t[k + j - 1] = needle[j]
  <2> DEFINE z == k + j - 1
  <2>1. z \in l..r /\ z - l + 1 = h + j - 1 BY <1>2
  <2> HIDE DEF z
  <2>2. t[z] = w[z - l + 1] BY <2>1
  <2>3. w[h + j - 1] = needle[j] BY <1>2
  <2> QED BY <2>1, <2>2, <2>3 DEF z
<1> HIDE DEF k
<1>6. k \in FoundAt(t, needle) BY <1>4, <1>5, PlaceHere DEF n
<1> QED BY <1>4, <1>6

\* Both for the two numbers of an entry.
LEMMA EntryPlaces ==
  ASSUME NEW t \in Seq(Sign), NEW e \in Entered, NEW a \in Nat, a >= 1, EntryAt(t, e, a),
         NEW d \in Nat
  PROVE  LET needle == Digits(d)
         IN  /\ Within(d, e.domain) <=> \E k \in FoundAt(t, needle) : InDomain(e, a, k)
             /\ Within(d, e.state) <=> \E k \in FoundAt(t, needle) : InState(e, a, k)
<1> DEFINE c == Colons(e, a)
           b == Behind(e, a)
           p == Digits(e.domain)
           q == Digits(e.state)
           needle == Digits(d)
<1>1. /\ c \in Nat /\ b \in Nat /\ a < c /\ c + 1 < b /\ b <= Len(t) + 1
      /\ Len(t) \in Nat /\ t[c] = Colon
      /\ \A k \in a..(c - 1) : t[k] = p[k - a + 1] /\ t[k] \in Digit
      /\ \A k \in (c + 1)..(b - 1) : t[k] = q[k - c] /\ t[k] \in Digit
      /\ b <= Len(t) => t[b] = Comma
  BY NumbersOf, Zenon
<1>2. p \in Seq(Digit) /\ q \in Seq(Digit) /\ Len(p) \in Nat /\ Len(q) \in Nat BY EntrySize
<1>3. c = a + Len(p) /\ b = c + 1 + Len(q) BY DEF Colons, Behind
<1>4. needle \in Seq(Digit) /\ Len(needle) >= 1 BY DigitsAre
<1>5. Comma \notin Digit /\ Colon \notin Digit BY DEF Comma, Colon, Digit
<1>6. (Within(d, e.domain) <=> FoundAt(p, needle) # {}) /\ (Within(d, e.state) <=> FoundAt(q, needle) # {})
  BY Zenon DEF Within
<1>7. \A k \in FoundAt(t, needle) : k \in Int BY DEF FoundAt
<1> HIDE DEF c, b, p, q, needle
<1>8. FoundAt(p, needle) # {} <=> \E k \in FoundAt(t, needle) : InDomain(e, a, k)
  <2> DEFINE r == c - 1
  <2>1. r \in Nat /\ Len(p) = r - a + 1 /\ r <= Len(t) BY <1>1, <1>2, <1>3
  <2>2. \A k \in a..r : t[k] = p[k - a + 1] BY <1>1
  <2>3. r < Len(t) => t[r + 1] \notin Digit
    <3>1. r + 1 = c BY <1>1
    <3> QED BY <1>1, <1>5, <3>1
  <2>4. ASSUME NEW k \in FoundAt(t, needle) PROVE InDomain(e, a, k) <=> a <= k /\ k <= r
    BY <1>1, <1>7, <2>4 DEF InDomain, c
  <2> HIDE DEF r
  <2>5. ASSUME NEW k \in FoundAt(t, needle), a <= k, k <= r PROVE FoundAt(p, needle) # {}
    BY <1>2, <1>4, <2>1, <2>2, <2>3, <2>5, MatchWithin
  <2>6. FoundAt(p, needle) # {} => \E k \in FoundAt(t, needle) : a <= k /\ k <= r
    BY <1>2, <1>4, <2>1, <2>2, WithinMatch
  <2> QED BY <2>4, <2>5, <2>6
<1>9. FoundAt(q, needle) # {} <=> \E k \in FoundAt(t, needle) : InState(e, a, k)
  <2> DEFINE l == c + 1
             r == b - 1
  <2>1. l \in Nat /\ l >= 1 /\ r \in Nat /\ Len(q) = r - l + 1 /\ r <= Len(t) BY <1>1, <1>2, <1>3
  <2>2. \A k \in l..r : t[k] = q[k - l + 1]
    <3> SUFFICES ASSUME NEW k \in l..r PROVE t[k] = q[k - l + 1] OBVIOUS
    <3>1. k - l + 1 = k - c /\ k \in (c + 1)..(b - 1) BY <1>1
    <3> HIDE DEF l, r
    <3> QED BY <1>1, <3>1
  <2>3. r < Len(t) => t[r + 1] \notin Digit
    <3>1. r + 1 = b /\ (r < Len(t) => b <= Len(t)) BY <1>1
    <3> QED BY <1>1, <1>5, <3>1
  <2>4. ASSUME NEW k \in FoundAt(t, needle) PROVE InState(e, a, k) <=> l <= k /\ k <= r
    BY <1>1, <1>7, <2>4 DEF InState, c, b
  <2> HIDE DEF l, r
  <2>5. ASSUME NEW k \in FoundAt(t, needle), l <= k, k <= r PROVE FoundAt(q, needle) # {}
    BY <1>2, <1>4, <2>1, <2>2, <2>3, <2>5, MatchWithin
  <2>6. FoundAt(q, needle) # {} => \E k \in FoundAt(t, needle) : l <= k /\ k <= r
    BY <1>2, <1>4, <2>1, <2>2, WithinMatch
  <2> QED BY <2>4, <2>5, <2>6
<1> QED BY <1>6, <1>8, <1>9 DEF needle


\* What the scan reads from a place in the domain of an entry: its state.
LEMMA FromDomain ==
  ASSUME NEW t \in Seq(Sign), NEW e \in Entered, NEW a \in Nat, a >= 1, EntryAt(t, e, a),
         NEW k \in Nat, InDomain(e, a, k)
  PROVE  LET to == EndOfNumber(t, k)
         IN  /\ to # Len(t) /\ t[to + 1] = Colon
             /\ (\E j \in (to + 2)..EndOfNumber(t, to + 2) : t[j] # 0) <=> e.state # 0
<1> DEFINE c == Colons(e, a)
           b == Behind(e, a)
           q == Digits(e.state)
           to == c - 1
           first == c + 1
           last == b - 1
<1>1. /\ c \in Nat /\ b \in Nat /\ a < c /\ c + 1 < b /\ b <= Len(t) + 1
      /\ Len(t) \in Nat /\ t[c] = Colon
      /\ \A j \in a..(c - 1) : t[j] \in Digit
      /\ \A j \in (c + 1)..(b - 1) : t[j] = q[j - c] /\ t[j] \in Digit
      /\ b <= Len(t) => t[b] = Comma
  BY NumbersOf, Zenon
<1>2. Len(q) \in Nat /\ b = c + 1 + Len(q) BY EntrySize DEF Behind
<1>3. (\E j \in 1..Len(q) : q[j] # 0) <=> e.state # 0 BY DigitsAre DEF Entered
<1>4. a <= k /\ k < c BY DEF InDomain
<1>5. Comma \notin Digit /\ Colon \notin Digit BY DEF Comma, Colon, Digit
<1> HIDE DEF c, b, q
<1>6. EndOfNumber(t, k) = to
  <2>1. /\ to \in Nat /\ k <= to /\ to <= Len(t) /\ to + 1 = c /\ to = c - 1
    BY <1>1, <1>4
  <2>2. \A j \in k..to : t[j] \in Digit BY <1>1, <1>4
  <2> HIDE DEF to
  <2>3. to < Len(t) => t[to + 1] \notin Digit BY <1>1, <1>5, <2>1
  <2> QED BY <1>1, <2>1, <2>2, <2>3, NumberEnds
<1>7. to # Len(t) /\ to + 1 = c /\ to + 2 = first BY <1>1
<1>8. EndOfNumber(t, first) = last
  <2>1. /\ first \in Nat /\ last \in Nat /\ first <= last /\ last <= Len(t) /\ last + 1 = b
    BY <1>1
  <2>2. \A j \in first..last : t[j] \in Digit BY <1>1
  <2>3. last < Len(t) => b <= Len(t) BY <1>1
  <2> HIDE DEF first, last
  <2>4. last < Len(t) => t[last + 1] \notin Digit BY <1>1, <1>5, <2>1, <2>3
  <2> QED BY <1>1, <2>1, <2>2, <2>4, NumberEnds
<1>9. ASSUME NEW j \in first..last, t[j] # 0 PROVE \E i \in 1..Len(q) : q[i] # 0
  <2> DEFINE i == j - c
  <2>1. c \in Nat /\ b = c + 1 + Len(q) /\ Len(q) \in Nat /\ j \in (c + 1)..(b - 1) BY <1>1, <1>2
  <2>2. i \in 1..Len(q)
    <3> HIDE DEF first, last
    <3> QED BY <2>1
  <2>3. t[j] = q[i] BY <1>1
  <2> HIDE DEF i
  <2> QED BY <1>9, <2>2, <2>3
<1>10. ASSUME NEW i \in 1..Len(q), q[i] # 0 PROVE \E j \in first..last : t[j] # 0
  <2> DEFINE j == c + i
  <2>1. j \in (c + 1)..(b - 1) /\ j - c = i /\ j \in first..last BY <1>1, <1>2
  <2> HIDE DEF j
  <2>2. t[j] = q[j - c] BY <1>1, <2>1
  <2> QED BY <1>10, <2>1, <2>2
<1>11. (\E j \in first..last : t[j] # 0) <=> e.state # 0 BY <1>3, <1>9, <1>10
<1> HIDE DEF first, last, to
<1> QED BY <1>1, <1>6, <1>7, <1>8, <1>11

\* And from a place in the state of one: nothing, no colon follows.
LEMMA FromState ==
  ASSUME NEW t \in Seq(Sign), NEW e \in Entered, NEW a \in Nat, a >= 1, EntryAt(t, e, a),
         NEW k \in Nat, InState(e, a, k)
  PROVE  LET to == EndOfNumber(t, k)
         IN  to = Len(t) \/ t[to + 1] # Colon
<1> DEFINE c == Colons(e, a)
           b == Behind(e, a)
           to == b - 1
<1>1. /\ c \in Nat /\ b \in Nat /\ a < c /\ c + 1 < b /\ b <= Len(t) + 1
      /\ Len(t) \in Nat
      /\ \A j \in (c + 1)..(b - 1) : t[j] \in Digit
      /\ b <= Len(t) => t[b] = Comma
  BY NumbersOf, Zenon
<1>2. c < k /\ k < b BY DEF InState
<1>3. Comma \notin Digit /\ Comma # Colon BY DEF Comma, Colon, Digit
<1> HIDE DEF c, b
<1>4. to \in Nat /\ k <= to /\ to <= Len(t) /\ to + 1 = b /\ (to < Len(t) => b <= Len(t)) BY <1>1, <1>2
<1>5. \A j \in k..to : t[j] \in Digit BY <1>1, <1>2
<1> HIDE DEF to
<1>6. to < Len(t) => t[to + 1] = Comma BY <1>1, <1>4
<1>7. EndOfNumber(t, k) = to BY <1>1, <1>3, <1>4, <1>5, <1>6, NumberEnds
<1>8. to = Len(t) \/ to < Len(t) BY <1>1, <1>4
<1> QED BY <1>3, <1>6, <1>7, <1>8

\* The entries in whose numbers the digits of the domain are.
Holding(es, d) == {i \in DOMAIN es : Within(d, es[i].domain) \/ Within(d, es[i].state)}

\* The digits are first found in the first of them; in its domain if they are there.
LEMMA FirstHolding ==
  ASSUME NEW es \in Seq(Entered), NEW d \in Nat, NEW at, Readable(Text(es), es, Len(es), at),
         Text(es) \in Seq(Sign)
  PROVE  LET text  == Text(es)
             found == FoundAt(text, Digits(d))
             m     == Min(Holding(es, d))
         IN  /\ found # {} <=> Holding(es, d) # {}
             /\ found # {} =>
                  /\ Min(found) \in found /\ m \in 1..Len(es)
                  /\ IF Within(d, es[m].domain) THEN InDomain(es[m], at[m], Min(found))
                     ELSE InState(es[m], at[m], Min(found))
<1> DEFINE t == Text(es)
           needle == Digits(d)
           found == FoundAt(t, needle)
           n == Len(es)
           H == Holding(es, d)
           m == Min(H)
           k == Min(found)
<1>1. needle \in Seq(Digit) /\ Len(needle) >= 1 BY DigitsAre
<1>2. t \in Seq(Sign) /\ Len(t) \in Nat /\ n \in Nat OBVIOUS
<1>3. /\ at \in [1..n -> Nat \ {0}]
      /\ \A i \in 1..n : EntryAt(t, es[i], at[i])
      /\ \A i, j \in 1..n : i < j => Behind(es[i], at[i]) <= at[j]
      /\ \A j \in 1..Len(t) : t[j] \in Digit =>
           \E i \in 1..n : InDomain(es[i], at[i], j) \/ InState(es[i], at[i], j)
  BY Zenon DEF Readable
<1>4. H = {i \in 1..n : Within(d, es[i].domain) \/ Within(d, es[i].state)} BY DEF Holding
<1> HIDE DEF t, needle, found, n
<1>5. ASSUME NEW i \in 1..n
      PROVE  /\ es[i] \in Entered /\ at[i] \in Nat /\ at[i] >= 1
             /\ Colons(es[i], at[i]) \in Nat /\ Behind(es[i], at[i]) \in Nat
             /\ at[i] < Colons(es[i], at[i]) /\ Colons(es[i], at[i]) + 1 < Behind(es[i], at[i])
             /\ Within(d, es[i].domain) <=> \E j \in found : InDomain(es[i], at[i], j)
             /\ Within(d, es[i].state) <=> \E j \in found : InState(es[i], at[i], j)
  <2>1. es[i] \in Entered BY DEF n
  <2>2. at[i] \in Nat /\ at[i] >= 1
    <3>1. at[i] \in Nat \ {0} BY <1>3
    <3> QED BY <3>1
  <2>3. EntryAt(t, es[i], at[i]) BY <1>3
  <2>4. /\ Within(d, es[i].domain) <=> \E j \in found : InDomain(es[i], at[i], j)
        /\ Within(d, es[i].state) <=> \E j \in found : InState(es[i], at[i], j)
    BY <1>2, <2>1, <2>2, <2>3, EntryPlaces, Zenon DEF found, needle
  <2> QED BY <2>1, <2>2, <2>4, EntrySize
<1>6. ASSUME NEW j \in found
      PROVE  /\ j \in Nat
             /\ \E i \in H : InDomain(es[i], at[i], j) \/ InState(es[i], at[i], j)
  <2>1. j \in Nat /\ j >= 1 /\ j <= Len(t) /\ t[j] \in Digit
    BY <1>1, <1>2, PlaceFacts DEF found
  <2>2. PICK i \in 1..n : InDomain(es[i], at[i], j) \/ InState(es[i], at[i], j)
    <3>1. j \in 1..Len(t) BY <1>2, <2>1
    <3> QED BY <1>3, <2>1, <3>1
  <2>3. i \in H
    <3>1. Within(d, es[i].domain) \/ Within(d, es[i].state) BY <1>5, <2>2
    <3> QED BY <1>4, <3>1
  <2> QED BY <2>1, <2>2, <2>3
<1>7. found # {} <=> H # {}
  <2>1. ASSUME NEW i \in H PROVE found # {}
    <3>1. i \in 1..n /\ (Within(d, es[i].domain) \/ Within(d, es[i].state)) BY <1>4
    <3> QED BY <1>5, <3>1
  <2> HIDE DEF H
  <2> QED BY <1>6, <2>1
<1>8. ASSUME found # {}
      PROVE  /\ k \in found /\ m \in 1..n
             /\ IF Within(d, es[m].domain) THEN InDomain(es[m], at[m], k)
                ELSE InState(es[m], at[m], k)
  <2>1. k \in found /\ \A j \in found : k <= j
    <3>1. found \in SUBSET Nat BY <1>6
    <3> QED BY <1>8, <3>1, MinOf
  <2>2. m \in H /\ \A i \in H : m <= i
    <3>1. H \in SUBSET Nat /\ H # {} BY <1>2, <1>4, <1>7, <1>8
    <3> HIDE DEF H
    <3> QED BY <3>1, MinOf
  <2>3. m \in 1..n /\ (Within(d, es[m].domain) \/ Within(d, es[m].state)) BY <1>4, <2>2
  <2> HIDE DEF k, m, H
  <2>4. PICK i \in H : InDomain(es[i], at[i], k) \/ InState(es[i], at[i], k) BY <1>6, <2>1
  <2>5. i \in 1..n /\ m <= i /\ m \in Nat /\ i \in Nat /\ k \in Nat BY <1>2, <1>4, <1>6, <2>1, <2>2, <2>3, <2>4
  <2> DEFINE ai == at[i]
             am == at[m]
             cm == Colons(es[m], am)
             ci == Colons(es[i], ai)
             bm == Behind(es[m], am)
             bi == Behind(es[i], ai)
  <2>6. /\ ai \in Nat /\ am \in Nat /\ ci \in Nat /\ cm \in Nat /\ bi \in Nat /\ bm \in Nat
        /\ ai < ci /\ ci + 1 < bi /\ am < cm /\ cm + 1 < bm
    BY <1>5, <2>3, <2>5
  <2>7. m < i => bm <= ai BY <1>3, <2>3, <2>5
  <2>8. ai <= k
    <3>1. ai <= k \/ ci < k BY <2>4 DEF InDomain, InState
    <3> HIDE DEF ai, ci
    <3> QED BY <2>5, <2>6, <3>1
  <2>9. PICK j \in found : InDomain(es[m], at[m], j) \/ InState(es[m], at[m], j) BY <1>5, <2>3
  <2>10. j \in Nat /\ k <= j /\ j < bm
    <3>1. j \in Nat /\ k <= j BY <1>6, <2>1
    <3>2. j < cm \/ j < bm BY <2>9 DEF InDomain, InState
    <3> HIDE DEF cm, bm
    <3> QED BY <2>6, <3>1, <3>2
  <2>11. i = m
    <3> HIDE DEF ai, am, ci, cm, bi, bm
    <3> QED BY <2>5, <2>6, <2>7, <2>8, <2>10
  <2>12. ASSUME Within(d, es[m].domain) PROVE InDomain(es[m], at[m], k)
    <3>1. PICK h \in found : InDomain(es[m], at[m], h) BY <1>5, <2>3, <2>12
    <3>2. h \in Nat /\ k <= h /\ h < cm BY <1>6, <2>1, <3>1 DEF InDomain
    <3>3. am <= k BY <2>8, <2>11
    <3>4. k < cm
      <4> HIDE DEF cm
      <4> QED BY <2>5, <2>6, <3>2
    <3> QED BY <3>3, <3>4 DEF InDomain
  <2>13. ASSUME ~ Within(d, es[m].domain) PROVE InState(es[m], at[m], k)
    <3>1. ~ InDomain(es[m], at[m], k) BY <1>5, <2>1, <2>3, <2>13
    <3> QED BY <2>4, <2>11, <3>1
  <2> QED BY <2>1, <2>3, <2>12, <2>13
<1> QED BY <1>7, <1>8, Zenon DEF t, needle, found, n, H, m, k

\* What get_personal_state makes of any entries, for any domain.
LEMMA ReadsEntry ==
  ASSUME NEW es \in Seq(Entered), NEW d \in Nat
  PROVE  LET entry == es[Min(Holding(es, d))]
         IN  get_personal_state(es, d) # 0
               <=> Holding(es, d) # {} /\ Within(d, entry.domain) /\ entry.state # 0
<1> DEFINE t == Text(es)
           found == FoundAt(t, Digits(d))
           H == Holding(es, d)
           m == Min(H)
           k == Find(t, Digits(d))
           to == EndOfNumber(t, k)
           Read == /\ k # 0 /\ to # Len(t) /\ t[to + 1] = Colon
                   /\ \E j \in (to + 2)..EndOfNumber(t, to + 2) : t[j] # 0
<1>1. t \in Seq(Sign) /\ \E at : Readable(t, es, Len(es), at) BY TextReadable
<1>2. PICK at : Readable(t, es, Len(es), at) BY <1>1
<1>3. get_personal_state(es, d) # 0 <=> Read
  <2>1. get_personal_state(es, d) = IF Read THEN 1 ELSE 0 BY Zenon DEF get_personal_state
  <2> HIDE DEF Read
  <2> QED BY <2>1
<1>4. /\ found # {} <=> H # {}
      /\ found # {} =>
           /\ Min(found) \in found /\ m \in 1..Len(es)
           /\ IF Within(d, es[m].domain) THEN InDomain(es[m], at[m], Min(found))
              ELSE InState(es[m], at[m], Min(found))
  BY <1>1, <1>2, FirstHolding, Zenon
<1>5. k = IF found = {} THEN 0 ELSE Min(found) BY DEF Find
<1>6. CASE found = {}
  <2>1. k = 0 /\ H = {} BY <1>4, <1>5, <1>6
  <2> HIDE DEF k, H, to
  <2> QED BY <1>3, <2>1 DEF H
<1>7. CASE found # {}
  <2>1. k = Min(found) /\ m \in 1..Len(es) /\ H # {} /\ k \in found BY <1>4, <1>5, <1>7
  <2>2. es[m] \in Entered /\ at[m] \in Nat /\ at[m] >= 1 /\ EntryAt(t, es[m], at[m])
    <3>1. at \in [1..Len(es) -> Nat \ {0}] /\ \A i \in 1..Len(es) : EntryAt(t, es[i], at[i])
      BY <1>2, Zenon DEF Readable
    <3>2. at[m] \in Nat \ {0} BY <2>1, <3>1
    <3> HIDE DEF m, t
    <3> QED BY <2>1, <3>1, <3>2
  <2>3. k \in Nat /\ k >= 1
    <3>1. Digits(d) \in Seq(Digit) /\ Len(Digits(d)) >= 1 BY DigitsAre
    <3> HIDE DEF k, t
    <3>2. Len(t) \in Nat BY <1>1
    <3> QED BY <2>1, <3>1, <3>2, PlaceFacts DEF found
  <2>4. CASE Within(d, es[m].domain)
    <3>1. InDomain(es[m], at[m], k) BY <1>4, <1>7, <2>1, <2>4
    <3> HIDE DEF k, t, m
    <3>2. /\ to # Len(t) /\ t[to + 1] = Colon
          /\ (\E j \in (to + 2)..EndOfNumber(t, to + 2) : t[j] # 0) <=> es[m].state # 0
      BY <1>1, <2>2, <2>3, <3>1, FromDomain
    <3>3. k # 0 BY <2>3
    <3> HIDE DEF to
    <3>4. Read <=> es[m].state # 0 BY <3>2, <3>3, Zenon
    <3> HIDE DEF Read, H
    <3> QED BY <1>3, <2>1, <2>4, <3>4 DEF m, H
  <2>5. CASE ~ Within(d, es[m].domain)
    <3>1. InState(es[m], at[m], k) BY <1>4, <1>7, <2>1, <2>5
    <3> HIDE DEF k, t, m
    <3>2. to = Len(t) \/ t[to + 1] # Colon BY <1>1, <2>2, <2>3, <3>1, FromState
    <3> HIDE DEF to
    <3>3. ~ Read BY <3>2
    <3> HIDE DEF Read, H
    <3> QED BY <1>3, <2>5, <3>3 DEF m, H
  <2> QED BY <2>4, <2>5
<1> QED BY <1>6, <1>7

\* For any lists of entries and any domains persist.encryption.enable may have: the
\* state a domain gets is that of the first entry in whose numbers its digits are,
\* if they are in that entry's domain, and 0 otherwise.
THEOREM EntriesUnderstood == Spec => []PersonalExact
<1> DEFINE Known == enable \in Enables
<1>1. Init => Known BY DEF Init
<1>2. Known /\ [Next]_vars => Known'
  BY DEF Next, Call, Run, is_trust_process, read_domain, read_personal, read_mdm, read_config,
         SetCurrent, SetEnable, SetMdm, SetConfig, vars, settings
<1>3. Known => PersonalExact
  <2> SUFFICES ASSUME Known, NEW d \in Domains
               PROVE  LET entry == enable[Min(Holding(enable, d))]
                      IN  PersonalState[enable, d] # 0
                            <=> Holding(enable, d) # {} /\ Within(d, entry.domain) /\ entry.state # 0
    BY Zenon DEF PersonalExact, Holding
  <2>1. enable \in Seq(Entered) /\ d \in Nat
    <3>1. Domains \subseteq Nat /\ Enables \subseteq Seq(Entered)
      BY PolicyAssumption, Zenon DEF Entered
    <3> QED BY <3>1
  <2>2. PersonalState[enable, d] = get_personal_state(enable, d)
    <3>1. <<enable, d>> \in Enables \X Domains OBVIOUS
    <3> QED BY <3>1 DEF PersonalState
  <2> QED BY <2>1, <2>2, ReadsEntry
<1> QED BY <1>1, <1>2, <1>3, PTL DEF Spec
=============================================================================
