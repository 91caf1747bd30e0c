------------------------------- MODULE Policy -------------------------------
(***************************************************************************)
(* Whether a process is subject to encryption: is_trust_process and        *)
(* get_domain_state of ports/util.c, which every interposed call asks in   *)
(* this order.  The answer is put together from four values that others    *)
(* may change between the reads: three system properties and a file.  One  *)
(* step is one read.                                                       *)
(*                                                                         *)
(* persist.encryption.enable holds entries "<domain>:<state>".  The code   *)
(* looks for the number of the domain anywhere in that text, so the text   *)
(* is modelled, as a sequence of digits and marks.                         *)
(***************************************************************************)
EXTENDS Integers, SequencesExt, FiniteSetsExt

CONSTANTS
  Callers,    \* calling processes: their user (getuid() / AID_USER), and whether
              \* they are the media server (get_process_uid() == AID_MEDIA)
  Domains,    \* values of persist.sys.current_user_id, and of persist.mdm.domain_id
  Enables,    \* values of persist.encryption.enable, as sequences of entries
  Configs,    \* contents of /system/etc/security/config
  MaxCalls,   \* bound: calls of the process
  MaxWrites   \* bound: changes made during a call

ASSUME PolicyAssumption ==
  /\ Callers \subseteq [user : Nat, media : BOOLEAN]
  /\ Domains \subseteq Nat /\ Enables \subseteq Seq([domain : Nat, state : Nat])
  /\ Configs \subseteq {"missing", "other", "encrypt:0", "encrypt:1"}
  /\ {MaxCalls, MaxWrites} \subseteq Nat

VARIABLES
  current,   \* persist.sys.current_user_id; 0 when it is not set
  enable,    \* persist.encryption.enable; no entries when it is not set
  mdm,       \* persist.mdm.domain_id; 0 when it is not set
  config,    \* /system/etc/security/config
  caller,    \* the process; it stays the same
  pc,        \* where the call is
  domain,    \* get_domain_state's copy of the current domain
  answer,    \* what the last call found out: is it translated?
  calls,
  truths,    \* history: the answers that have been right at some moment of the call
  changed    \* history: what was changed during the call, in order

settings == <<current, enable, mdm, config>>
vars == <<settings, caller, pc, domain, answer, calls, truths, changed>>

-----------------------------------------------------------------------------
(* The text of persist.encryption.enable.                                  *)

Digit == 0..9
Colon == 10
Comma == 11

\* sprintf("%d")
Digits(n) ==
  LET digits[k \in 0..n] == IF k < 10 THEN <<k>> ELSE Append(digits[k \div 10], k % 10)
  IN  digits[n]

Entry(e) == Digits(e.domain) \o <<Colon>> \o Digits(e.state)
Text(entries) ==
  LET upTo[i \in 0..Len(entries)] ==
        IF i = 0 THEN <<>>
        ELSE upTo[i - 1] \o (IF i = 1 THEN <<>> ELSE <<Comma>>) \o Entry(entries[i])
  IN  upTo[Len(entries)]

Matches(text, k, needle) == \A j \in 1..Len(needle) : text[k + j - 1] = needle[j]
FoundAt(text, needle) == {k \in 1..(Len(text) - Len(needle) + 1) : Matches(text, k, needle)}

\* strstr(text, needle): where it is first found, or 0.
Find(text, needle) == IF FoundAt(text, needle) = {} THEN 0 ELSE Min(FoundAt(text, needle))

\* The end of the number that begins at place k of the text.
EndOfNumber(text, k) == Max({i \in k..Len(text) : \A j \in k..i : text[j] \in Digit})

\* Mutant: the first entry counts, whatever its domain.
get_personal_stateMut(entries, d) ==
  IF entries # <<>> /\ entries[1].state # 0 THEN 1 ELSE 0

\* sscanf("%d:%d") at the place where the digits of the domain are found: the
\* state is left 0 unless a colon follows the number there.  The callers ask
\* only whether it is 0; any other is 1 here.
get_personal_state(entries, d) ==
  LET text  == Text(entries)
      from  == Find(text, Digits(d))
      to    == EndOfNumber(text, from)
      state == (to + 2)..EndOfNumber(text, to + 2)
  IN  IF from # 0 /\ to # Len(text) /\ text[to + 1] = Colon /\ \E k \in state : text[k] # 0
      THEN 1 ELSE 0

PersonalState == [x \in Enables \X Domains |-> get_personal_state(x[1], x[2])]

\* get_security_state, when the domain has been found to be the managed one.
ConfigState(c) == IF c = "encrypt:1" THEN 1 ELSE 0

Trusted(d) == d # 0 /\ (IF caller.user = 0 THEN caller.media ELSE d = caller.user)

\* What the settings say at one moment.
DomainState ==
  LET personal == PersonalState[enable, current]
  IN  IF current = 0 THEN 0 ELSE IF personal # 0 THEN personal
      ELSE IF mdm = current THEN ConfigState(config) ELSE 0
Truth == Trusted(current) /\ DomainState # 0

-----------------------------------------------------------------------------
(* The call.                                                               *)

Goto(from, to) == pc = from /\ pc' = to
Answer(from, a) == Goto(from, "idle") /\ answer' = a

Call ==
  /\ Goto("idle", "trust") /\ calls < MaxCalls /\ calls' = calls + 1
  /\ truths' = {Truth} /\ changed' = <<>>
  /\ UNCHANGED <<settings, caller, domain, answer>>

is_trust_process ==
  /\ \/ Trusted(current) /\ Goto("trust", "domain") /\ UNCHANGED answer
     \/ ~ Trusted(current) /\ Answer("trust", FALSE)
  /\ UNCHANGED <<settings, caller, domain, calls, truths, changed>>

\* get_domain_state reads the current domain again.
read_domain ==
  /\ \/ current # 0 /\ Goto("domain", "personal") /\ domain' = current /\ UNCHANGED answer
     \/ current = 0 /\ Answer("domain", FALSE) /\ UNCHANGED domain
  /\ UNCHANGED <<settings, caller, calls, truths, changed>>

read_personal ==
  LET state == PersonalState[enable, domain]
  IN  /\ \/ state # 0 /\ Answer("personal", TRUE)
         \/ state = 0 /\ Goto("personal", "mdm") /\ UNCHANGED answer
      /\ UNCHANGED <<settings, caller, domain, calls, truths, changed>>

\* Mutant: the managed domain is not compared.
read_mdmMut ==
  /\ Goto("mdm", "config") /\ UNCHANGED answer
  /\ UNCHANGED <<settings, caller, domain, calls, truths, changed>>

read_mdm ==
  /\ \/ mdm = domain /\ Goto("mdm", "config") /\ UNCHANGED answer
     \/ mdm # domain /\ Answer("mdm", FALSE)
  /\ UNCHANGED <<settings, caller, domain, calls, truths, changed>>

read_config ==
  /\ Answer("config", ConfigState(config) # 0)
  /\ UNCHANGED <<settings, caller, domain, calls, truths, changed>>

-----------------------------------------------------------------------------
(* Others.                                                                 *)

Change(what) ==
  /\ UNCHANGED <<caller, pc, domain, answer, calls>>
  /\ pc # "idle" => Len(changed) < MaxWrites
  /\ IF pc = "idle" THEN UNCHANGED <<truths, changed>>
     ELSE truths' = truths \cup {Truth'} /\ changed' = Append(changed, what)

SetCurrent == current' \in Domains \ {current} /\ UNCHANGED <<enable, mdm, config>> /\ Change("current")
SetEnable == enable' \in Enables \ {enable} /\ UNCHANGED <<current, mdm, config>> /\ Change("enable")
SetMdm == mdm' \in Domains \ {mdm} /\ UNCHANGED <<current, enable, config>> /\ Change("mdm")
SetConfig == config' \in Configs \ {config} /\ UNCHANGED <<current, enable, mdm>> /\ Change("config")

Init ==
  /\ current \in Domains /\ enable \in Enables /\ mdm \in Domains /\ config \in Configs
  /\ caller \in Callers /\ pc = "idle" /\ domain = 0 /\ answer = FALSE /\ calls = 0
  /\ truths = {} /\ changed = <<>>

Run == is_trust_process \/ read_domain \/ read_personal \/ read_mdm \/ read_config

Next == Call \/ Run \/ SetCurrent \/ SetEnable \/ SetMdm \/ SetConfig

Spec == Init /\ [][Next]_vars

-----------------------------------------------------------------------------
(* Properties.                                                             *)

\* A call that answers has found something that was right at one moment of it,
\* if no more than one setting was changed meanwhile; except when that is the
\* current domain and the process belongs to a user: it is then taken for
\* trusted under one domain and given the state of another.
AnswerWasTrue ==
  [][(pc # "idle" /\ pc' = "idle") =>
       \/ answer' \in truths
       \/ Len(changed) > 1
       \/ changed = <<"current">> /\ caller.user # 0]_vars

\* The digits of one number stand together in the other.
Within(m, n) == FoundAt(Digits(n), Digits(m)) # {}

\* What the text search makes of the entries: it takes for the entry of a domain
\* the first in whose numbers the domain's digits stand, and gives its state if
\* that number is its domain, 0 if it is but its state.  So a domain gets the state
\* of its own entry when no entry before that has its digits; in "110:1,10:0" domain
\* 10 gets that of domain 110, and in "10:1" domain 1 gets that of domain 10.
PersonalExact ==
  \A d \in Domains :
    LET found == {i \in DOMAIN enable : Within(d, enable[i].domain) \/ Within(d, enable[i].state)}
        entry == enable[Min(found)]
    IN  PersonalState[enable, d] # 0 <=> found # {} /\ Within(d, entry.domain) /\ entry.state # 0
=============================================================================
