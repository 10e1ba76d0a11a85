---------------------------- MODULE ConfigProofs ----------------------------
(***************************************************************************)
(* What conmon and sysmon make of a configuration, whatever the files: the *)
(* checks it runs can be run, their series are distinct and labelled as    *)
(* configured, and what one Validate has completed the next leaves alone.  *)
(***************************************************************************)
EXTENDS ConmonConfig, SysmonConfig, Induction, SequenceTheorems

-----------------------------------------------------------------------------
(* Texts, which are trimmed. *)

\* Two texts with the same fields are one.
LEMMA SameText ==
    ASSUME NEW s \in Text, NEW t \in Text, s.text = t.text, s.pad = t.pad
    PROVE  s = t
    BY DEF Text

\* A text that is trimmed keeps its words, and once more changes nothing.
LEMMA TrimFacts ==
    ASSUME NEW s \in Text
    PROVE  Trim(s) \in Text /\ Trim(s).text = s.text /\ Trim(Trim(s)) = Trim(s)
<1>1. Trim(s) \in Text /\ Trim(s).text = s.text
    BY DEF Trim, Text
<1>2. Trim(Trim(s)) = Trim(s)
    BY DEF Trim, Text
<1> QED
    BY <1>1, <1>2

\* A text that is blank is so before and after.
LEMMA TrimKeepsBlank ==
    ASSUME NEW s \in Text
    PROVE  Blank(Trim(s)) <=> Blank(s)
    BY TrimFacts DEF Blank

\* What is trimmed is known by its text.
LEMMA TrimmedByText ==
    ASSUME NEW s \in Text, NEW t \in Text
    PROVE  Trim(s) = Trim(t) <=> s.text = t.text
<1>1. Trim(s) \in Text /\ Trim(t) \in Text /\ Trim(s).text = s.text /\ Trim(t).text = t.text
    BY TrimFacts
<1>2. Trim(s).pad = Trim(t).pad
    BY DEF Trim, Text
<1> QED
    BY <1>1, <1>2, SameText

-----------------------------------------------------------------------------
(* sysmon. *)

Job == Text \cup {DefaultJob}
InMemory ==
    [url : Url, job : Job, interval : Int, timeout : Int, host : Text, perCore : BOOLEAN,
     services : Seq(Text)]

\* The same of an address, which keeps its parts.
LEMMA TrimUrl ==
    ASSUME NEW u \in Url
    PROVE  /\ Trim(u) \in Url /\ Trim(Trim(u)) = Trim(u)
           /\ Trim(u).text = u.text /\ Trim(u).scheme = u.scheme /\ Trim(u).authority = u.authority
    BY DEF Trim, Url

\* The default is no more changed by trimming than what was trimmed.
LEMMA JobFacts ==
    /\ Trim(DefaultJob) = DefaultJob /\ ~Blank(DefaultJob)
    /\ \A j \in Job : Trim(j) \in Job /\ Trim(Trim(j)) = Trim(j) /\ (Blank(Trim(j)) <=> Blank(j))
<1> DEFINE Only == [text : {"sysmon"}, pad : {FALSE}]
<1>1. DefaultJob \in Only /\ ~Blank(DefaultJob)
    BY DEF DefaultJob, Blank
<1>2. \A s \in Only : Trim(s) = s
    BY DEF Trim
<1> QED
    BY <1>1, <1>2, TrimFacts, TrimKeepsBlank DEF Job

\* Two configurations with the same fields are one.
LEMMA SameInMemory ==
    ASSUME NEW c \in InMemory, NEW d \in InMemory,
           c.url = d.url, c.job = d.job, c.interval = d.interval, c.timeout = d.timeout,
           c.host = d.host, c.perCore = d.perCore, c.services = d.services
    PROVE  c = d
    BY DEF InMemory

\* A configuration as decoded is one in memory.
LEMMA DecodedContent ==
    ASSUME NEW c \in Content
    PROVE  /\ AsDecoded(c) \in InMemory /\ AsDecoded(c).host = c.host
           /\ AsDecoded(c).interval = DurationOf(c.interval)
<1>1. DurationOf(c.interval) \in Int /\ DurationOf(c.timeout) \in Int
    BY DEF DurationOf, Content, Written
<1> QED
    BY <1>1 DEF AsDecoded, Content, InMemory, Job

\* What Validate makes of each field.
LEMMA TidiedFields ==
    ASSUME NEW c \in InMemory
    PROVE  LET t == Tidied(c) IN
           /\ t \in InMemory
           /\ t.url = Trim(c.url) /\ t.host = Trim(c.host)
           /\ t.job = (IF Blank(c.job) THEN DefaultJob ELSE Trim(c.job))
           /\ t.services = [i \in DOMAIN c.services |-> Trim(c.services[i])]
           /\ t.interval = c.interval /\ t.timeout = c.timeout /\ t.perCore = c.perCore
<1> DEFINE services == [i \in DOMAIN c.services |-> Trim(c.services[i])]
           job == IF Blank(c.job) THEN DefaultJob ELSE Trim(c.job)
<1>1. c.services \in Seq(Text)
    BY DEF InMemory
<1>2. services \in Seq(Text)
    <2>1. Len(c.services) \in Nat /\ DOMAIN c.services = 1 .. Len(c.services)
        BY <1>1, LenProperties
    <2>2. \A i \in 1 .. Len(c.services) : Trim(c.services[i]) \in Text
        BY <1>1, TrimFacts, ElementOfSeq
    <2> QED
        BY <2>1, <2>2, IsASeq
<1>3. job \in Job
    <2>1. c.job \in Job
        BY DEF InMemory
    <2> QED
        BY <2>1, JobFacts DEF Job
<1>4. Trim(c.url) \in Url /\ Trim(c.host) \in Text
    BY TrimUrl, TrimFacts DEF InMemory
<1>5. Tidied(c) = [c EXCEPT !.url = Trim(c.url), !.host = Trim(c.host), !.job = job,
                            !.services = services]
    BY DEF Tidied, InMemory
<1> HIDE DEF services, job
<1>6. /\ Tidied(c) \in InMemory
      /\ Tidied(c).url = Trim(c.url) /\ Tidied(c).host = Trim(c.host) /\ Tidied(c).job = job
      /\ Tidied(c).services = services /\ Tidied(c).interval = c.interval
      /\ Tidied(c).timeout = c.timeout /\ Tidied(c).perCore = c.perCore
    BY <1>2, <1>3, <1>4, <1>5 DEF InMemory
<1> QED
    BY <1>6 DEF services, job

\* To complete a configuration a second time changes nothing.
LEMMA TidiedTwice ==
    ASSUME NEW c \in InMemory
    PROVE  Tidied(Tidied(c)) = Tidied(c)
<1> DEFINE t == Tidied(c)
           u == Tidied(Tidied(c))
<1>1. /\ t \in InMemory
      /\ t.url = Trim(c.url) /\ t.host = Trim(c.host)
      /\ t.job = (IF Blank(c.job) THEN DefaultJob ELSE Trim(c.job))
      /\ t.services = [i \in DOMAIN c.services |-> Trim(c.services[i])]
    BY TidiedFields
<1>2. /\ u \in InMemory
      /\ u.url = Trim(t.url) /\ u.host = Trim(t.host)
      /\ u.job = (IF Blank(t.job) THEN DefaultJob ELSE Trim(t.job))
      /\ u.services = [i \in DOMAIN t.services |-> Trim(t.services[i])]
      /\ u.interval = t.interval /\ u.timeout = t.timeout /\ u.perCore = t.perCore
    BY <1>1, TidiedFields
<1> HIDE DEF t, u
<1>3. c.url \in Url /\ c.host \in Text /\ c.job \in Job /\ c.services \in Seq(Text)
    BY DEF InMemory
<1>4. u.url = t.url /\ u.host = t.host
    <2>1. u.url = t.url
        BY <1>1, <1>2, <1>3, TrimUrl
    <2>2. u.host = t.host
        BY <1>1, <1>2, <1>3, TrimFacts
    <2> QED
        BY <2>1, <2>2
<1>5. u.job = t.job
    <2>1. CASE Blank(c.job)
        BY <1>1, <1>2, <2>1, JobFacts
    <2>2. CASE ~Blank(c.job)
        BY <1>1, <1>2, <1>3, <2>2, JobFacts
    <2> QED
        BY <2>1, <2>2
<1>6. u.services = t.services
    <2>1. \A i \in DOMAIN c.services : c.services[i] \in Text
        BY <1>3, LenProperties, ElementOfSeq
    <2>2. /\ DOMAIN t.services = DOMAIN c.services
          /\ \A i \in DOMAIN c.services : Trim(t.services[i]) = t.services[i]
        BY <1>1, <2>1, TrimFacts
    <2>3. u.services = [i \in DOMAIN c.services |-> t.services[i]]
        BY <1>2, <2>2
    <2>4. t.services = [i \in DOMAIN c.services |-> t.services[i]]
        BY <1>1
    <2> QED
        BY <2>3, <2>4
<1>7. u = t
    BY <1>1, <1>2, <1>4, <1>5, <1>6, SameInMemory
<1> QED
    BY <1>7 DEF t, u

\* What one Validate accepts and completes, the next accepts.
LEMMA ValidTwice ==
    ASSUME NEW c \in InMemory, Valid(c)
    PROVE  /\ Valid(Tidied(c))
           /\ ~Blank(Tidied(c).job)
           /\ \A i, j \in DOMAIN Tidied(c).services :
                 Tidied(c).services[i] = Tidied(c).services[j] => i = j
<1> DEFINE t == Tidied(c)
<1>1. /\ t \in InMemory
      /\ t.url = Trim(c.url) /\ t.host = Trim(c.host)
      /\ t.job = (IF Blank(c.job) THEN DefaultJob ELSE Trim(c.job))
      /\ t.services = [i \in DOMAIN c.services |-> Trim(c.services[i])]
      /\ t.interval = c.interval /\ t.timeout = c.timeout
    BY TidiedFields
<1> HIDE DEF t
<1>2. c.url \in Url /\ c.job \in Job /\ c.services \in Seq(Text)
    BY DEF InMemory
<1>3. ~Blank(t.url) /\ t.url.scheme = "http" /\ t.url.authority
    BY <1>1, <1>2, TrimUrl DEF Valid, Blank
<1>4. \A i \in DOMAIN c.services : c.services[i] \in Text
    BY <1>2, LenProperties, ElementOfSeq
<1>5. \A i, j \in DOMAIN t.services : t.services[i] = t.services[j] => i = j
    BY <1>1 DEF Valid, ServicesOK
<1>6. ServicesOK(t)
    BY <1>1, <1>4, <1>5, TrimFacts, TrimKeepsBlank DEF Valid, ServicesOK
<1>7. ~Blank(t.job)
    <2>1. CASE Blank(c.job)
        BY <1>1, <2>1, JobFacts
    <2>2. CASE ~Blank(c.job)
        BY <1>1, <1>2, <2>2, JobFacts
    <2> QED
        BY <2>1, <2>2
<1>8. Valid(t)
    BY <1>1, <1>3, <1>6 DEF Valid
<1> QED
    BY <1>5, <1>7, <1>8 DEF t

\* What Load leaves for New is inductive.
LEMMA SysmonInductive ==
    /\ SysmonInit => SysmonIInv
    /\ SysmonIInv /\ [SysmonNext]_sysmonVars => SysmonIInv'
<1>1. SysmonInit => SysmonIInv
    BY DEF SysmonInit, SysmonIInv, SysmonReady
<1>2. ASSUME SysmonIInv, Load PROVE SysmonIInv'
    BY <1>2 DEF SysmonIInv, SysmonReady, Load
<1>3. ASSUME SysmonIInv, NEW lookup \in Lookups, New(lookup) PROVE SysmonIInv'
    <2> DEFINE c == AsDecoded(given.content)
    <2>1. given \in SysmonFiles /\ Valid(c) /\ config = Tidied(c)
        BY <1>3 DEF SysmonIInv, New
    <2>2. c \in InMemory /\ c.host = given.content.host
        BY <2>1, SysmonAssumption, DecodedContent
    <2>3. given.content.host \in Text
        BY <2>1, SysmonAssumption DEF Content
    <2> HIDE DEF c
    <2>4. /\ config \in InMemory /\ config.host = Trim(c.host) /\ Valid(config)
          /\ Tidied(config) = config /\ ~Blank(config.job)
          /\ \A i, j \in DOMAIN config.services : config.services[i] = config.services[j] => i = j
        BY <2>1, <2>2, TidiedFields, TidiedTwice, ValidTwice
    <2>5. Blank(config.host) <=> Blank(given.content.host)
        BY <2>2, <2>3, <2>4, TrimKeepsBlank
    <2>6. CASE ResolvedOK(config.host, lookup)
        <3>1. /\ reached' = "built" /\ config' = config
              /\ host' = ResolveHost(config.host, lookup) /\ UNCHANGED given
            BY <1>3, <2>4, <2>6 DEF New
        <3>2. host' \in IF Blank(given.content.host) THEN {l.name : l \in {m \in Lookups : m.ok}}
                        ELSE {Trim(given.content.host)}
            BY <2>2, <2>4, <2>5, <2>6, <3>1 DEF ResolvedOK, ResolveHost
        <3>3. config.interval > 0 /\ config.timeout > 0 /\ config.url.scheme = "http"
            BY <2>4 DEF Valid
        <3> QED
            BY <2>1, <2>4, <3>1, <3>2, <3>3 DEF SysmonIInv, SysmonReady, c
    <2>7. CASE ~ResolvedOK(config.host, lookup)
        <3>1. reached' = "refused" /\ UNCHANGED <<given, config, host>>
            BY <1>3, <2>4, <2>7 DEF New
        <3> QED
            BY <2>1, <2>5, <2>7, <3>1 DEF SysmonIInv, SysmonReady, ResolvedOK
    <2> QED
        BY <2>6, <2>7
<1>4. ASSUME SysmonIInv, UNCHANGED sysmonVars PROVE SysmonIInv'
    BY <1>4 DEF SysmonIInv, SysmonReady, sysmonVars
<1> QED
    BY <1>1, <1>2, <1>3, <1>4 DEF SysmonNext

\* What Load accepts New accepts and leaves alone, whatever the file, unless the
\* host has no name, and the App has what Run relies on.
THEOREM SysmonIsReady == SysmonSpec => []SysmonReady
<1>1. SysmonIInv => SysmonReady
    BY DEF SysmonIInv
<1> QED
    BY <1>1, SysmonInductive, PTL DEF SysmonSpec

-----------------------------------------------------------------------------
(* The checks of all groups in one list. *)

\* A list is its length of elements.
LEMMA ListFacts ==
    ASSUME NEW s, IsList(s)
    PROVE  /\ Len(s) \in Nat /\ DOMAIN s = 1 .. Len(s)
           /\ \A T : (\A i \in DOMAIN s : s[i] \in T) => s \in Seq(T)
<1> DEFINE Elements == {s[i] : i \in DOMAIN s}
<1>1. s \in Seq(Elements)
    BY DEF IsList
<1> HIDE DEF Elements
<1>2. Len(s) \in Nat /\ DOMAIN s = 1 .. Len(s)
    BY <1>1, LenProperties
<1>3. ASSUME NEW T, \A i \in DOMAIN s : s[i] \in T PROVE s \in Seq(T)
    <2>1. Elements \subseteq T
        BY <1>3 DEF Elements
    <2> QED
        BY <1>1, <2>1, SeqMonotonic
<1> QED
    BY <1>2, <1>3

\* The groups, so far as the order of their checks goes.
IsGrouping(groups) == IsList(groups) /\ \A g \in DOMAIN groups : IsList(groups[g].checks)

Lists(groups, b) ==
    b = [g \in 0 .. Len(groups) |-> IF g = 0 THEN <<>> ELSE b[g - 1] \o groups[g].checks]

\* The recursion of AllChecks has a solution, which it ends with.
LEMMA AllChecksUnfolds ==
    ASSUME NEW groups, Len(groups) \in Nat
    PROVE  \E b : /\ AllChecks(groups) = b[Len(groups)]
                  /\ b[0] = <<>>
                  /\ \A g \in 1 .. Len(groups) : b[g] = b[g - 1] \o groups[g].checks
<1> DEFINE Next1(b, g) == IF g = 0 THEN <<>> ELSE b[g - 1] \o groups[g].checks
           Part(n, b) == b = [g \in 0 .. n |-> Next1(b, g)]
           T == {n \in Nat : \E b : Part(n, b)}
<1>1. 0 \in T
    <2>1. Part(0, [g \in 0 .. 0 |-> <<>>])
        OBVIOUS
    <2> QED
        BY <2>1
<1>2. ASSUME NEW n \in Nat, n \in T PROVE n + 1 \in T
    <2>1. PICK b : Part(n, b)
        BY <1>2
    <2> DEFINE d == [g \in 0 .. n + 1 |-> Next1(b, g)]
    <2>2. ASSUME NEW g \in 0 .. n + 1 PROVE Next1(d, g) = Next1(b, g)
        <3>1. CASE g = 0
            BY <3>1
        <3>2. CASE g # 0
            <4>1. g - 1 \in 0 .. n /\ g - 1 \in 0 .. n + 1
                BY <3>2
            <4>2. d[g - 1] = b[g - 1]
                BY <2>1, <4>1
            <4> QED
                BY <3>2, <4>2
        <3> QED
            BY <3>1, <3>2
    <2>3. Part(n + 1, d)
        BY <2>2
    <2> HIDE DEF Part, d
    <2> QED
        BY <2>3
<1>3. \A n \in Nat : n \in T
    <2> HIDE DEF T
    <2> QED
        BY <1>1, <1>2, NumberInduction
<1>4. \E b : Lists(groups, b)
    BY <1>3 DEF Lists
<1> DEFINE before == CHOOSE b : Lists(groups, b)
<1>5. AllChecks(groups) = before[Len(groups)]
    BY Zenon DEF AllChecks, Lists
<1>6. Lists(groups, before)
    BY <1>4
<1> HIDE DEF before
<1>7. /\ before[0] = <<>>
      /\ \A g \in 1 .. Len(groups) : before[g] = before[g - 1] \o groups[g].checks
    BY <1>6 DEF Lists
<1> QED
    BY <1>5, <1>7

\* A group's checks by their places.
Places(groups) ==
    [g \in DOMAIN groups |-> [checks |-> [i \in DOMAIN groups[g].checks |-> <<g, i>>]]]

\* A function on the numbers up to n is a list.
LEMMA FunctionIsList ==
    ASSUME NEW n \in Nat, NEW s, s = [i \in 1 .. n |-> s[i]]
    PROVE  IsList(s) /\ Len(s) = n
<1> DEFINE T == {s[i] : i \in DOMAIN s}
<1>1. s \in [1 .. n -> T]
    OBVIOUS
<1> HIDE DEF T
<1>2. s \in Seq(T) /\ Len(s) = n
    BY <1>1, SeqDef, LenProperties
<1> QED
    BY <1>2 DEF IsList, T

\* The places are grouped as the checks are.
LEMMA PlacesAreListed ==
    ASSUME NEW groups, IsGrouping(groups)
    PROVE  /\ IsGrouping(Places(groups)) /\ Len(Places(groups)) = Len(groups)
           /\ DOMAIN Places(groups) = DOMAIN groups
           /\ \A g \in DOMAIN groups :
                 Places(groups)[g].checks = [i \in DOMAIN groups[g].checks |-> <<g, i>>]
<1> DEFINE p == Places(groups)
<1>1. Len(groups) \in Nat /\ DOMAIN groups = 1 .. Len(groups)
    BY ListFacts DEF IsGrouping
<1>2. IsList(p) /\ Len(p) = Len(groups) /\ DOMAIN p = DOMAIN groups
    <2>1. p = [g \in 1 .. Len(groups) |-> p[g]]
        BY <1>1 DEF Places
    <2> QED
        BY <1>1, <2>1, FunctionIsList
<1>3. ASSUME NEW g \in DOMAIN groups
      PROVE  /\ p[g].checks = [i \in DOMAIN groups[g].checks |-> <<g, i>>]
             /\ IsList(p[g].checks)
    <2> DEFINE s == [i \in DOMAIN groups[g].checks |-> <<g, i>>]
    <2>1. p[g].checks = s
        BY DEF Places
    <2>2. Len(groups[g].checks) \in Nat /\ DOMAIN groups[g].checks = 1 .. Len(groups[g].checks)
        BY ListFacts DEF IsGrouping
    <2>3. s = [i \in 1 .. Len(groups[g].checks) |-> s[i]]
        BY <2>2
    <2> HIDE DEF s
    <2>4. IsList(s)
        BY <2>2, <2>3, FunctionIsList
    <2> QED
        BY <2>1, <2>4 DEF s
<1> QED
    BY <1>2, <1>3 DEF IsGrouping

Order(groups) == AllChecks(Places(groups))

\* The k checks b of the first g groups, whose places are o.
Listed(groups, g, k, b, o) ==
    /\ \A i \in 1 .. k : b[i] = CheckAt(groups, o[i]) /\ o[i][1] \in 1 .. g
    /\ \A i, j \in 1 .. k : o[i] = o[j] => i = j

\* The m checks b of group g, whose places are o.
Own(groups, g, m, b, o) ==
    \A i \in 1 .. m : o[i] = <<g, i>> /\ b[i] = CheckAt(groups, <<g, i>>)

Appended(s, k, t, m, both) ==
    \A i \in 1 .. k + m : both[i] = IF i <= k THEN s[i] ELSE t[i - k]

\* A group's own checks are at places none of the groups before has.
LEMMA PlacesAppended ==
    ASSUME NEW groups, NEW h \in Nat, NEW k \in Nat, NEW m \in Nat,
           NEW b, NEW o, NEW s, NEW t, NEW c, NEW p,
           Listed(groups, h, k, b, o), Own(groups, h + 1, m, s, t),
           Appended(b, k, s, m, c), Appended(o, k, t, m, p)
    PROVE  Listed(groups, h + 1, k + m, c, p)
<1> USE DEF Listed, Own, Appended
<1>1. ASSUME NEW i \in 1 .. k + m, i <= k
      PROVE  /\ i \in 1 .. k /\ c[i] = b[i] /\ p[i] = o[i]
             /\ c[i] = CheckAt(groups, p[i]) /\ p[i][1] \in 1 .. h
    BY <1>1
<1>2. ASSUME NEW i \in 1 .. k + m, i > k
      PROVE  p[i] = <<h + 1, i - k>> /\ c[i] = CheckAt(groups, p[i])
    <2>1. i - k \in 1 .. m /\ ~(i <= k)
        BY <1>2
    <2> QED
        BY <2>1
<1>3. ASSUME NEW i \in 1 .. k + m PROVE c[i] = CheckAt(groups, p[i]) /\ p[i][1] \in 1 .. h + 1
    BY <1>1, <1>2
<1>4. ASSUME NEW i \in 1 .. k + m, NEW j \in 1 .. k + m, p[i] = p[j] PROVE i = j
    <2>1. CASE i <= k /\ j <= k
        BY <1>1, <1>4, <2>1
    <2>2. CASE i > k /\ j > k
        BY <1>2, <1>4, <2>2
    <2>3. CASE i <= k /\ j > k
        BY <1>1, <1>2, <1>4, <2>3
    <2>4. CASE i > k /\ j <= k
        BY <1>1, <1>2, <1>4, <2>4
    <2> QED
        BY <2>1, <2>2, <2>3, <2>4
<1> QED
    BY <1>3, <1>4

\* The list of all checks: each check of each group at a position of its own.
LEMMA AllChecksByPlace ==
    ASSUME NEW groups, IsGrouping(groups)
    PROVE  LET order == Order(groups) IN
           /\ Len(order) \in Nat /\ DOMAIN order = 1 .. Len(order)
           /\ \A i \in DOMAIN order : order[i] \in Positions(groups)
           /\ \A i, j \in DOMAIN order : order[i] = order[j] => i = j
           /\ DOMAIN AllChecks(groups) = DOMAIN order
           /\ \A i \in DOMAIN order : AllChecks(groups)[i] = CheckAt(groups, order[i])
<1> DEFINE n == Len(groups)
           P == Positions(groups)
           C == {CheckAt(groups, p) : p \in P}
           \* The checks b of the first g groups, and their places o.
           Good(g, b, o) ==
               /\ b \in Seq(C) /\ o \in Seq(P) /\ Len(b) = Len(o)
               /\ Listed(groups, g, Len(o), b, o)
<1>1. n \in Nat /\ DOMAIN groups = 1 .. n
    BY ListFacts DEF IsGrouping
<1>2. /\ IsGrouping(Places(groups)) /\ Len(Places(groups)) = n
      /\ \A g \in DOMAIN groups :
            Places(groups)[g].checks = [i \in DOMAIN groups[g].checks |-> <<g, i>>]
    BY PlacesAreListed
<1>3. PICK b : /\ AllChecks(groups) = b[n] /\ b[0] = <<>>
               /\ \A g \in 1 .. n : b[g] = b[g - 1] \o groups[g].checks
    BY <1>1, AllChecksUnfolds
<1>4. PICK o : /\ Order(groups) = o[n] /\ o[0] = <<>>
               /\ \A g \in 1 .. n : o[g] = o[g - 1] \o Places(groups)[g].checks
    <2>1. \E o : /\ AllChecks(Places(groups)) = o[Len(Places(groups))] /\ o[0] = <<>>
                 /\ \A g \in 1 .. Len(Places(groups)) : o[g] = o[g - 1] \o Places(groups)[g].checks
        <3>1. Len(Places(groups)) \in Nat
            BY <1>1, <1>2
        <3> HIDE DEF n
        <3> QED
            BY <3>1, AllChecksUnfolds, Zenon
    <2> QED
        BY <1>2, <2>1 DEF Order
<1> HIDE DEF n, P, C
<1> DEFINE T == {g \in Nat : g <= n => Good(g, b[g], o[g])}
<1>5. 0 \in T
    <2>1. <<>> \in Seq(C) /\ <<>> \in Seq(P) /\ Len(<<>>) = 0
        BY EmptySeq
    <2>2. Good(0, <<>>, <<>>)
        BY <2>1 DEF Listed
    <2> HIDE DEF Good
    <2>3. Good(0, b[0], o[0])
        BY <1>3, <1>4, <2>2, Zenon
    <2> QED
        BY <2>3
<1>6. ASSUME NEW h \in Nat, h \in T PROVE h + 1 \in T
    <2> DEFINE g == h + 1
               s == groups[g].checks
               t == Places(groups)[g].checks
    <2>1. SUFFICES ASSUME g <= n PROVE Good(g, b[g], o[g])
        BY DEF g
    <2>2. g \in 1 .. n /\ g \in DOMAIN groups /\ g - 1 = h
        BY <1>1, <2>1
    <2>3. Good(h, b[h], o[h])
        BY <1>1, <1>6, <2>1
    <2>4. b[g] = b[h] \o s /\ o[g] = o[h] \o t
        BY <1>3, <1>4, <2>2
    <2>5. Len(s) \in Nat /\ DOMAIN s = 1 .. Len(s) /\ IsList(s)
        BY <2>2, ListFacts DEF IsGrouping
    <2>6. t = [i \in 1 .. Len(s) |-> <<g, i>>]
        BY <1>2, <2>2, <2>5
    <2>7. \A i \in 1 .. Len(s) : <<g, i>> \in P /\ CheckAt(groups, <<g, i>>) = s[i] /\ s[i] \in C
        BY <2>2, <2>5 DEF P, C, Positions, CheckAt
    <2>8. t \in Seq(P) /\ Len(t) = Len(s)
        BY <2>5, <2>6, <2>7, IsASeq
    <2>9. s \in Seq(C)
        BY <2>5, <2>7, ListFacts
    <2> HIDE DEF g, s, t
    <2>10. /\ b[g] \in Seq(C) /\ Len(b[g]) = Len(b[h]) + Len(s)
           /\ \A i \in 1 .. Len(b[h]) + Len(s) :
                 b[g][i] = IF i <= Len(b[h]) THEN b[h][i] ELSE s[i - Len(b[h])]
        <3>1. b[h] \in Seq(C)
            BY <2>3
        <3>2. /\ b[h] \o s \in Seq(C) /\ Len(b[h] \o s) = Len(b[h]) + Len(s)
              /\ \A i \in 1 .. Len(b[h]) + Len(s) :
                    (b[h] \o s)[i] = IF i <= Len(b[h]) THEN b[h][i] ELSE s[i - Len(b[h])]
            BY <2>9, <3>1, ConcatProperties, Zenon
        <3> QED
            BY <2>4, <2>8, <3>2, Zenon
    <2>11. /\ o[g] \in Seq(P) /\ Len(o[g]) = Len(o[h]) + Len(s)
           /\ \A i \in 1 .. Len(o[h]) + Len(s) :
                 o[g][i] = IF i <= Len(o[h]) THEN o[h][i] ELSE t[i - Len(o[h])]
        <3>1. o[h] \in Seq(P)
            BY <2>3
        <3>2. /\ o[h] \o t \in Seq(P) /\ Len(o[h] \o t) = Len(o[h]) + Len(t)
              /\ \A i \in 1 .. Len(o[h]) + Len(t) :
                    (o[h] \o t)[i] = IF i <= Len(o[h]) THEN o[h][i] ELSE t[i - Len(o[h])]
            BY <2>8, <3>1, ConcatProperties, Zenon
        <3> QED
            BY <2>4, <2>8, <3>2, Zenon
    <2>12. Len(o[h]) \in Nat /\ Len(b[h]) = Len(o[h])
        BY <2>3, LenProperties
    <2>13. Listed(groups, h, Len(o[h]), b[h], o[h])
        BY <2>3
    <2>14. g = h + 1 /\ Own(groups, h + 1, Len(s), s, t)
        BY <2>6, <2>7 DEF Own, g
    <2>15. Appended(b[h], Len(o[h]), s, Len(s), b[g]) /\ Appended(o[h], Len(o[h]), t, Len(s), o[g])
        BY <2>10, <2>11, <2>12 DEF Appended
    <2>16. Listed(groups, g, Len(o[h]) + Len(s), b[g], o[g])
        <3>1. Len(s) \in Nat
            BY <2>5
        <3> QED
            BY <2>12, <2>13, <2>14, <2>15, <3>1, PlacesAppended, Zenon
    <2> QED
        BY <2>10, <2>11, <2>12, <2>16
<1>7. \A g \in Nat : g \in T
    <2> HIDE DEF T
    <2> QED
        BY <1>5, <1>6, NumberInduction
<1>8. Good(n, b[n], o[n])
    BY <1>1, <1>7
<1>9. /\ Len(o[n]) \in Nat /\ DOMAIN o[n] = 1 .. Len(o[n]) /\ DOMAIN b[n] = 1 .. Len(o[n])
      /\ \A i \in 1 .. Len(o[n]) : o[n][i] \in P
    BY <1>8, LenProperties, ElementOfSeq
<1> QED
    BY <1>3, <1>4, <1>8, <1>9 DEF P, Listed

-----------------------------------------------------------------------------
(* A check, from the file to the series. *)

\* A duration that is decoded is a number.
LEMMA DecodedTimesFields ==
    ASSUME NEW c, IsCheck(c, Written)
    PROVE  /\ IsCheck(DecodedTimes(c), Int)
           /\ DecodedTimes(c).labels = c.labels
<1>1. DurationOf(c.interval) \in Int /\ DurationOf(c.timeout) \in Int
    BY DEF IsCheck, Written, DurationOf
<1>2. DecodedTimes(c).labels = c.labels
    BY DEF DecodedTimes, IsCheck
<1>3. DecodedTimes(c) \in
          [id : Text, name : Text, kind : Text, scope : Text, host : Text, port : Int,
           scheme : STRING, method : Text, statuses : SUBSET Int, server : Text,
           query : Text, recordType : Text, rcode : Text, min : Int, count : Int,
           interval : Int, timeout : Int, labels : {c.labels}, group : Text]
    BY <1>1 DEF DecodedTimes, IsCheck
<1> QED
    BY <1>2, <1>3 DEF IsCheck

\* What is completed, so far as the properties tell.
LEMMA CompletedFields ==
    ASSUME NEW c, IsCheck(c, Int), NEW d, NEW group
    PROVE  LET v == Completed(d, group, c) IN
           /\ v.labels = mergeLabels(d.labels, c.labels)
           /\ v.port = (IF Fold(Lowercase, c.kind).text = "dns" /\ c.port = 0 THEN 53 ELSE c.port)
           /\ v.kind = Fold(Lowercase, c.kind)
           /\ v.kind.text \in {"http", "https"} => v.statuses # {}
           /\ v.min = c.min
           /\ DOMAIN v = DOMAIN c /\ "min" \in DOMAIN v
<1> DEFINE v == Completed(d, group, c)
<1>1. /\ v.labels = mergeLabels(d.labels, c.labels) /\ v.kind = Fold(Lowercase, c.kind)
      /\ v.port = (IF Fold(Lowercase, c.kind).text = "dns" /\ c.port = 0 THEN 53 ELSE c.port)
      /\ v.min = c.min
      /\ DOMAIN v = DOMAIN c /\ "min" \in DOMAIN v
    BY DEF Completed, IsCheck
<1>2. v.statuses = IF v.kind.text \in {"http", "https"} /\ c.statuses = {} THEN {200}
                   ELSE c.statuses
    BY DEF Completed, IsCheck
<1> HIDE DEF v
<1>3. v.kind.text \in {"http", "https"} => v.statuses # {}
    BY <1>2
<1> QED
    BY <1>1, <1>3 DEF v

\* The configuration as decoded: the same checks in the same places.
LEMMA DecodedConfig ==
    ASSUME NEW c, IsConfig(c, Written)
    PROVE  LET d == Decoded(c) IN
           /\ d.defaults.min = c.defaults.min /\ c.defaults.min \in Int
           /\ d.defaults.labels = c.defaults.labels
           /\ DOMAIN d.groups = DOMAIN c.groups
           /\ \A g \in DOMAIN c.groups :
                 /\ DOMAIN d.groups[g].checks = DOMAIN c.groups[g].checks
                 /\ \A i \in DOMAIN c.groups[g].checks :
                       d.groups[g].checks[i] = DecodedTimes(c.groups[g].checks[i])
<1> DEFINE d == Decoded(c)
<1>1. d.groups = [g \in DOMAIN c.groups |-> DecodedGroup(c.groups[g])]
    BY DEF Decoded, IsConfig
<1>2. d.defaults = DecodedTimes(c.defaults)
    BY DEF Decoded, IsConfig
<1>3. /\ d.defaults.min = c.defaults.min /\ c.defaults.min \in Int
      /\ d.defaults.labels = c.defaults.labels
    BY <1>2 DEF DecodedTimes, IsConfig, IsDefaults
<1>4. ASSUME NEW g \in DOMAIN c.groups
      PROVE  d.groups[g].checks =
                 [i \in DOMAIN c.groups[g].checks |-> DecodedTimes(c.groups[g].checks[i])]
    <2>1. "checks" \in DOMAIN c.groups[g]
        BY DEF IsConfig, IsGroup
    <2> QED
        BY <1>1, <2>1 DEF DecodedGroup
<1> QED
    BY <1>1, <1>3, <1>4

\* The configuration as completed, too.
LEMMA ValidatedConfig ==
    ASSUME NEW c, IsConfig(c, Written)
    PROVE  LET v == Validated(Decoded(c)) IN
           /\ v.defaults.min = c.defaults.min
           /\ IsGrouping(c.groups) /\ IsGrouping(v.groups)
           /\ Order(v.groups) = Order(c.groups)
           /\ \A p \in Positions(c.groups) :
                 /\ p \in Positions(v.groups)
                 /\ IsCheck(CheckAt(c.groups, p), Written)
                 /\ p \in Positions(Decoded(c).groups)
                 /\ CheckAt(Decoded(c).groups, p) = DecodedTimes(CheckAt(c.groups, p))
                 /\ \E group : CheckAt(v.groups, p) =
                        Completed(ValidatedDefaults(Decoded(c).defaults), group,
                                  DecodedTimes(CheckAt(c.groups, p)))
<1> DEFINE d == Decoded(c)
           v == Validated(d)
           defaults == ValidatedDefaults(d.defaults)
<1>1. /\ d.defaults.min = c.defaults.min /\ c.defaults.min \in Int
      /\ DOMAIN d.groups = DOMAIN c.groups
      /\ \A g \in DOMAIN c.groups :
            /\ DOMAIN d.groups[g].checks = DOMAIN c.groups[g].checks
            /\ \A i \in DOMAIN c.groups[g].checks :
                  d.groups[g].checks[i] = DecodedTimes(c.groups[g].checks[i])
    BY DecodedConfig
<1>2. /\ v.defaults = defaults
      /\ v.groups = [g \in DOMAIN d.groups |-> ValidatedGroup(defaults, d.groups[g])]
    BY DEF Validated
<1>3. defaults.min = d.defaults.min
    BY DEF ValidatedDefaults
<1> HIDE DEF d, v, defaults
<1>4. ASSUME NEW g \in DOMAIN c.groups
      PROVE  v.groups[g].checks = [i \in DOMAIN c.groups[g].checks |->
                 Completed(defaults, Trim(d.groups[g].name), DecodedTimes(c.groups[g].checks[i]))]
    BY <1>1, <1>2 DEF ValidatedGroup
<1>5. DOMAIN v.groups = DOMAIN c.groups
    BY <1>1, <1>2
<1>6. IsGrouping(c.groups)
    BY DEF IsConfig, IsGroup, IsGrouping
<1>7. IsGrouping(v.groups)
    <2>1. Len(c.groups) \in Nat /\ DOMAIN c.groups = 1 .. Len(c.groups)
        BY <1>6, ListFacts DEF IsGrouping
    <2>2. v.groups = [g \in 1 .. Len(c.groups) |-> v.groups[g]]
        BY <1>1, <1>2, <2>1
    <2>3. IsList(v.groups)
        BY <2>1, <2>2, FunctionIsList
    <2>4. ASSUME NEW g \in DOMAIN c.groups PROVE IsList(v.groups[g].checks)
        <3> DEFINE s == v.groups[g].checks
                   n == Len(c.groups[g].checks)
        <3>1. n \in Nat /\ DOMAIN c.groups[g].checks = 1 .. n
            BY <1>6, ListFacts DEF IsGrouping
        <3>2. s = [i \in 1 .. n |-> s[i]]
            BY <1>4, <3>1
        <3> HIDE DEF s, n
        <3>3. IsList(s)
            BY <3>1, <3>2, FunctionIsList
        <3> QED
            BY <3>3 DEF s
    <2> QED
        BY <1>5, <2>3, <2>4 DEF IsGrouping
<1>8. Places(v.groups) = Places(c.groups)
    BY <1>4, <1>5 DEF Places
<1>9. ASSUME NEW p \in Positions(c.groups)
      PROVE  /\ p \in Positions(v.groups) /\ p \in Positions(d.groups)
             /\ IsCheck(CheckAt(c.groups, p), Written)
             /\ CheckAt(d.groups, p) = DecodedTimes(CheckAt(c.groups, p))
             /\ CheckAt(v.groups, p) =
                    Completed(defaults, Trim(d.groups[p[1]].name),
                              DecodedTimes(CheckAt(c.groups, p)))
    <2>1. PICK g \in DOMAIN c.groups : p \in {g} \X DOMAIN c.groups[g].checks
        BY DEF Positions
    <2>2. p = <<g, p[2]>> /\ p[1] = g /\ p[2] \in DOMAIN c.groups[g].checks
        BY <2>1
    <2>3. p \in Positions(v.groups) /\ p \in Positions(d.groups)
        <3>1. DOMAIN v.groups[g].checks = DOMAIN c.groups[g].checks
            BY <1>4
        <3> QED
            BY <1>1, <1>5, <2>2, <3>1 DEF Positions
    <2>4. IsCheck(CheckAt(c.groups, p), Written)
        BY <2>2 DEF IsConfig, IsGroup, CheckAt
    <2>5. CheckAt(d.groups, p) = DecodedTimes(CheckAt(c.groups, p))
        BY <1>1, <2>2 DEF CheckAt
    <2>6. CheckAt(v.groups, p) =
              Completed(defaults, Trim(d.groups[p[1]].name), DecodedTimes(CheckAt(c.groups, p)))
        BY <1>4, <2>2 DEF CheckAt
    <2> QED
        BY <2>3, <2>4, <2>5, <2>6
<1>10. v.defaults.min = c.defaults.min /\ Order(v.groups) = Order(c.groups)
    BY <1>1, <1>2, <1>3, <1>8 DEF Order
<1> QED
    BY <1>6, <1>7, <1>9, <1>10, Zenon DEF d, v, defaults

-----------------------------------------------------------------------------
(* Labels. *)

\* The values that labels written in a file give to a key: one, or none.
Given(labels, key) == {Trim(labels[k]) : k \in {m \in DOMAIN labels : m.text = key}}

\* To normalize labels is to trim the value of each key, which has one.
LEMMA Normalized ==
    ASSUME NEW labels, IsLabels(labels), LabelKeysOK(labels), NEW key
    PROVE  IF key \in DOMAIN normalizeLabels(labels)
           THEN Given(labels, key) = {normalizeLabels(labels)[key]}
           ELSE Given(labels, key) = {}
<1>1. CASE key \in {k.text : k \in DOMAIN labels}
    <2> DEFINE one == CHOOSE k \in DOMAIN labels : k.text = key
    <2>1. one \in DOMAIN labels /\ one.text = key
        BY <1>1
    <2>2. normalizeLabels(labels)[key] = Trim(labels[one])
        BY <1>1 DEF normalizeLabels
    <2> HIDE DEF one
    <2>3. ASSUME NEW k \in DOMAIN labels, k.text = key PROVE k = one
        <3>1. k \in Text /\ one \in Text
            BY <2>1 DEF IsLabels
        <3>2. Trim(k) = Trim(one)
            BY <2>1, <2>3, <3>1, TrimmedByText
        <3> QED
            BY <2>1, <3>2 DEF LabelKeysOK
    <2>4. {m \in DOMAIN labels : m.text = key} = {one}
        BY <2>1, <2>3
    <2>5. Given(labels, key) = {Trim(labels[one])}
        BY <2>4 DEF Given
    <2> QED
        BY <1>1, <2>2, <2>5 DEF normalizeLabels
<1>2. CASE key \notin {k.text : k \in DOMAIN labels}
    <2>1. {m \in DOMAIN labels : m.text = key} = {}
        BY <1>2
    <2>2. Given(labels, key) = {}
        BY <2>1 DEF Given
    <2> QED
        BY <1>2, <2>2 DEF normalizeLabels
<1> QED
    BY <1>1, <1>2

NoText == [text |-> "", pad |-> FALSE]
Else(first, second) == IF first # {} THEN first ELSE second

\* The labels of a check are on top of those of the defaults.
LEMMA Merged ==
    ASSUME NEW d, IsLabels(d), LabelKeysOK(d), NEW labels, IsLabels(labels), LabelKeysOK(labels),
           NEW key
    PROVE  LET merged == mergeLabels(normalizeLabels(d), labels) IN
           Else(Given(labels, key), Else(Given(d, key), {NoText})) =
               {IF key \in DOMAIN merged THEN merged[key] ELSE NoText}
<1> DEFINE a == normalizeLabels(labels)
           b == normalizeLabels(d)
           merged == mergeLabels(b, labels)
<1>1. DOMAIN merged = DOMAIN a \cup DOMAIN b
    BY DEF mergeLabels, Over
<1>2. key \in DOMAIN merged => merged[key] = IF key \in DOMAIN a THEN a[key] ELSE b[key]
    BY DEF mergeLabels, Over
<1> HIDE DEF merged, a, b
<1>3. IF key \in DOMAIN a THEN Given(labels, key) = {a[key]} ELSE Given(labels, key) = {}
    BY Normalized DEF a
<1>4. IF key \in DOMAIN b THEN Given(d, key) = {b[key]} ELSE Given(d, key) = {}
    BY Normalized DEF b
<1>5. Else(Given(labels, key), Else(Given(d, key), {NoText})) =
          {IF key \in DOMAIN merged THEN merged[key] ELSE NoText}
    BY <1>1, <1>2, <1>3, <1>4 DEF Else
<1> QED
    BY <1>5 DEF merged, b

\* A series tells the id of its check, and its labels if they hide none of the
\* exporter's own.
LEMMA LabelValues ==
    ASSUME NEW c
    PROVE  /\ labelValues(c)["check_id"] = c.id
           /\ \A key \in keys \ baseLabels :
                 labelValues(c)[key] = IF key \in DOMAIN c.labels THEN c.labels[key] ELSE NoText
<1>1. labelValues(c)["check_id"] = c.id
    BY DEF labelValues, Over
<1>2. ASSUME NEW key \in keys \ baseLabels
      PROVE  labelValues(c)[key] = IF key \in DOMAIN c.labels THEN c.labels[key] ELSE NoText
    BY DEF labelValues, Over, baseLabels, NoText
<1> QED
    BY <1>1, <1>2

-----------------------------------------------------------------------------
(* conmon. *)

\* A check in the list, from the place it has in the file.
LEMMA ListedCheck ==
    ASSUME file \in Files, cfg = Validated(Decoded(file.config)),
           NEW i \in DOMAIN AllChecks(cfg.groups)
    PROVE  LET p == Order(file.config.groups)[i] IN
           /\ p \in Positions(file.config.groups) /\ p \in Positions(cfg.groups)
           /\ p \in Positions(Decoded(file.config).groups)
           /\ AllChecks(file.config.groups)[i] = CheckAt(file.config.groups, p)
           /\ AllChecks(cfg.groups)[i] = CheckAt(cfg.groups, p)
           /\ \A j \in DOMAIN AllChecks(cfg.groups) : Order(file.config.groups)[j] = p => i = j
<1> DEFINE c == file.config
           order == Order(c.groups)
<1>1. IsConfig(c, Written)
    BY ConfigAssumption
<1>2. /\ IsGrouping(c.groups) /\ IsGrouping(cfg.groups) /\ Order(cfg.groups) = order
      /\ \A p \in Positions(c.groups) :
            p \in Positions(cfg.groups) /\ p \in Positions(Decoded(c).groups)
    BY <1>1, ValidatedConfig
<1>3. /\ DOMAIN AllChecks(cfg.groups) = DOMAIN order
      /\ \A j \in DOMAIN order : AllChecks(cfg.groups)[j] = CheckAt(cfg.groups, order[j])
    BY <1>2, AllChecksByPlace
<1>4. /\ \A j \in DOMAIN order : order[j] \in Positions(c.groups)
      /\ \A j, k \in DOMAIN order : order[j] = order[k] => j = k
      /\ \A j \in DOMAIN order : AllChecks(c.groups)[j] = CheckAt(c.groups, order[j])
    BY <1>2, AllChecksByPlace
<1> HIDE DEF c, order
<1> QED
    BY <1>2, <1>3, <1>4 DEF c, order

\* What it is made of.
LEMMA CompletedCheck ==
    ASSUME file \in Files, cfg = Validated(Decoded(file.config)),
           NEW p \in Positions(file.config.groups)
    PROVE  LET raw == CheckAt(file.config.groups, p)
               v   == CheckAt(cfg.groups, p) IN
           /\ IsCheck(raw, Written)
           /\ CheckAt(Decoded(file.config).groups, p).labels = raw.labels
           /\ v.labels = mergeLabels(normalizeLabels(file.config.defaults.labels), raw.labels)
           /\ v.port \in Int /\ v.min \in Int /\ "min" \in DOMAIN v
           /\ v.kind.text \in {"http", "https"} => v.statuses # {}
<1> DEFINE c   == file.config
           d   == Decoded(c).defaults
           raw == CheckAt(c.groups, p)
           v   == CheckAt(cfg.groups, p)
           e   == DecodedTimes(raw)
<1>1. IsConfig(c, Written)
    BY ConfigAssumption
<1>2. /\ IsCheck(raw, Written) /\ CheckAt(Decoded(c).groups, p) = e
      /\ \E group : v = Completed(ValidatedDefaults(d), group, e)
    BY <1>1, ValidatedConfig
<1>3. IsCheck(e, Int) /\ e.labels = raw.labels
    BY <1>2, DecodedTimesFields
<1>4. ValidatedDefaults(d).labels = normalizeLabels(c.defaults.labels)
    <2>1. d = DecodedTimes(c.defaults)
        BY <1>1 DEF Decoded, IsConfig
    <2>2. d.labels = c.defaults.labels /\ "labels" \in DOMAIN d
        BY <1>1, <2>1 DEF DecodedTimes, IsConfig, IsDefaults
    <2> QED
        BY <2>2 DEF ValidatedDefaults
<1> HIDE DEF d, raw, v, e, c
<1>5. PICK group : v = Completed(ValidatedDefaults(d), group, e)
    BY <1>2
<1>6. /\ v.labels = mergeLabels(ValidatedDefaults(d).labels, e.labels)
      /\ v.port = (IF Fold(Lowercase, e.kind).text = "dns" /\ e.port = 0 THEN 53 ELSE e.port)
      /\ v.kind.text \in {"http", "https"} => v.statuses # {}
      /\ v.min = e.min /\ "min" \in DOMAIN v
    BY <1>3, <1>5, CompletedFields
<1>7. e.port \in Int /\ e.min \in Int
    BY <1>3 DEF IsCheck
<1> QED
    BY <1>2, <1>3, <1>4, <1>6, <1>7 DEF c, d, raw, v, e

\* What runtimeChecks adds to a check leaves everything else as it is.
LEMMA RuntimeFields ==
    ASSUME NEW c, "min" \in DOMAIN c
    PROVE  LET r == RuntimeCheck(c) IN
           /\ r.min = (IF c.kind.text = "tls" /\ c.min = 0 THEN cfg.defaults.min ELSE c.min)
           /\ r.id = c.id /\ r.labels = c.labels /\ r.kind = c.kind /\ r.host = c.host
           /\ r.port = c.port /\ r.scheme = c.scheme /\ r.statuses = c.statuses
           /\ r.recordType = c.recordType
           /\ r.interval = c.interval /\ r.timeout = c.timeout
    BY DEF RuntimeCheck

\* What each stage has made of the file is inductive.
LEMMA Inductive ==
    /\ Init => IInv
    /\ IInv /\ [Next]_vars => IInv'
<1>1. Init => IInv
    BY DEF Init, IInv
<1>2. ASSUME IInv, Decode \/ Validate PROVE IInv'
    BY <1>2 DEF IInv, Decode, Validate, Reject
<1>3. ASSUME IInv, runtimeChecks PROVE IInv'
    BY <1>3 DEF IInv, runtimeChecks, Reject, RuntimeCheck
<1>4. ASSUME IInv, NewExporter PROVE IInv'
    <2>1. CASE Reject
        BY <1>4, <2>1 DEF IInv, NewExporter, Reject
    <2>2. CASE keys' = collectLabelKeys /\ stage' = "ready" /\ collectLabelKeys \cap baseLabels = {}
                 /\ UNCHANGED <<file, cfg, checks, series>>
        <3>1. collectLabelKeys' = collectLabelKeys /\ DOMAIN series = {}
            BY <1>4, <2>2 DEF IInv, NewExporter, collectLabelKeys
        <3>2. \A c : RuntimeCheck(c)' = RuntimeCheck(c)
            BY <2>2 DEF RuntimeCheck
        <3> QED
            BY <1>4, <2>2, <3>1, <3>2 DEF IInv, NewExporter
    <2> QED
        BY <1>4, <2>1, <2>2 DEF NewExporter
<1>5. ASSUME IInv, NEW i \in DOMAIN checks, Record(i) PROVE IInv'
    <2>1. UNCHANGED <<file, stage, cfg, checks, keys>> /\ stage = "ready"
        BY <1>5 DEF Record
    <2>2. collectLabelKeys' = collectLabelKeys
        BY <2>1 DEF collectLabelKeys
    <2>3. \A j \in DOMAIN checks : labelValues(checks[j])' = labelValues(checks[j])
        BY <2>1 DEF labelValues
    <2>4. DOMAIN series' = DOMAIN series \cup {i}
        BY <1>5 DEF Record
    <2>5. DOMAIN series' \subseteq DOMAIN checks
        BY <1>5, <2>1, <2>4 DEF IInv
    <2>6. \A j \in DOMAIN series' : series'[j] = labelValues(checks[j])
        BY <1>5, <2>4 DEF IInv, Record
    <2>7. AllChecks(cfg.groups)' = AllChecks(cfg.groups)
        BY <2>1
    <2>8. \A c : RuntimeCheck(c)' = RuntimeCheck(c)
        BY <2>1 DEF RuntimeCheck
    <2> QED
        BY <1>5, <2>1, <2>2, <2>3, <2>5, <2>6, <2>7, <2>8 DEF IInv
<1>6. ASSUME IInv, UNCHANGED vars PROVE IInv'
    <2>1. UNCHANGED <<file, stage, cfg, checks, keys, series>>
        BY <1>6 DEF vars
    <2>2. collectLabelKeys' = collectLabelKeys
        BY <2>1 DEF collectLabelKeys
    <2>3. \A c : RuntimeCheck(c)' = RuntimeCheck(c)
        BY <2>1 DEF RuntimeCheck
    <2>4. \A c : labelValues(c)' = labelValues(c)
        BY <2>1 DEF labelValues
    <2> QED
        BY <1>6, <2>1, <2>2, <2>3, <2>4 DEF IInv
<1> QED
    BY <1>1, <1>2, <1>3, <1>4, <1>5, <1>6 DEF Next

\* The strengthening holds in every behaviour.
THEOREM Invariance == Spec => []IInv
    BY Inductive, PTL DEF Spec

\* A check that passed Validate and runtimeChecks has what it needs, with the
\* days that runtimeChecks fills in.
LEMMA NeedsAreMet ==
    ASSUME NEW v, KindOK(v), RunnableCheck(v), v.port \in Int, v.min \in Int,
           "min" \in DOMAIN v, v.kind.text \in {"http", "https"} => v.statuses # {},
           file.config.defaults.min \in Int, file.config.defaults.min >= 0,
           cfg.defaults.min = file.config.defaults.min
    PROVE  HasWhatItNeeds(RuntimeCheck(v))
<1> DEFINE kind == v.kind.text
           c    == RuntimeCheck(v)
<1>1. /\ c.min = (IF kind = "tls" /\ v.min = 0 THEN cfg.defaults.min ELSE v.min)
      /\ c.kind = v.kind /\ c.host = v.host /\ c.port = v.port /\ c.scheme = v.scheme
      /\ c.statuses = v.statuses /\ c.recordType = v.recordType
      /\ c.interval = v.interval /\ c.timeout = v.timeout
    BY RuntimeFields
<1>2. c.interval > 0 /\ c.timeout > 0 /\ kind \in {"https", "dns", "icmp", "tls"}
    BY <1>1 DEF RunnableCheck, Implemented
<1>3. c.port \in Int /\ MaxPort \in Int
    BY <1>1 DEF MaxPort
<1>4. v.min >= 0 /\ kind = "tls" => c.min > 0 \/ file.config.defaults.min = 0
    BY <1>1
<1>5. \/ kind = "icmp" /\ ~Blank(v.host)
      \/ kind \in {"http", "https"} /\ v.scheme = kind
      \/ kind = "tcp"
      \/ kind = "dns" /\ v.recordType.text \in dnsRecordTypes /\ c.port > 0 /\ c.port <= MaxPort
      \/ kind = "tls" /\ ~Blank(v.host) /\ c.port > 0 /\ c.port <= MaxPort /\ v.min >= 0
    BY <1>1 DEF KindOK, validatePort
<1>6. c.kind.text = kind /\ (kind \in {"http", "https"} => c.statuses # {}) /\ (Blank(c.host) <=> Blank(v.host))
    BY <1>1
<1> HIDE DEF kind, c
<1>7. CASE kind = "https"
    <2>1. c.scheme = "https"
        BY <1>1, <1>5, <1>7
    <2> QED
        BY <1>2, <1>6, <1>7, <2>1 DEF HasWhatItNeeds, c
<1>8. CASE kind = "dns"
    <2>1. c.port \in 1 .. MaxPort /\ c.recordType.text \in dnsRecordTypes
        BY <1>1, <1>3, <1>5, <1>8
    <2> QED
        BY <1>2, <1>6, <1>8, <2>1 DEF HasWhatItNeeds, c
<1>9. CASE kind = "icmp"
    <2>1. ~Blank(c.host)
        BY <1>5, <1>6, <1>9
    <2> QED
        BY <1>2, <1>6, <1>9, <2>1 DEF HasWhatItNeeds, c
<1>10. CASE kind = "tls"
    <2>1. ~Blank(c.host) /\ c.port \in 1 .. MaxPort /\ (c.min > 0 \/ file.config.defaults.min = 0)
        BY <1>3, <1>4, <1>5, <1>6, <1>10
    <2> QED
        BY <1>2, <1>6, <1>10, <2>1 DEF HasWhatItNeeds, c
<1> QED
    BY <1>2, <1>7, <1>8, <1>9, <1>10 DEF c

\* Whatever is configured, the checks that runtimeChecks lets through have what
\* their probes and the scheduler rely on.
THEOREM ChecksAreRunnable == Spec => []Runnable
<1>1. ASSUME IInv PROVE Runnable
    <2> SUFFICES ASSUME stage \in {"checks", "ready"}, NEW i \in DOMAIN checks
                 PROVE  HasWhatItNeeds(checks[i])
        BY DEF Runnable
    <2> DEFINE p == Order(file.config.groups)[i]
               v == CheckAt(cfg.groups, p)
    <2>1. /\ file \in Files /\ cfg = Validated(Decoded(file.config))
          /\ DecodedOK(Decoded(file.config)) /\ CompletedOK(cfg.groups)
        BY <1>1 DEF IInv
    <2>2. /\ i \in DOMAIN AllChecks(cfg.groups)
          /\ checks[i] = RuntimeCheck(AllChecks(cfg.groups)[i])
          /\ RunnableCheck(AllChecks(cfg.groups)[i])
        BY <1>1 DEF IInv
    <2>3. /\ p \in Positions(file.config.groups) /\ p \in Positions(cfg.groups)
          /\ AllChecks(cfg.groups)[i] = v
        BY <2>1, <2>2, ListedCheck
    <2>4. /\ v.port \in Int /\ v.min \in Int /\ "min" \in DOMAIN v
          /\ v.kind.text \in {"http", "https"} => v.statuses # {}
        BY <2>1, <2>3, CompletedCheck
    <2>5. KindOK(v) /\ RunnableCheck(v) /\ checks[i] = RuntimeCheck(v)
        BY <2>1, <2>2, <2>3 DEF CompletedOK
    <2>6. /\ file.config.defaults.min \in Int /\ file.config.defaults.min >= 0
          /\ cfg.defaults.min = file.config.defaults.min
        <3>1. IsConfig(file.config, Written)
            BY <2>1, ConfigAssumption
        <3>2. /\ Decoded(file.config).defaults.min = file.config.defaults.min
              /\ file.config.defaults.min \in Int
            BY <3>1, DecodedConfig
        <3> QED
            BY <2>1, <3>1, <3>2, ValidatedConfig DEF DecodedOK, DefaultsOK
    <2> HIDE DEF p, v
    <2>7. HasWhatItNeeds(RuntimeCheck(v))
        BY <2>4, <2>5, <2>6, NeedsAreMet
    <2> QED
        BY <2>5, <2>7
<1> QED
    BY <1>1, Invariance, PTL

\* No two checks of an accepted configuration record into the same series.
THEOREM SeriesAreDistinct == Spec => []SeriesDistinct
<1>1. ASSUME IInv PROVE SeriesDistinct
    <2> SUFFICES ASSUME NEW i \in DOMAIN series, NEW j \in DOMAIN series, series[i] = series[j]
                 PROVE  i = j
        BY DEF SeriesDistinct
    <2> DEFINE order == Order(file.config.groups)
               Id(k) == CheckAt(cfg.groups, order[k]).id
    <2>1. stage = "ready" /\ DOMAIN series \subseteq DOMAIN checks
        BY <1>1 DEF IInv
    <2>2. file \in Files /\ cfg = Validated(Decoded(file.config)) /\ Unique(cfg.groups)
        BY <1>1, <2>1 DEF IInv, CompletedOK
    <2>3. DOMAIN checks = DOMAIN AllChecks(cfg.groups)
        BY <1>1, <2>1 DEF IInv
    <2>4. ASSUME NEW k \in DOMAIN series
          PROVE  /\ order[k] \in Positions(cfg.groups)
                 /\ \A m \in DOMAIN checks : order[m] = order[k] => k = m
                 /\ series[k]["check_id"] = Id(k)
        <3>1. k \in DOMAIN AllChecks(cfg.groups)
            BY <2>1, <2>3
        <3>2. /\ order[k] \in Positions(file.config.groups) /\ order[k] \in Positions(cfg.groups)
              /\ AllChecks(cfg.groups)[k] = CheckAt(cfg.groups, order[k])
              /\ \A m \in DOMAIN checks : order[m] = order[k] => k = m
            BY <2>2, <2>3, <3>1, ListedCheck
        <3>3. "min" \in DOMAIN CheckAt(cfg.groups, order[k])
            BY <2>2, <3>2, CompletedCheck
        <3>4. checks[k] = RuntimeCheck(CheckAt(cfg.groups, order[k]))
            BY <1>1, <2>1, <3>1, <3>2 DEF IInv
        <3>5. checks[k].id = Id(k)
            BY <3>3, <3>4, RuntimeFields
        <3>6. series[k]["check_id"] = checks[k].id
            BY <1>1, LabelValues DEF IInv
        <3> QED
            BY <3>2, <3>5, <3>6
    <2>5. order[i] = order[j]
        BY <2>2, <2>4 DEF Unique
    <2> QED
        BY <2>1, <2>4, <2>5
<1> QED
    BY <1>1, Invariance, PTL

\* The series of a check has its own labels on top of the defaults, as they are
\* written in the file.
THEOREM LabelsAreAsConfigured == Spec => []LabelsAsConfigured
<1>1. ASSUME IInv PROVE LabelsAsConfigured
    <2> SUFFICES ASSUME NEW i \in DOMAIN series, NEW key \in keys
                 PROVE  {series[i][key]} = Configured(AllChecks(file.config.groups)[i], key)
        BY DEF LabelsAsConfigured
    <2> DEFINE p      == Order(file.config.groups)[i]
               raw    == CheckAt(file.config.groups, p)
               v      == CheckAt(cfg.groups, p)
               d      == file.config.defaults.labels
               merged == mergeLabels(normalizeLabels(d), raw.labels)
    <2>1. stage = "ready" /\ i \in DOMAIN checks /\ keys \cap baseLabels = {}
        BY <1>1 DEF IInv
    <2>2. file \in Files /\ cfg = Validated(Decoded(file.config)) /\ DecodedOK(Decoded(file.config))
        BY <1>1, <2>1 DEF IInv
    <2>3. i \in DOMAIN AllChecks(cfg.groups) /\ checks[i] = RuntimeCheck(AllChecks(cfg.groups)[i])
        BY <1>1, <2>1 DEF IInv
    <2>4. /\ p \in Positions(file.config.groups) /\ p \in Positions(Decoded(file.config).groups)
          /\ AllChecks(file.config.groups)[i] = raw /\ AllChecks(cfg.groups)[i] = v
        BY <2>2, <2>3, ListedCheck
    <2>5. /\ IsCheck(raw, Written) /\ "min" \in DOMAIN v /\ v.labels = merged
          /\ CheckAt(Decoded(file.config).groups, p).labels = raw.labels
        BY <2>2, <2>4, CompletedCheck
    <2>6. checks[i].labels = merged
        BY <2>3, <2>4, <2>5, RuntimeFields
    <2>7. series[i][key] = IF key \in DOMAIN merged THEN merged[key] ELSE NoText
        <3>1. series[i] = labelValues(checks[i])
            BY <1>1 DEF IInv
        <3>2. key \in keys \ baseLabels
            BY <2>1
        <3> QED
            BY <2>6, <3>1, <3>2, LabelValues
    <2>8. IsLabels(raw.labels) /\ LabelKeysOK(raw.labels)
        BY <2>2, <2>4, <2>5 DEF IsCheck, DecodedOK, CheckOK
    <2>9. IsLabels(d) /\ LabelKeysOK(d)
        <3>1. IsConfig(file.config, Written)
            BY <2>2, ConfigAssumption
        <3>2. Decoded(file.config).defaults.labels = d
            BY <3>1, DecodedConfig
        <3> QED
            BY <2>2, <3>1, <3>2 DEF DecodedOK, DefaultsOK, IsConfig, IsDefaults
    <2>10. Configured(raw, key) = Else(Given(raw.labels, key), Else(Given(d, key), {NoText}))
        BY DEF Configured, Else, Given, NoText
    <2> HIDE DEF merged, raw, d
    <2>11. Else(Given(raw.labels, key), Else(Given(d, key), {NoText})) =
               {IF key \in DOMAIN merged THEN merged[key] ELSE NoText}
        BY <2>8, <2>9, Merged DEF merged
    <2> QED
        BY <2>4, <2>7, <2>10, <2>11
<1> QED
    BY <1>1, Invariance, PTL

=============================================================================
