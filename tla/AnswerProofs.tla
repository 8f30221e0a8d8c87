---------------------------- MODULE AnswerProofs ----------------------------
(* Theorems about the programs that answer: what home-mcp's tools say is    *)
(* what their questions brought back, for any hosts, files, repositories,   *)
(* people and tools, and the rewriter of Compose files lets nothing else up.*)
EXTENDS UpdateStatus, PlatformStatus, Exposure, PreviewCompose, SecurityTools,
        SequenceTheorems, FiniteSetTheorems, TLAPS

-----------------------------------------------------------------------------
(* update_status: the includes of the Compose files                        *)

\* The sequence of a finite set has all of its members.
LEMMA SetAsSeq ==
    ASSUME NEW S, IsFiniteSet(S)
    PROVE  SetToSeq(S) \in Seq(S) /\ ToSet(SetToSeq(S)) = S /\ Len(SetToSeq(S)) = Cardinality(S)
<1> DEFINE n == Cardinality(S)
           s == SetToSeq(S)
<1>1. n \in Nat /\ ExistsBijection(1 .. n, S) BY FS_CardinalityType
<1>2. \E f \in [1 .. n -> S] : IsInjective(f) BY <1>1 DEF ExistsBijection, Bijection, Injection
<1>3. s \in [1 .. n -> S] /\ IsInjective(s) BY <1>2 DEF SetToSeq
<1>4. s \in Seq(S) /\ Len(s) = n /\ DOMAIN s = 1 .. n BY <1>1, <1>3, SeqDef, LenProperties
<1>5. s \in Surjection(1 .. n, S)
  <2>1. s \in Injection(1 .. n, S) BY <1>3 DEF Injection
  <2>2. Cardinality(1 .. n) = n BY <1>1, FS_Interval
  <2> QED BY <2>1, <2>2, FS_Injection
<1>6. ToSet(s) = S
  <2>1. ToSet(s) \subseteq S BY <1>3 DEF ToSet
  <2>2. S \subseteq ToSet(s) BY <1>3, <1>5 DEF ToSet, Surjection
  <2> QED BY <2>1, <2>2
<1> QED BY <1>4, <1>6

\* What is asked about includes: files that name files.
FilesFit(f) ==
    /\ f.roots \in Seq(Files) /\ f.include \in [Files -> SUBSET Files]
    /\ f.unreadable \subseteq Files

LEMMA FactsFit == \A f \in Facts : FilesFit(f)
<1> SUFFICES ASSUME NEW f \in Facts PROVE FilesFit(f) OBVIOUS
<1>1. /\ Quiet.roots = <<>> /\ Quiet.include = [g \in Files |-> {}] /\ Quiet.unreadable = {}
  BY DEF Quiet
<1>2. <<>> \in Seq(Files) /\ [g \in Files |-> {}] \in [Files -> SUBSET Files] OBVIOUS
<1>3. SetToSeq(Files) \in Seq(Files) /\ Len(SetToSeq(Files)) = Cardinality(Files)
  BY SetAsSeq, FilesAssumption
<1>4. ASSUME f.include = Quiet.include, f.unreadable = Quiet.unreadable,
             f.roots \in {Quiet.roots, SetToSeq(Files)}
      PROVE  FilesFit(f)
  BY <1>1, <1>2, <1>3, <1>4 DEF FilesFit
<1>5. CASE f \in HostNews
  <2>1. PICK w \in BOOLEAN, x \in SUBSET Sections, h \in Hosts, g \in HostFacts, e \in Eols :
             f = OfHost(w, x, h, g, e)
    BY <1>5 DEF HostNews
  <2> QED BY <1>4, <2>1 DEF OfHost, Quiet
<1>6. CASE f \in RouterNews
  <2>1. PICK w \in BOOLEAN, x \in SUBSET Sections, r \in Routers, g \in RouterFacts, d \in DsmStates :
             f = OfRouter(w, x, r, g, d)
    BY <1>6 DEF RouterNews
  <2> QED BY <1>4, <2>1 DEF OfRouter, Quiet
<1>7. CASE f \in IncludeNews
  <2>1. PICK n \in 1 .. Cardinality(Files), inc \in [Files -> SUBSET Files], bad \in SUBSET Files :
             f = OfIncludes(n, inc, bad)
    BY <1>7 DEF IncludeNews
  <2>2. Cardinality(Files) \in Nat BY FilesAssumption, FS_CardinalityType
  <2>3. SubSeq(SetToSeq(Files), 1, n) \in Seq(Files) BY <1>3, <2>2, SubSeqProperties
  <2>4. f.roots = SubSeq(SetToSeq(Files), 1, n) /\ f.include = inc /\ f.unreadable = bad
    BY <2>1 DEF OfIncludes, Quiet
  <2> QED BY <2>3, <2>4 DEF FilesFit
<1>8. CASE f \in TagNews
  <2>1. PICK x \in Tags \cup {LatestTag}, ts \in SeqOf(Tags \cup {LatestTag}, 2) : f = OfTags(x, ts)
    BY <1>8 DEF TagNews
  <2> QED BY <1>4, <2>1 DEF OfTags, Quiet
<1>9. CASE f \in ImageNews
  <2>1. PICK r \in BOOLEAN, e \in Eols, x \in {LatestTag, FirstRelease} :
             f = OfImage(r, e, x)
    BY <1>9 DEF ImageNews
  <2> QED BY <1>4, <2>1 DEF OfImage, Quiet
<1> QED BY <1>5, <1>6, <1>7, <1>8, <1>9 DEF Facts

\* A file is known when it was read or is in the queue. What is known is reached; the
\* roots are known, and what a readable file that was read includes.
Known == uSeen \cup ToSet(uQueue)
Closed(S) == \A g \in S \ uFacts.unreadable : uFacts.include[g] \subseteq S
Follows ==
    /\ FilesFit(uFacts) /\ uQueue \in Seq(Files) /\ uSeen \subseteq Files
    /\ \A S \in SUBSET Files : ToSet(uFacts.roots) \subseteq S /\ Closed(S) => Known \subseteq S
    /\ ToSet(uFacts.roots) \subseteq Known
    /\ \A g \in uSeen \ uFacts.unreadable : uFacts.include[g] \subseteq Known
    /\ uRefs = uSeen \ uFacts.unreadable
    /\ uUnread = uSeen \cap uFacts.unreadable

UInv ==
    /\ uAt \in {"idle", "images", "done"}
    /\ uAt = "idle" => uQueue = <<>> /\ uSeen = {} /\ uRefs = {} /\ uUnread = {}
    /\ uAt # "idle" => uFacts \in Facts /\ Follows
    /\ uAt = "done" =>
          /\ uQueue = <<>>
          /\ uAnswer = Combine({HostsSection(uFacts), NetworkSection(uFacts), ImagesSection(uFacts)})

\* The members of a sequence whose first is taken, and of one put behind another.
LEMMA MembersOfTail ==
    ASSUME NEW S, NEW s \in Seq(S), s # <<>>
    PROVE  /\ Head(s) \in S /\ Tail(s) \in Seq(S)
           /\ ToSet(s) = {Head(s)} \cup ToSet(Tail(s))
<1>1. Len(s) \in Nat \ {0} /\ DOMAIN s = 1 .. Len(s) BY EmptySeq, LenProperties
<1>2. /\ Head(s) = s[1] /\ Tail(s) \in Seq(S) /\ Len(Tail(s)) = Len(s) - 1
      /\ \A i \in 1 .. Len(s) - 1 : Tail(s)[i] = s[i + 1]
  BY HeadTailProperties
<1>3. DOMAIN Tail(s) = 1 .. Len(s) - 1 BY <1>2, LenProperties
<1>4. ToSet(s) \subseteq {Head(s)} \cup ToSet(Tail(s))
  <2> SUFFICES ASSUME NEW i \in 1 .. Len(s), i # 1 PROVE s[i] \in ToSet(Tail(s)) BY <1>1, <1>2 DEF ToSet
  <2>1. i - 1 \in 1 .. Len(s) - 1 /\ i - 1 + 1 = i BY <1>1
  <2> QED BY <1>2, <1>3, <2>1 DEF ToSet
<1>5. {Head(s)} \cup ToSet(Tail(s)) \subseteq ToSet(s)
  <2>1. Head(s) \in ToSet(s) BY <1>1, <1>2 DEF ToSet
  <2>2. ASSUME NEW i \in 1 .. Len(s) - 1 PROVE Tail(s)[i] \in ToSet(s)
    <3>1. i + 1 \in 1 .. Len(s) BY <1>1
    <3> QED BY <1>1, <1>2, <3>1 DEF ToSet
  <2> QED BY <1>3, <2>1, <2>2 DEF ToSet
<1>6. Head(s) \in S BY <1>1, <1>2, ElementOfSeq
<1> QED BY <1>2, <1>4, <1>5, <1>6

LEMMA MembersOfBoth ==
    ASSUME NEW S, NEW s \in Seq(S), NEW r \in Seq(S)
    PROVE  s \o r \in Seq(S) /\ ToSet(s \o r) = ToSet(s) \cup ToSet(r)
<1>1. /\ s \o r \in Seq(S) /\ DOMAIN s = 1 .. Len(s) /\ DOMAIN r = 1 .. Len(r)
      /\ DOMAIN (s \o r) = 1 .. Len(s) + Len(r) /\ Len(s) \in Nat /\ Len(r) \in Nat
  BY ConcatProperties, LenProperties
<1>2. \A i \in 1 .. Len(s) + Len(r) : (s \o r)[i] = IF i <= Len(s) THEN s[i] ELSE r[i - Len(s)]
  BY ConcatProperties
<1>3. ToSet(s \o r) \subseteq ToSet(s) \cup ToSet(r)
  <2> SUFFICES ASSUME NEW i \in 1 .. Len(s) + Len(r) PROVE (s \o r)[i] \in ToSet(s) \cup ToSet(r)
    BY <1>1 DEF ToSet
  <2>1. CASE i <= Len(s)
    <3>1. i \in 1 .. Len(s) BY <1>1, <2>1
    <3> QED BY <1>1, <1>2, <2>1, <3>1 DEF ToSet
  <2>2. CASE ~(i <= Len(s))
    <3>1. i - Len(s) \in 1 .. Len(r) BY <1>1, <2>2
    <3> QED BY <1>1, <1>2, <2>2, <3>1 DEF ToSet
  <2> QED BY <2>1, <2>2
<1>4. ToSet(s) \subseteq ToSet(s \o r)
  <2> SUFFICES ASSUME NEW i \in 1 .. Len(s) PROVE s[i] \in ToSet(s \o r) BY <1>1 DEF ToSet
  <2>1. i \in 1 .. Len(s) + Len(r) /\ i <= Len(s) BY <1>1
  <2> QED BY <1>1, <1>2, <2>1 DEF ToSet
<1>5. ToSet(r) \subseteq ToSet(s \o r)
  <2> SUFFICES ASSUME NEW i \in 1 .. Len(r) PROVE r[i] \in ToSet(s \o r) BY <1>1 DEF ToSet
  <2>1. /\ Len(s) + i \in 1 .. Len(s) + Len(r) /\ ~(Len(s) + i <= Len(s)) /\ Len(s) + i - Len(s) = i
    BY <1>1
  <2> QED BY <1>1, <1>2, <2>1 DEF ToSet
<1> QED BY <1>1, <1>3, <1>4, <1>5

LEMMA FollowStep == ASSUME UInv, FollowInclude PROVE UInv'
<1> DEFINE file == Head(uQueue)
           new == file \notin uSeen
           read == new /\ file \notin uFacts.unreadable
           more == IF read THEN Included(file) ELSE <<>>
<1>1. /\ uAt = "images" /\ uAt' = "images" /\ uFacts' = uFacts /\ uQueue # <<>>
      /\ uSeen' = uSeen \cup {file} /\ uQueue' = Tail(uQueue) \o more
      /\ uRefs' = (IF read THEN uRefs \cup {file} ELSE uRefs)
      /\ uUnread' = (IF new /\ ~read THEN uUnread \cup {file} ELSE uUnread)
  BY DEF FollowInclude
<1>2. Follows /\ uFacts \in Facts BY <1>1 DEF UInv
<1>3. /\ FilesFit(uFacts) /\ uQueue \in Seq(Files) /\ uSeen \subseteq Files BY <1>2 DEF Follows
<1>4. /\ file \in Files /\ Tail(uQueue) \in Seq(Files)
      /\ ToSet(uQueue) = {file} \cup ToSet(Tail(uQueue))
  BY <1>1, <1>3, MembersOfTail
<1>5. more \in Seq(Files) /\ ToSet(more) = IF read THEN uFacts.include[file] ELSE {}
  <2>1. uFacts.include[file] \subseteq Files BY <1>3, <1>4 DEF FilesFit
  <2>2. IsFiniteSet(uFacts.include[file]) BY <2>1, FilesAssumption, FS_Subset
  <2>3. /\ Included(file) \in Seq(uFacts.include[file])
        /\ ToSet(Included(file)) = uFacts.include[file]
    BY <2>2, SetAsSeq DEF Included
  <2>4. Included(file) \in Seq(Files) BY <2>1, <2>3, SeqMonotonic
  <2>5. <<>> \in Seq(Files) /\ ToSet(<<>>) = {} BY DEF ToSet
  <2> QED BY <2>3, <2>4, <2>5
<1> HIDE DEF file, more
<1>6. /\ uQueue' \in Seq(Files) /\ ToSet(uQueue') = ToSet(Tail(uQueue)) \cup ToSet(more)
  <2>1. uQueue' = Tail(uQueue) \o more /\ Tail(uQueue) \in Seq(Files) /\ more \in Seq(Files)
    BY <1>1, <1>4, <1>5
  <2> DEFINE rest == Tail(uQueue)
  <2> HIDE DEF rest
  <2>2. uQueue' = rest \o more /\ rest \in Seq(Files) /\ more \in Seq(Files) BY <2>1 DEF rest
  <2>3. uQueue' \in Seq(Files) /\ ToSet(uQueue') = ToSet(rest) \cup ToSet(more) BY ONLY <2>2, MembersOfBoth
  <2> QED BY <2>3 DEF rest
<1>7. Known' = Known \cup (IF read THEN uFacts.include[file] ELSE {})
  BY <1>1, <1>4, <1>5, <1>6 DEF Known
<1>8. Follows'
  <2>1. FilesFit(uFacts)' BY <1>1, <1>3 DEF FilesFit
  <2>2. uSeen' \subseteq Files BY <1>1, <1>3, <1>4
  <2>3. ASSUME NEW S \in SUBSET Files, ToSet(uFacts.roots) \subseteq S, Closed(S) PROVE Known' \subseteq S
    <3>1. Known \subseteq S BY <1>2, <2>3 DEF Follows
    <3>2. file \in S BY <1>4, <3>1 DEF Known
    <3>3. read => uFacts.include[file] \subseteq S BY <2>3, <3>2 DEF Closed
    <3> QED BY <1>7, <3>1, <3>3
  <2>4. \A S \in SUBSET Files : (ToSet(uFacts.roots) \subseteq S /\ Closed(S))' => Known' \subseteq S
    BY <1>1, <2>3 DEF Closed
  <2>5. (ToSet(uFacts.roots) \subseteq Known)' BY <1>1, <1>2, <1>7 DEF Follows
  <2>6. \A g \in uSeen' \ uFacts'.unreadable : uFacts'.include[g] \subseteq Known'
    <3> SUFFICES ASSUME NEW g \in uSeen', g \notin uFacts.unreadable PROVE uFacts.include[g] \subseteq Known'
      BY <1>1
    <3>1. CASE g \in uSeen BY <1>2, <1>7, <3>1 DEF Follows
    <3>2. CASE g \notin uSeen BY <1>1, <1>7, <3>2
    <3> QED BY <3>1, <3>2
  <2>7. uRefs' = uSeen' \ uFacts'.unreadable BY <1>1, <1>2 DEF Follows
  <2>8. uUnread' = uSeen' \cap uFacts'.unreadable BY <1>1, <1>2 DEF Follows
  <2> QED BY <1>6, <2>1, <2>2, <2>4, <2>5, <2>6, <2>7, <2>8 DEF Follows
<1> QED BY <1>1, <1>2, <1>8 DEF UInv

LEMMA AskStep == ASSUME UInv, AskUpdates PROVE UInv'
<1>1. /\ uAt' = "images" /\ uFacts' \in Facts /\ uQueue' = uFacts'.roots
      /\ uSeen' = {} /\ uRefs' = {} /\ uUnread' = {}
  BY DEF AskUpdates, UInv
<1>2. FilesFit(uFacts') BY <1>1, FactsFit
<1>3. Known' = ToSet(uFacts'.roots) BY <1>1 DEF Known
<1>4. Follows' BY <1>1, <1>2, <1>3 DEF Follows, FilesFit
<1> QED BY <1>1, <1>4 DEF UInv

LEMMA AnswerStep == ASSUME UInv, AnswerUpdates PROVE UInv'
<1>1. /\ uAt = "images" /\ uAt' = "done" /\ uQueue = <<>> /\ UNCHANGED <<uFacts, uQueue, uSeen, uRefs, uUnread>>
      /\ uAnswer' = Combine({HostsSection(uFacts), NetworkSection(uFacts), ImagesSection(uFacts)})
  BY DEF AnswerUpdates
<1>2. Follows /\ uFacts \in Facts BY <1>1 DEF UInv
<1>3. Follows' BY <1>1, <1>2 DEF Follows, Known, Closed, FilesFit
<1>4. ImagesSection(uFacts)' = ImagesSection(uFacts) BY <1>1 DEF ImagesSection
<1>5. uAnswer' = Combine({HostsSection(uFacts'), NetworkSection(uFacts'), ImagesSection(uFacts)'})
  BY <1>1, <1>4
<1> QED BY <1>1, <1>2, <1>3, <1>5 DEF UInv

LEMMA USteps == ASSUME UInv, [UNext]_uVars PROVE UInv'
<1>1. CASE UNCHANGED uVars
  <2> USE <1>1 DEF uVars
  <2>1. Follows' = Follows BY DEF Follows, Known, Closed, FilesFit
  <2>2. ImagesSection(uFacts)' = ImagesSection(uFacts) BY DEF ImagesSection
  <2> QED BY <2>1, <2>2 DEF UInv
<1>2. CASE AskAgain BY <1>2 DEF AskAgain, UInv
<1> QED BY <1>1, <1>2, AskStep, FollowStep, AnswerStep DEF UNext

LEMMA UInvariant == USpec => []UInv
<1>1. UInit => UInv BY DEF UInit, UInv
<1> QED BY <1>1, USteps, PTL DEF USpec

\* What a combined answer says is what its sections say.
LEMMA Combined ==
    ASSUME NEW S
    PROVE  /\ \A s \in S : /\ s.urgent \subseteq Combine(S).urgent /\ s.other \subseteq Combine(S).other
                           /\ s.unread \subseteq Combine(S).unread
           /\ Combine(S).head = "up to date" => \A s \in S : s.urgent = {} /\ s.other = {}
<1> DEFINE urgent == UNION {s.urgent : s \in S}
           other == UNION {s.other : s \in S}
           unread == UNION {s.unread : s \in S}
<1>1. /\ Combine(S).urgent = urgent /\ Combine(S).other = other
      /\ Combine(S).unread = unread
      /\ Combine(S).head = "up to date" => urgent \cup other = {}
  BY DEF Combine
<1>2. \A s \in S : s.urgent \subseteq urgent OBVIOUS
<1>3. \A s \in S : s.other \subseteq other OBVIOUS
<1>4. \A s \in S : s.unread \subseteq unread OBVIOUS
<1> HIDE DEF urgent, other, unread
<1>5. urgent \cup other = {} => \A s \in S : s.urgent = {} /\ s.other = {} BY <1>2, <1>3
<1> QED BY <1>1, <1>2, <1>3, <1>4, <1>5

\* The answer, section by section.
LEMMA SectionsTold ==
    ASSUME UInv, uAt = "done",
           NEW s \in {HostsSection(uFacts), NetworkSection(uFacts), ImagesSection(uFacts)}
    PROVE  /\ s.urgent \subseteq uAnswer.urgent /\ s.unread \subseteq uAnswer.unread
           /\ uAnswer.head = "up to date" => s.urgent = {} /\ s.other = {}
<1> DEFINE S == {HostsSection(uFacts), NetworkSection(uFacts), ImagesSection(uFacts)}
<1>1. uAnswer = Combine(S) BY DEF UInv
<1>2. s \in S OBVIOUS
<1> HIDE DEF S
<1>3. /\ \A x \in S : /\ x.urgent \subseteq Combine(S).urgent /\ x.other \subseteq Combine(S).other
                      /\ x.unread \subseteq Combine(S).unread
      /\ Combine(S).head = "up to date" => \A x \in S : x.urgent = {} /\ x.other = {}
  BY Combined
<1> QED BY <1>1, <1>2, <1>3

\* The includes are followed to the end, in a chain, shared or in a circle: what an
\* answer was made of is every file that they reach, and the ones that could not be read
\* are named; for any Compose files that include each other in any way.
THEOREM IncludesAreFollowed == USpec => []ImagesFollowed
<1>1. UInv => ImagesFollowed
  <2> SUFFICES ASSUME UInv, uAt = "done" PROVE ImagesFollowed BY DEF ImagesFollowed
  <2>1. Follows /\ uQueue = <<>> BY DEF UInv
  <2>2. Known = uSeen /\ uSeen \in SUBSET Files BY <2>1 DEF Known, ToSet, Follows
  <2>3. ToSet(uFacts.roots) \subseteq uSeen /\ Closed(uSeen) BY <2>1, <2>2 DEF Follows, Closed
  <2>4. Reached = uSeen
    <3>1. Reached \subseteq uSeen BY <2>2, <2>3 DEF Reached, Closed
    <3>2. \A S \in SUBSET Files : ToSet(uFacts.roots) \subseteq S /\ Closed(S) => uSeen \subseteq S
      BY <2>1, <2>2 DEF Follows
    <3>3. uSeen \subseteq Reached BY <2>2, <3>2 DEF Reached, Closed
    <3> QED BY <3>1, <3>3
  <2>5. uRefs = uSeen \ uFacts.unreadable /\ uUnread = uSeen \cap uFacts.unreadable BY <2>1 DEF Follows
  <2>6. ImagesSection(uFacts).unread \subseteq uAnswer.unread BY SectionsTold
  <2>7. uUnread \subseteq uAnswer.unread BY <2>6 DEF ImagesSection
  <2> QED BY <2>4, <2>5, <2>7 DEF ImagesFollowed
<1> QED BY <1>1, UInvariant, PTL

\* What is asked of the hosts and the routers.
DevicesFit(f) ==
    /\ f.failed \subseteq Sections /\ f.osEol \in Eols /\ f.dsm \in DsmStates
    /\ f.host \in [Hosts -> HostFacts] /\ f.router \in [Routers -> RouterFacts]

LEMMA DevicesAreFit == \A f \in Facts : DevicesFit(f)
<1> SUFFICES ASSUME NEW f \in Facts PROVE DevicesFit(f) OBVIOUS
<1>1. QuietHost \in HostFacts /\ QuietRouter \in RouterFacts
  BY DEF QuietHost, QuietRouter, HostFacts, RouterFacts
<1>2. /\ Quiet.failed = {} /\ Quiet.osEol = 181 /\ Quiet.dsm = "2"
      /\ Quiet.host = [h \in Hosts |-> QuietHost] /\ Quiet.router = [r \in Routers |-> QuietRouter]
  BY DEF Quiet
<1>3. DevicesFit(Quiet) BY <1>1, <1>2 DEF DevicesFit, Eols, DsmStates
<1>4. CASE f \in HostNews
  <2>1. PICK w \in BOOLEAN, x \in SUBSET Sections, h \in Hosts, g \in HostFacts, e \in Eols :
             f = OfHost(w, x, h, g, e)
    BY <1>4 DEF HostNews
  <2>2. /\ f.failed = x /\ f.osEol = e /\ f.dsm = Quiet.dsm /\ f.router = Quiet.router
        /\ f.host = [Quiet.host EXCEPT ![h] = g]
    BY <2>1 DEF OfHost, Quiet
  <2> QED BY <1>3, <2>2 DEF DevicesFit
<1>5. CASE f \in RouterNews
  <2>1. PICK w \in BOOLEAN, x \in SUBSET Sections, r \in Routers, g \in RouterFacts, d \in DsmStates :
             f = OfRouter(w, x, r, g, d)
    BY <1>5 DEF RouterNews
  <2>2. /\ f.failed = x /\ f.osEol = Quiet.osEol /\ f.dsm = d /\ f.host = Quiet.host
        /\ f.router = [Quiet.router EXCEPT ![r] = g]
    BY <2>1 DEF OfRouter, Quiet
  <2> QED BY <1>3, <2>2 DEF DevicesFit
<1>6. ASSUME f.failed = Quiet.failed, f.osEol = Quiet.osEol, f.dsm = Quiet.dsm,
             f.host = Quiet.host, f.router = Quiet.router
      PROVE  DevicesFit(f)
  BY <1>3, <1>6 DEF DevicesFit
<1>7. CASE f \in IncludeNews
  <2>1. PICK n \in 1 .. Cardinality(Files), inc \in [Files -> SUBSET Files], bad \in SUBSET Files :
             f = OfIncludes(n, inc, bad)
    BY <1>7 DEF IncludeNews
  <2> QED BY <1>6, <2>1 DEF OfIncludes, Quiet
<1>8. CASE f \in TagNews
  <2>1. PICK x \in Tags \cup {LatestTag}, ts \in SeqOf(Tags \cup {LatestTag}, 2) : f = OfTags(x, ts)
    BY <1>8 DEF TagNews
  <2> QED BY <1>6, <2>1 DEF OfTags, Quiet
<1>9. CASE f \in ImageNews
  <2>1. PICK r \in BOOLEAN, e \in Eols, x \in {LatestTag, FirstRelease} : f = OfImage(r, e, x)
    BY <1>9 DEF ImageNews
  <2> QED BY <1>6, <2>1 DEF OfImage, Quiet
<1> QED BY <1>4, <1>5, <1>7, <1>8, <1>9 DEF Facts

\* A section of hosts with nothing to say, and nothing unread: every host is in order
\* or is not missed.
LEMMA QuietHosts ==
    ASSUME NEW f, DevicesFit(f), HostsSection(f).urgent = {}, HostsSection(f).other = {},
           HostsSection(f).unread = {}
    PROVE  /\ "hosts" \notin f.failed /\ f.osEol = 181
           /\ \A h \in Hosts : f.host[h] = QuietHost \/ (h \in Summer /\ f.winter /\ f.host[h].check = "absent")
<1>1. "hosts" \notin f.failed BY DEF HostsSection
<1>2. /\ HostUrgent(f) = {} /\ HostUnread(f) = {}
      /\ {h \in Hosts \ HostUrgent(f) : f.host[h].check # "absent" /\ f.host[h].pending = "some"} = {}
      /\ EolLine(f.osEol) # "urgent" /\ EolLine(f.osEol) # "other" /\ f.osEol # EolUnknown
  BY <1>1 DEF HostsSection
<1>3. f.osEol = 181 BY <1>2 DEF DevicesFit, Eols, EolLine, EolUnknown
<1>4. ASSUME NEW h \in Hosts, ~(h \in Summer /\ f.winter /\ f.host[h].check = "absent")
      PROVE  f.host[h] = QuietHost
  <2>1. f.host[h] \in HostFacts BY DEF DevicesFit
  <2>2. f.host[h].check = "fresh" BY <1>2, <1>4, <2>1 DEF HostUnread, HostFacts
  <2>3. f.host[h].pending = "none" /\ f.host[h].reboot = FALSE
    BY <1>2, <2>1, <2>2 DEF HostUrgent, HostFacts
  <2> QED BY <2>1, <2>2, <2>3 DEF HostFacts, QuietHost
<1> QED BY <1>1, <1>3, <1>4

\* The same of the network devices.
LEMMA QuietNetwork ==
    ASSUME NEW f, DevicesFit(f), NetworkSection(f).urgent = {}, NetworkSection(f).other = {},
           NetworkSection(f).unread = {}
    PROVE  /\ "network" \notin f.failed /\ f.dsm \in {"2", "3"}
           /\ \A r \in Routers : \/ ~Exceeds(f.router[r].latest, f.router[r].version)
                                 \/ r \in Summer /\ f.winter /\ ~f.router[r].seen
<1> DEFINE seen == {r \in Routers : f.router[r].seen}
           read == {r \in seen : f.router[r].latest # Raised}
           behind == {r \in read : Exceeds(f.router[r].latest, f.router[r].version)}
           urgent == {r \in behind : f.router[r].latest[2] # f.router[r].version[2]}
<1>1. "network" \notin f.failed BY DEF NetworkSection
<1>2. /\ urgent = {} /\ behind \ urgent = {} /\ seen = read
      /\ {r \in Routers \ seen : ~(r \in Summer /\ f.winter)} = {}
      /\ f.dsm \notin {"1", "4", "5", "absent"}
  BY <1>1 DEF NetworkSection
<1>3. f.dsm \in {"2", "3"} BY <1>2 DEF DevicesFit, DsmStates
<1>4. ASSUME NEW r \in Routers, Exceeds(f.router[r].latest, f.router[r].version)
      PROVE  r \in Summer /\ f.winter /\ ~f.router[r].seen
  <2>1. r \notin seen BY <1>2, <1>4
  <2> QED BY <1>2, <2>1
<1> QED BY <1>1, <1>3, <1>4

\* What is behind is told, a host or a router that is missed in its season is said to be
\* unread, and "up to date" with nothing unread is true; for any hosts and routers.
THEOREM UpdatesAreTold == USpec => []UpdatesTold
<1>1. UInv => UpdatesTold
  <2> SUFFICES ASSUME UInv, uAt = "done" PROVE UpdatesTold BY DEF UpdatesTold
  <2>1. DevicesFit(uFacts) BY DevicesAreFit DEF UInv
  <2>2. ASSUME "hosts" \notin uFacts.failed, NEW h \in Hosts
        PROVE  /\ uFacts.host[h].pending = "critical" /\ uFacts.host[h].check # "absent" => h \in uAnswer.urgent
               /\ uFacts.host[h].check # "fresh" /\ (h \notin Summer \/ ~uFacts.winter) => h \in uAnswer.unread
    <3>1. /\ HostUrgent(uFacts) \subseteq uAnswer.urgent /\ HostUnread(uFacts) \subseteq uAnswer.unread
      <4>1. /\ HostUrgent(uFacts) \subseteq HostsSection(uFacts).urgent
            /\ HostUnread(uFacts) \subseteq HostsSection(uFacts).unread
        BY <2>2 DEF HostsSection
      <4> QED BY <4>1, SectionsTold
    <3>2. uFacts.host[h].check \in {"absent", "stale", "fresh"} BY <2>1 DEF DevicesFit, HostFacts
    <3> QED BY <3>1, <3>2 DEF HostUrgent, HostUnread
  <2>3. ASSUME uAnswer.head = "up to date", uAnswer.unread = {}
        PROVE  /\ uFacts.failed = {}
               /\ \A h \in Hosts : \/ uFacts.host[h] = QuietHost
                                   \/ h \in Summer /\ uFacts.winter /\ uFacts.host[h].check = "absent"
               /\ \A r \in Routers : \/ ~Exceeds(uFacts.router[r].latest, uFacts.router[r].version)
                                     \/ r \in Summer /\ uFacts.winter /\ ~uFacts.router[r].seen
               /\ uFacts.dsm \in {"2", "3"} /\ uFacts.osEol = 181
    <3>1. \A s \in {HostsSection(uFacts), NetworkSection(uFacts)} : s.urgent = {} /\ s.other = {} /\ s.unread = {}
      BY <2>3, SectionsTold
    <3>2. "hosts" \notin uFacts.failed /\ "network" \notin uFacts.failed
      BY <2>1, <3>1, QuietHosts, QuietNetwork
    <3>3. uFacts.failed = {} BY <2>1, <3>2 DEF DevicesFit, Sections
    <3> QED BY <2>1, <3>1, <3>3, QuietHosts, QuietNetwork
  <2> QED BY <2>2, <2>3 DEF UpdatesTold
<1> QED BY <1>1, UInvariant, PTL

-----------------------------------------------------------------------------
(* update_status: the newest tag                                            *)

TagsSeen == Tags \cup {LatestTag}

LEMMA TagsAre ==
    ASSUME NEW t \in Tags
    PROVE  t.nums \in Seq(Int) /\ t # LatestTag
<1>1. t.prefix \in {"", "v"} /\ t.nums \in Versions BY DEF Tags
<1>2. Versions \subseteq Seq(Int)
  <2>1. /\ <<1>> \in Seq(Int) /\ <<2>> \in Seq(Int) /\ <<1, 1>> \in Seq(Int)
        /\ <<1, 2>> \in Seq(Int) /\ <<2, 0>> \in Seq(Int)
    OBVIOUS
  <2> QED BY <2>1 DEF Versions
<1>3. LatestTag.prefix = "latest" BY DEF LatestTag
<1> QED BY <1>1, <1>2, <1>3

\* To exceed is a strict order on numbers of one length.
LEMMA ExceedsTwice ==
    ASSUME NEW a \in Seq(Int), NEW b \in Seq(Int), NEW c \in Seq(Int),
           Len(a) = Len(b), Len(b) = Len(c), Exceeds(a, b), Exceeds(b, c)
    PROVE  Exceeds(a, c)
<1>1. PICK i \in 1 .. Len(b) : a[i] > b[i] /\ \A j \in 1 .. i - 1 : a[j] = b[j] BY DEF Exceeds
<1>2. PICK k \in 1 .. Len(c) : b[k] > c[k] /\ \A j \in 1 .. k - 1 : b[j] = c[j] BY DEF Exceeds
<1>3. \A j \in 1 .. Len(c) : a[j] \in Int /\ b[j] \in Int /\ c[j] \in Int
  <2>1. \A j \in 1 .. Len(a) : a[j] \in Int OBVIOUS
  <2>2. \A j \in 1 .. Len(b) : b[j] \in Int OBVIOUS
  <2>3. \A j \in 1 .. Len(c) : c[j] \in Int OBVIOUS
  <2> QED BY <2>1, <2>2, <2>3
<1>4. i \in 1 .. Len(c) /\ i \in Int /\ k \in Int OBVIOUS
<1>5. CASE i < k
  <2>1. a[i] > c[i] BY <1>1, <1>2, <1>3, <1>4, <1>5
  <2>2. \A j \in 1 .. i - 1 : a[j] = c[j] BY <1>1, <1>2, <1>4, <1>5
  <2> QED BY <1>4, <2>1, <2>2 DEF Exceeds
<1>6. CASE i >= k
  <2>1. a[k] > c[k]
    <3>1. CASE i = k BY <1>1, <1>2, <1>3, <1>4, <3>1
    <3>2. CASE i # k BY <1>1, <1>2, <1>3, <1>4, <1>6, <3>2
    <3> QED BY <3>1, <3>2
  <2>2. \A j \in 1 .. k - 1 : a[j] = c[j] BY <1>1, <1>2, <1>4, <1>6
  <2> QED BY <2>1, <2>2 DEF Exceeds
<1> QED BY <1>4, <1>5, <1>6

LEMMA ExceedsNotItself == ASSUME NEW a \in Seq(Int) PROVE ~ Exceeds(a, a)
<1>1. ASSUME NEW i \in 1 .. Len(a), a[i] > a[i] PROVE FALSE
  <2>1. a[i] \in Int OBVIOUS
  <2> QED BY <1>1, <2>1
<1> QED BY <1>1 DEF Exceeds

\* A tag that counts as newer, one step of the search for the newest, and what the
\* search has found among some tags.
Newer(current, t) == t \in Tags /\ SameShape(t, current) /\ Exceeds(t.nums, current.nums)
Better(current, best, t) ==
    IF t # LatestTag /\ SameShape(t, current) /\ Exceeds(t.nums, (IF best = NoTag THEN current ELSE best).nums)
    THEN t ELSE best
NewestOf(current, best, S) ==
    /\ best # NoTag => best \in S /\ Newer(current, best)
    /\ best = NoTag => \A t \in S : ~ Newer(current, t)
    /\ best # NoTag => \A t \in S : Newer(current, t) => ~ Exceeds(t.nums, best.nums)

LEMMA OneTagMore ==
    ASSUME NEW current \in Tags, NEW S \in SUBSET TagsSeen, NEW best, NewestOf(current, best, S),
           NEW t \in TagsSeen
    PROVE  NewestOf(current, Better(current, best, t), S \cup {t})
<1>1. \A x \in Tags : x.nums \in Seq(Int) /\ x # NoTag BY TagsAre DEF NoTag
<1>2. best # NoTag => best \in Tags /\ SameShape(best, current) /\ Exceeds(best.nums, current.nums)
  BY DEF NewestOf, Newer
<1>3. \A x, y, z \in Tags : /\ SameShape(x, current) /\ SameShape(y, current) /\ SameShape(z, current)
                            /\ Exceeds(x.nums, y.nums) /\ Exceeds(y.nums, z.nums)
                            => Exceeds(x.nums, z.nums)
  <2> SUFFICES ASSUME NEW x \in Tags, NEW y \in Tags, NEW z \in Tags,
                      SameShape(x, current), SameShape(y, current), SameShape(z, current),
                      Exceeds(x.nums, y.nums), Exceeds(y.nums, z.nums)
               PROVE  Exceeds(x.nums, z.nums)
    OBVIOUS
  <2>1. Len(x.nums) = Len(y.nums) /\ Len(y.nums) = Len(z.nums) BY DEF SameShape
  <2>2. x.nums \in Seq(Int) /\ y.nums \in Seq(Int) /\ z.nums \in Seq(Int) BY <1>1
  <2> QED BY <2>1, <2>2, ExceedsTwice
<1>4. \A x \in Tags : ~ Exceeds(x.nums, x.nums) BY <1>1, ExceedsNotItself
<1>5. SameShape(current, current) BY DEF SameShape
<1> DEFINE limit == IF best = NoTag THEN current ELSE best
<1>6. limit \in Tags /\ SameShape(limit, current) BY <1>2, <1>5
<1>7. CASE t # LatestTag /\ SameShape(t, current) /\ Exceeds(t.nums, limit.nums)
  <2>1. Better(current, best, t) = t /\ t \in Tags BY <1>7 DEF Better, TagsSeen
  <2>2. Exceeds(t.nums, current.nums)
    <3>1. CASE best = NoTag BY <1>7, <3>1
    <3>2. CASE best # NoTag
      <4>1. Exceeds(t.nums, best.nums) BY <1>7, <3>2
      <4> QED BY <1>2, <1>3, <1>5, <1>7, <2>1, <3>2, <4>1
    <3> QED BY <3>1, <3>2
  <2>3. ASSUME NEW x \in S \cup {t}, Newer(current, x), Exceeds(x.nums, t.nums) PROVE FALSE
    <3>1. x \in Tags /\ SameShape(x, current) /\ Exceeds(x.nums, current.nums) BY <2>3 DEF Newer
    <3>2. x # t BY <1>4, <2>1, <2>3
    <3>3. x \in S BY <3>2
    <3>4. Exceeds(x.nums, limit.nums) BY <1>3, <1>6, <1>7, <2>1, <2>3, <3>1
    <3>5. best # NoTag BY <2>3, <3>3 DEF NewestOf
    <3>6. Exceeds(x.nums, best.nums) BY <3>4, <3>5
    <3> QED BY <2>3, <3>3, <3>5, <3>6 DEF NewestOf
  <2>4. t # NoTag /\ Newer(current, t) BY <1>1, <1>7, <2>1, <2>2 DEF Newer
  <2> QED BY <2>1, <2>3, <2>4 DEF NewestOf
<1>8. CASE ~(t # LatestTag /\ SameShape(t, current) /\ Exceeds(t.nums, limit.nums))
  <2>1. Better(current, best, t) = best BY <1>8 DEF Better
  <2>2. CASE best = NoTag
    <3>1. ~ Newer(current, t) BY <1>1, <1>8, <2>2 DEF Newer, NoTag
    <3> QED BY <2>1, <2>2, <3>1 DEF NewestOf
  <2>3. CASE best # NoTag
    <3>1. Newer(current, t) => ~ Exceeds(t.nums, best.nums) BY <1>1, <1>8, <2>3 DEF Newer, NoTag
    <3> QED BY <2>1, <2>3, <3>1 DEF NewestOf
  <2> QED BY <2>2, <2>3
<1> QED BY <1>7, <1>8

LEMMA LeastPlace == ASSUME NEW T \in SUBSET Nat, T # {}
                     PROVE  \E x \in T : \A y \in T : x <= y
<1> DEFINE R == {ss \in Nat \X Nat : ss[1] < ss[2]}
<1>1. IsWellFoundedOn(R, Nat) BY NatLessThanWellFounded DEF OpToRel
<1>2. \A x, y \in Nat : y < x => <<y, x>> \in R OBVIOUS
<1> HIDE DEF R
<1>3. PICK x \in T : \A y \in T : ~ (<<y, x>> \in R) BY <1>1, WFMin
<1>4. ASSUME NEW y \in T PROVE x <= y
  <2>1. x \in Nat /\ y \in Nat OBVIOUS
  <2>2. ~ (y < x) BY <2>1, <1>2, <1>3, Zenon
  <2> QED BY <2>1, <2>2
<1> QED BY <1>4

\* The last of some places in a sequence, and the places before it.
LEMMA LastPlace ==
    ASSUME NEW n \in Nat, NEW s \in SUBSET (1 .. n + 1), s # {}
    PROVE  Max(s) \in s /\ s \ {Max(s)} \in SUBSET (1 .. n)
<1> DEFINE T == {m \in Nat : n + 1 - m \in s}
<1>1. \A y \in s : y \in Int /\ n + 1 - y \in Nat /\ n + 1 - (n + 1 - y) = y OBVIOUS
<1>2. \A y \in s : n + 1 - y \in T BY <1>1
<1>3. T \in SUBSET Nat /\ T # {} BY <1>2
<1>4. PICK m \in T : \A y \in T : m <= y BY <1>3, LeastPlace
<1> DEFINE x == n + 1 - m
<1>5. x \in s /\ \A y \in s : x >= y
  <2>1. m \in Nat /\ x \in s OBVIOUS
  <2>2. \A y \in s : m <= n + 1 - y BY <1>2, <1>4
  <2> QED BY <1>1, <2>1, <2>2
<1>6. Max(s) \in s /\ \A y \in s : Max(s) >= y BY <1>5 DEF Max
<1>7. ASSUME NEW y \in s \ {Max(s)} PROVE y \in 1 .. n
  <2>1. y \in 1 .. n + 1 /\ Max(s) \in 1 .. n + 1 /\ Max(s) >= y /\ y # Max(s) BY <1>6
  <2> QED BY <2>1
<1> QED BY <1>6, <1>7

\* The search through the places of a sequence, the last of some places last.
Searches(f, current, tags, n) ==
    f = [s \in SUBSET (1 .. n) |->
            IF s = {} THEN NoTag ELSE Better(current, f[s \ {Max(s)}], tags[Max(s)])]

LEMMA SearchExists ==
    ASSUME NEW current, NEW tags, NEW n \in Nat
    PROVE  \E f : Searches(f, current, tags, n)
<1> DEFINE Is(f, k) == Searches(f, current, tags, k)
           Bad == {k \in Nat : ~ \E f : Is(f, k)}
<1>1. \E f : Is(f, 0)
  <2> DEFINE f == [s \in SUBSET (1 .. 0) |-> NoTag]
  <2>1. \A s \in SUBSET (1 .. 0) : s = {} OBVIOUS
  <2>2. Is(f, 0) BY <2>1 DEF Searches
  <2> QED BY <2>2
<1>2. ASSUME NEW k \in Nat, NEW f, Is(f, k) PROVE \E g : Is(g, k + 1)
  <2> DEFINE P == SUBSET (1 .. k)
             P1 == SUBSET (1 .. k + 1)
             g == [s \in P1 |-> IF s = {} THEN NoTag ELSE Better(current, f[s \ {Max(s)}], tags[Max(s)])]
  <2>1. P \subseteq P1 OBVIOUS
  <2>2. \A s \in P1 : s # {} => s \ {Max(s)} \in P BY LastPlace
  <2>3. \A s \in P : f[s] = IF s = {} THEN NoTag ELSE Better(current, f[s \ {Max(s)}], tags[Max(s)])
    BY <1>2 DEF Searches
  <2>4. \A s \in P : g[s] = f[s]
    <3> HIDE DEF P, P1
    <3> QED BY <2>1, <2>3
  <2>5. \A s \in P1 : s # {} => g[s \ {Max(s)}] = f[s \ {Max(s)}] BY <2>2, <2>4
  <2>6. g = [s \in P1 |-> IF s = {} THEN NoTag ELSE Better(current, g[s \ {Max(s)}], tags[Max(s)])]
    <3> HIDE DEF P, P1
    <3> QED BY <2>5
  <2>7. Is(g, k + 1) BY <2>6 DEF Searches
  <2> QED BY <2>7
<1>3. Bad = {}
  <2> SUFFICES ASSUME Bad # {} PROVE FALSE OBVIOUS
  <2>1. PICK k \in Bad : \A m \in Bad : k <= m
    <3>1. Bad \in SUBSET Nat OBVIOUS
    <3> HIDE DEF Bad
    <3> QED BY <3>1, LeastPlace
  <2>2. k \in Nat /\ ~ \E f : Is(f, k) OBVIOUS
  <2> HIDE DEF Is
  <2>3. k # 0 BY <1>1, <2>2
  <2>4. k - 1 \in Nat /\ k - 1 \notin Bad /\ k - 1 + 1 = k BY <2>1, <2>2, <2>3
  <2>5. \E f : Is(f, k - 1) BY <2>4
  <2>6. \E g : Is(g, k - 1 + 1) BY <1>2, <2>4, <2>5
  <2> QED BY <2>2, <2>4, <2>6
<1>4. \E f : Is(f, n)
  <2> HIDE DEF Is
  <2> QED BY <1>3
<1> QED BY <1>4

\* The search finds the newest of any places: those without the last first.
LEMMA SearchFinds ==
    ASSUME NEW current \in Tags, NEW tags \in Seq(TagsSeen), NEW f, Searches(f, current, tags, Len(tags))
    PROVE  \A s \in SUBSET (1 .. Len(tags)) : NewestOf(current, f[s], {tags[i] : i \in s})
<1> DEFINE At(s) == {tags[i] : i \in s}
           Fine(k) == \A s \in SUBSET (1 .. k) : NewestOf(current, f[s], At(s))
           Bad == {k \in 0 .. Len(tags) : ~ Fine(k)}
           P == SUBSET (1 .. Len(tags))
           B(r) == Better(current, f[r \ {Max(r)}], tags[Max(r)])
<1>0. /\ f[{}] = NoTag
      /\ \A s \in P : s # {} => f[s] = B(s)
  <2>1. {} \in P OBVIOUS
  <2>2. f = [s \in P |-> IF s = {} THEN NoTag ELSE B(s)]
    BY DEF Searches
  <2> HIDE DEF P, B
  <2> QED BY <2>1, <2>2
<1>1. Fine(0)
  <2>1. \A s \in SUBSET (1 .. 0) : s = {} /\ At(s) = {} OBVIOUS
  <2>0. f[{}] = NoTag BY <1>0
  <2> HIDE DEF At
  <2>2. NewestOf(current, NoTag, {}) BY DEF NewestOf
  <2> QED BY <2>0, <2>1, <2>2
<1>2. ASSUME NEW k \in Nat, k + 1 <= Len(tags), Fine(k) PROVE Fine(k + 1)
  <2> SUFFICES ASSUME NEW s \in SUBSET (1 .. k + 1) PROVE NewestOf(current, f[s], At(s)) OBVIOUS
  <2>1. CASE s = {} BY <1>2, <2>1
  <2>2. CASE s # {}
    <3> DEFINE last == Max(s)
               rest == s \ {Max(s)}
    <3>1. last \in s /\ rest \in SUBSET (1 .. k) BY <2>2, LastPlace
    <3>2. NewestOf(current, f[rest], At(rest)) BY <1>2, <3>1
    <3>3. s \in SUBSET (1 .. Len(tags)) BY <1>2
    <3>4. f[s] = Better(current, f[rest], tags[last])
      <4>1. s \in P BY <3>3
      <4> HIDE DEF P, B
      <4>2. f[s] = B(s) BY <1>0, <2>2, <4>1
      <4> QED BY <4>2 DEF B
    <3>5. rest \in SUBSET (1 .. Len(tags)) /\ s = rest \cup {last} BY <3>1, <3>3
    <3>6. tags[last] \in TagsSeen /\ At(rest) \in SUBSET TagsSeen
      <4>1. \A i \in 1 .. Len(tags) : tags[i] \in TagsSeen OBVIOUS
      <4>2. last \in 1 .. Len(tags) /\ \A i \in rest : i \in 1 .. Len(tags) BY <3>1, <3>3, <3>5
      <4> HIDE DEF last, rest
      <4> QED BY <4>1, <4>2
    <3>7. At(s) = At(rest) \cup {tags[last]} BY <3>5
    <3> HIDE DEF At, last, rest
    <3> QED BY <3>2, <3>4, <3>6, <3>7, OneTagMore
  <2> QED BY <2>1, <2>2
<1>3. Bad = {}
  <2> SUFFICES ASSUME Bad # {} PROVE FALSE OBVIOUS
  <2>1. PICK k \in Bad : \A m \in Bad : k <= m
    <3>1. Bad \in SUBSET Nat OBVIOUS
    <3> HIDE DEF Bad
    <3> QED BY <3>1, LeastPlace
  <2>2. k \in 0 .. Len(tags) /\ ~ Fine(k) OBVIOUS
  <2> HIDE DEF Fine
  <2>3. k # 0 BY <1>1, <2>2
  <2>4. k - 1 \in Nat /\ k - 1 \in 0 .. Len(tags) /\ k - 1 \notin Bad /\ k - 1 + 1 = k BY <2>1, <2>2, <2>3
  <2>5. Fine(k - 1) BY <2>4
  <2>6. Fine(k - 1 + 1) BY <1>2, <2>2, <2>4, <2>5
  <2> QED BY <2>2, <2>4, <2>6
<1>4. Fine(Len(tags))
  <2>1. Len(tags) \in 0 .. Len(tags) OBVIOUS
  <2> HIDE DEF Fine
  <2> QED BY <1>3, <2>1
<1> QED BY <1>4

\* What the search through any tags returns.
LEMMA NewestIs ==
    ASSUME NEW current \in Tags, current.suffix # "-rc", NEW tags \in Seq(TagsSeen)
    PROVE  NewestOf(current, NewestSameShape(current, tags), ToSet(tags))
<1> DEFINE n == Len(tags)
           search == CHOOSE f : Searches(f, current, tags, n)
<1>1. DOMAIN tags = 1 .. n /\ n \in Nat OBVIOUS
<1>2. NewestSameShape(current, tags) = search[1 .. n]
  <2>1. current # LatestTag BY TagsAre
  <2> QED BY <1>1, <2>1 DEF NewestSameShape, FoldLeft, MapThenFoldSet, Better, Searches
<1>3. \E f : Searches(f, current, tags, n) BY <1>1, SearchExists
<1>4. Searches(search, current, tags, n) BY <1>3
<1> HIDE DEF search
<1>5. NewestOf(current, search[1 .. n], {tags[i] : i \in 1 .. n}) BY <1>4, SearchFinds
<1>6. ToSet(tags) = {tags[i] : i \in 1 .. n} BY <1>1 DEF ToSet
<1> QED BY <1>2, <1>5, <1>6

\* What is asked of the registry.
LEMMA TagsFit == \A f \in Facts : f.tags \in Seq(TagsSeen)
<1> SUFFICES ASSUME NEW f \in Facts PROVE f.tags \in Seq(TagsSeen) OBVIOUS
<1>1. Quiet.tags = <<>> /\ <<>> \in Seq(TagsSeen) BY DEF Quiet
<1>2. ASSUME f.tags = Quiet.tags PROVE f.tags \in Seq(TagsSeen) BY <1>1, <1>2
<1>3. CASE f \in HostNews
  <2>1. PICK w \in BOOLEAN, x \in SUBSET Sections, h \in Hosts, g \in HostFacts, e \in Eols :
             f = OfHost(w, x, h, g, e)
    BY <1>3 DEF HostNews
  <2> QED BY <1>2, <2>1 DEF OfHost, Quiet
<1>4. CASE f \in RouterNews
  <2>1. PICK w \in BOOLEAN, x \in SUBSET Sections, r \in Routers, g \in RouterFacts, d \in DsmStates :
             f = OfRouter(w, x, r, g, d)
    BY <1>4 DEF RouterNews
  <2> QED BY <1>2, <2>1 DEF OfRouter, Quiet
<1>5. CASE f \in IncludeNews
  <2>1. PICK n \in 1 .. Cardinality(Files), inc \in [Files -> SUBSET Files], bad \in SUBSET Files :
             f = OfIncludes(n, inc, bad)
    BY <1>5 DEF IncludeNews
  <2> QED BY <1>2, <2>1 DEF OfIncludes, Quiet
<1>6. CASE f \in TagNews
  <2>1. PICK x \in TagsSeen, ts \in SeqOf(TagsSeen, 2) : f = OfTags(x, ts) BY <1>6 DEF TagNews, TagsSeen
  <2>2. ts \in Seq(TagsSeen)
    <3>1. PICK m \in 0 .. 2 : ts \in [1 .. m -> TagsSeen] BY DEF SeqOf
    <3> QED BY <3>1, SeqDef
  <2> QED BY <2>1, <2>2 DEF OfTags, Quiet
<1>7. CASE f \in ImageNews
  <2>1. PICK r \in BOOLEAN, e \in Eols, x \in {LatestTag, FirstRelease} : f = OfImage(r, e, x)
    BY <1>7 DEF ImageNews
  <2> QED BY <1>2, <2>1 DEF OfImage, Quiet
<1> QED BY <1>3, <1>4, <1>5, <1>6, <1>7 DEF Facts

\* The tag reported as newer is one of the registry's, of the current one's shape and
\* newer than it, no tag of that shape is newer still, and none is reported only when
\* there is none; the search itself finds it among any number of tags (NewestIs).
THEOREM NewestTagIsNewest == USpec => []NewestIsNewest
<1>1. UInv => NewestIsNewest
  <2> SUFFICES ASSUME UInv, uAt = "done", uFacts.tag \in Tags, uFacts.tag.suffix # "-rc"
               PROVE  NewestIsNewest
    BY DEF NewestIsNewest
  <2> DEFINE current == uFacts.tag
             tags == uFacts.tags
             newest == NewestSameShape(current, tags)
             newer == {t \in ToSet(tags) \cap Tags :
                        /\ <<t.prefix, t.suffix>> = <<current.prefix, current.suffix>>
                        /\ Len(t.nums) = Len(current.nums) /\ Exceeds(t.nums, current.nums)}
  <2>1. tags \in Seq(TagsSeen) BY TagsFit DEF UInv
  <2>2. NewestOf(current, newest, ToSet(tags)) BY <2>1, NewestIs
  <2>3. \A t : t \in newer <=> t \in ToSet(tags) /\ Newer(current, t) BY DEF Newer, SameShape
  <2> HIDE DEF newer, newest, current, tags
  <2>4. newest = NoTag <=> newer = {}
    <3>1. newest # NoTag => newest \in newer BY <2>2, <2>3 DEF NewestOf
    <3>2. newest = NoTag => \A t : t \notin newer BY <2>2, <2>3 DEF NewestOf
    <3> QED BY <3>1, <3>2
  <2>5. newest # NoTag => newest \in newer /\ \A t \in newer : ~ Exceeds(t.nums, newest.nums)
    BY <2>2, <2>3 DEF NewestOf
  <2> QED BY <2>4, <2>5 DEF NewestIsNewest, newest, newer, current, tags
<1> QED BY <1>1, UInvariant, PTL

-----------------------------------------------------------------------------
(* The status tools: what waits for an approval, through the cache         *)

Times == Nat \cup {Never}

PTypeOK ==
    /\ pNow \in Nat /\ pReach \subseteq StatusRepos /\ pToken \in Times
    /\ pSaw \in [StatusRepos -> [was : Times, since : Times]]
    /\ pCache \in [StatusRepos -> [at : Times, waits : BOOLEAN]]
    /\ pHealth \in [at : Times, warning : BOOLEAN]

\* What was read was true when it was read: a run that waited then waited at least
\* until then, and one that waits now and did not then has started since.
TrueWhenRead ==
    \A r \in StatusRepos :
        /\ pSaw[r].was <= pNow /\ pSaw[r].since <= pNow /\ pCache[r].at <= pNow
        /\ r \in pWaits => pSaw[r].was = pNow /\ pSaw[r].since # Never
        /\ pCache[r].at # Never /\ pCache[r].waits => pCache[r].at <= pSaw[r].was
        /\ pCache[r].at # Never /\ r \in pWaits /\ ~pCache[r].waits => pCache[r].at <= pSaw[r].since

\* The same of the jobs token.
HealthWhenRead ==
    /\ pHealth.at <= pNow /\ pToken <= pNow
    /\ pHealth.at # Never /\ pToken # Never /\ ~pHealth.warning => pHealth.at <= pToken

PInv == PTypeOK /\ TrueWhenRead /\ HealthWhenRead

\* What is fetched is the cache's if that is fresh, and the truth if not.
LEMMA FetchIsTimely ==
    ASSUME PInv, NEW r \in StatusRepos
    PROVE  /\ r \in pWaits /\ pNow - pSaw[r].since >= CacheTime => Fetch(r).waits
           /\ Fetch(r).waits => pNow - pSaw[r].was <= CacheTime
           /\ Fetch(r) \in [at : Times, waits : BOOLEAN]
           /\ Fetch(r).at # Never /\ Fetch(r).at <= pNow
           /\ Fetch(r).waits => Fetch(r).at <= pSaw[r].was
           /\ r \in pWaits /\ ~Fetch(r).waits => Fetch(r).at <= pSaw[r].since
<1>1. /\ pNow \in Nat /\ pCache[r].at \in Times /\ pSaw[r].was \in Times /\ pSaw[r].since \in Times
      /\ pCache[r] \in [at : Times, waits : BOOLEAN]
  BY DEF PInv, PTypeOK
<1>2. CASE Fresh(r)
  <2>1. Fetch(r) = pCache[r] /\ pCache[r].at # Never /\ pNow - pCache[r].at < CacheTime BY <1>2 DEF Fetch, Fresh
  <2>2. pCache[r].at \in Nat BY <1>1, <2>1 DEF Times
  <2>3. pCache[r].waits => pCache[r].at <= pSaw[r].was BY <2>1 DEF PInv, TrueWhenRead
  <2>4. r \in pWaits /\ ~pCache[r].waits => pCache[r].at <= pSaw[r].since BY <2>1 DEF PInv, TrueWhenRead
  <2>5. pSaw[r].was \in Int /\ pSaw[r].since \in Int BY <1>1 DEF Times, Never
  <2>6. pCache[r].at <= pNow BY DEF PInv, TrueWhenRead
  <2> QED BY <1>1, <2>1, <2>2, <2>3, <2>4, <2>5, <2>6, TimesAssumption
<1>3. CASE ~Fresh(r)
  <2>1. Fetch(r) = [at |-> pNow, waits |-> r \in pWaits] BY <1>3 DEF Fetch
  <2>2. r \in pWaits => pSaw[r].was = pNow BY DEF PInv, TrueWhenRead
  <2>3. pNow # Never /\ pNow \in Times BY <1>1 DEF Never, Times
  <2>4. Fetch(r) \in [at : Times, waits : BOOLEAN] /\ Fetch(r).at = pNow /\ Fetch(r).waits = (r \in pWaits)
    BY <2>1, <2>3
  <2>5. pNow - pNow = 0 /\ 0 <= CacheTime /\ pNow <= pNow BY <1>1, TimesAssumption
  <2> QED BY <1>1, <2>2, <2>3, <2>4, <2>5
<1> QED BY <1>2, <1>3

LEMMA HealthIsTimely ==
    ASSUME PInv
    PROVE  /\ JobsHealth \in [at : Times, warning : BOOLEAN] /\ JobsHealth.at <= pNow
           /\ JobsHealth.at # Never /\ pToken # Never /\ ~JobsHealth.warning => JobsHealth.at <= pToken
           /\ pToken # Never /\ pReach # {} /\ pNow - pToken >= TokenTime => JobsHealth.warning
<1>1. /\ pNow \in Nat /\ pToken \in Times /\ pHealth.at \in Times /\ pHealth \in [at : Times, warning : BOOLEAN]
      /\ pHealth.at <= pNow /\ pToken <= pNow
  BY DEF PInv, PTypeOK, HealthWhenRead
<1>2. CASE pHealth.at # Never /\ pNow - pHealth.at < TokenTime
  <2>1. JobsHealth = pHealth BY <1>2 DEF JobsHealth
  <2>2. pHealth.at \in Nat /\ (pToken # Never => pToken \in Nat) BY <1>1, <1>2 DEF Times
  <2>3. pToken # Never /\ ~pHealth.warning => pHealth.at <= pToken BY <1>2 DEF PInv, HealthWhenRead
  <2>4. pToken # Never /\ ~pHealth.warning => ~(pNow - pToken >= TokenTime)
    BY <1>1, <1>2, <2>2, <2>3, TimesAssumption
  <2> QED BY <1>1, <2>1, <2>3, <2>4
<1>3. CASE ~(pHealth.at # Never /\ pNow - pHealth.at < TokenTime) /\ pReach = {}
  <2>1. JobsHealth = pHealth BY <1>3 DEF JobsHealth
  <2> QED BY <1>1, <1>3, <2>1 DEF PInv, HealthWhenRead
<1>4. CASE ~(pHealth.at # Never /\ pNow - pHealth.at < TokenTime) /\ pReach # {}
  <2>1. JobsHealth = [at |-> pNow, warning |-> pToken # Never] BY <1>4 DEF JobsHealth
  <2>2. pNow \in Times /\ pNow <= pNow BY <1>1 DEF Times
  <2> QED BY <2>1, <2>2
<1> QED BY <1>2, <1>3, <1>4

LEMMA FetchedStep == ASSUME PInv, pCache' = Fetched, UNCHANGED <<pNow, pWaits, pSaw, pReach, pToken>>
                     PROVE  TrueWhenRead' /\ pCache' \in [StatusRepos -> [at : Times, waits : BOOLEAN]]
<1>1. ASSUME NEW r \in StatusRepos
      PROVE  /\ pCache'[r] \in {pCache[r], Fetch(r)}
             /\ pCache'[r] \in [at : Times, waits : BOOLEAN] /\ pCache'[r].at <= pNow
             /\ pCache'[r].at # Never /\ pCache'[r].waits => pCache'[r].at <= pSaw[r].was
             /\ pCache'[r].at # Never /\ r \in pWaits /\ ~pCache'[r].waits => pCache'[r].at <= pSaw[r].since
  <2>1. pCache'[r] \in {pCache[r], Fetch(r)} BY DEF Fetched
  <2>2. CASE pCache'[r] = pCache[r] BY <2>2 DEF PInv, PTypeOK, TrueWhenRead
  <2>3. CASE pCache'[r] = Fetch(r) BY <2>3, FetchIsTimely
  <2> QED BY <2>1, <2>2, <2>3
<1>2. pCache' = [r \in StatusRepos |-> pCache'[r]] BY DEF Fetched
<1>3. pCache' \in [StatusRepos -> [at : Times, waits : BOOLEAN]] BY <1>1, <1>2
<1> QED BY <1>1, <1>3 DEF PInv, TrueWhenRead

\* The world moves: a run begins to wait, or gets its approval, or time passes.
LEMMA WorldStep == ASSUME PInv, World PROVE PInv'
<1> USE DEF PInv, PTypeOK
<1>1. UNCHANGED <<pCache, pHealth>> BY DEF World
<1>2. pNow \in Times /\ Never <= pNow /\ Never \notin Nat /\ Never \in Int BY DEF Times, Never
<1>3. \A r \in StatusRepos : /\ pSaw[r] \in [was : Times, since : Times]
                             /\ pSaw[r].was \in Int /\ pSaw[r].since \in Int /\ pCache[r].at \in Int
  <2>1. Times \subseteq Int BY DEF Times, Never
  <2> QED BY <2>1
<1>4. ASSUME NEW r \in StatusRepos \ pWaits, pWaits' = pWaits \cup {r},
             pSaw' = [pSaw EXCEPT ![r] = [was |-> pNow, since |-> pNow]], UNCHANGED <<pNow, pReach, pToken>>
      PROVE  PInv'
  <2>1. PTypeOK' BY <1>1, <1>2, <1>4
  <2>2. \A q \in StatusRepos : pSaw'[q] = IF q = r THEN [was |-> pNow, since |-> pNow] ELSE pSaw[q] BY <1>4
  <2>3. TrueWhenRead'
    <3> SUFFICES ASSUME NEW q \in StatusRepos
                 PROVE  /\ pSaw'[q].was <= pNow /\ pSaw'[q].since <= pNow /\ pCache[q].at <= pNow
                        /\ q \in pWaits' => pSaw'[q].was = pNow /\ pSaw'[q].since # Never
                        /\ pCache[q].at # Never /\ pCache[q].waits => pCache[q].at <= pSaw'[q].was
                        /\ pCache[q].at # Never /\ q \in pWaits' /\ ~pCache[q].waits => pCache[q].at <= pSaw'[q].since
      BY <1>1, <1>4 DEF TrueWhenRead
    <3>1. CASE q = r
      <4>1. pSaw'[q].was = pNow /\ pSaw'[q].since = pNow BY <2>2, <3>1
      <4>2. pCache[q].at <= pNow BY DEF TrueWhenRead
      <4> QED BY <1>2, <4>1, <4>2
    <3>2. CASE q # r
      <4>1. pSaw'[q] = pSaw[q] /\ (q \in pWaits' <=> q \in pWaits) BY <1>4, <2>2, <3>2
      <4> QED BY <4>1 DEF TrueWhenRead
    <3> QED BY <3>1, <3>2
  <2> QED BY <1>1, <1>4, <2>1, <2>3 DEF HealthWhenRead
<1>5. ASSUME NEW r \in pWaits, pWaits' = pWaits \ {r}, UNCHANGED <<pNow, pSaw, pReach, pToken>> PROVE PInv'
  BY <1>1, <1>5 DEF TrueWhenRead, HealthWhenRead
<1>6. ASSUME pReach' \in SUBSET StatusRepos, UNCHANGED <<pNow, pWaits, pSaw, pToken>> PROVE PInv'
  BY <1>1, <1>6 DEF TrueWhenRead, HealthWhenRead
<1>7. ASSUME pToken' = (IF pToken = Never THEN pNow ELSE Never), UNCHANGED <<pNow, pWaits, pSaw, pReach>>
      PROVE  PInv'
  <2>1. pToken' \in Times /\ pToken' <= pNow /\ (pToken' # Never => pToken' = pNow)
    BY <1>2, <1>7 DEF Times
  <2>2. HealthWhenRead' BY <1>1, <1>7, <2>1 DEF HealthWhenRead
  <2>3. TrueWhenRead' BY <1>1, <1>7 DEF TrueWhenRead
  <2> QED BY <1>1, <1>7, <2>1, <2>2, <2>3
<1>8. ASSUME pNow' = pNow + 1, UNCHANGED <<pWaits, pReach, pToken>>,
             pSaw' = [r \in StatusRepos |-> IF r \in pWaits THEN [pSaw[r] EXCEPT !.was = pNow + 1] ELSE pSaw[r]]
      PROVE  PInv'
  <2>1. pNow + 1 \in Nat /\ pNow + 1 \in Times BY DEF Times
  <2>2. \A q \in StatusRepos :
          /\ pSaw'[q] \in [was : Times, since : Times] /\ pSaw'[q].since = pSaw[q].since
          /\ q \in pWaits => pSaw'[q].was = pNow + 1
          /\ q \notin pWaits => pSaw'[q].was = pSaw[q].was
    BY <1>3, <1>8, <2>1
  <2>3. PTypeOK'
    <3>1. pSaw' \in [StatusRepos -> [was : Times, since : Times]] BY <1>8, <2>2
    <3> QED BY <1>1, <1>8, <2>1, <3>1
  <2>4. TrueWhenRead'
    <3> SUFFICES ASSUME NEW q \in StatusRepos
                 PROVE  /\ pSaw'[q].was <= pNow + 1 /\ pSaw'[q].since <= pNow + 1 /\ pCache[q].at <= pNow + 1
                        /\ q \in pWaits => pSaw'[q].was = pNow + 1 /\ pSaw'[q].since # Never
                        /\ pCache[q].at # Never /\ pCache[q].waits => pCache[q].at <= pSaw'[q].was
                        /\ pCache[q].at # Never /\ q \in pWaits /\ ~pCache[q].waits => pCache[q].at <= pSaw'[q].since
      BY <1>1, <1>8 DEF TrueWhenRead
    <3>1. pSaw[q].since <= pNow /\ pCache[q].at <= pNow /\ pSaw[q].was <= pNow BY DEF TrueWhenRead
    <3>2. /\ q \in pWaits => pSaw[q].since # Never
          /\ pCache[q].at # Never /\ pCache[q].waits => pCache[q].at <= pSaw[q].was
          /\ pCache[q].at # Never /\ q \in pWaits /\ ~pCache[q].waits => pCache[q].at <= pSaw[q].since
      BY DEF TrueWhenRead
    <3>3. pSaw[q].since <= pNow + 1 /\ pCache[q].at <= pNow + 1 /\ pSaw[q].was <= pNow + 1
      BY <1>3, <3>1
    <3>4. CASE q \in pWaits BY <2>1, <2>2, <3>2, <3>3, <3>4
    <3>5. CASE q \notin pWaits BY <2>2, <3>2, <3>3, <3>5
    <3> QED BY <3>4, <3>5
  <2>5. HealthWhenRead'
    <3>1. pHealth.at \in Int /\ pToken \in Int BY DEF Times, Never
    <3>2. pHealth.at <= pNow + 1 /\ pToken <= pNow + 1 BY <3>1 DEF HealthWhenRead
    <3> QED BY <1>1, <1>8, <3>2 DEF HealthWhenRead
  <2> QED BY <2>3, <2>4, <2>5
<1> QED BY <1>4, <1>5, <1>6, <1>7, <1>8 DEF World

LEMMA PSteps == ASSUME PInv, [PNext]_pVars PROVE PInv'
<1>1. CASE AskPlatformStatus
  <2>1. pCache' = Fetched /\ pHealth' = JobsHealth /\ UNCHANGED <<pNow, pWaits, pSaw, pReach, pToken>>
    BY <1>1 DEF AskPlatformStatus
  <2>2. TrueWhenRead' /\ pCache' \in [StatusRepos -> [at : Times, waits : BOOLEAN]] BY <2>1, FetchedStep
  <2>3. HealthWhenRead' BY <2>1, HealthIsTimely DEF PInv, HealthWhenRead
  <2> QED BY <2>1, <2>2, <2>3, HealthIsTimely DEF PInv, PTypeOK
<1>2. CASE AskGitHubStatus
  <2>1. pCache' = Fetched /\ UNCHANGED <<pNow, pWaits, pSaw, pReach, pToken, pHealth>>
    BY <1>2 DEF AskGitHubStatus
  <2>2. TrueWhenRead' /\ pCache' \in [StatusRepos -> [at : Times, waits : BOOLEAN]] BY <2>1, FetchedStep
  <2>3. HealthWhenRead' BY <2>1 DEF PInv, HealthWhenRead
  <2> QED BY <2>1, <2>2, <2>3 DEF PInv, PTypeOK
<1>3. CASE PRestart
  <2>1. /\ pCache' = [r \in StatusRepos |-> [at |-> Never, waits |-> FALSE]]
        /\ pHealth' = [at |-> Never, warning |-> FALSE] /\ UNCHANGED <<pNow, pWaits, pSaw, pReach, pToken>>
    BY <1>3 DEF PRestart
  <2>2. Never \in Times /\ Never <= pNow BY DEF PInv, PTypeOK, Times, Never
  <2>3. /\ PTypeOK'
        /\ \A r \in StatusRepos : pCache'[r].at = Never
    BY <2>1, <2>2 DEF PInv, PTypeOK
  <2>4. TrueWhenRead' BY <2>1, <2>2, <2>3 DEF PInv, TrueWhenRead
  <2>5. HealthWhenRead' BY <2>1, <2>2 DEF PInv, HealthWhenRead
  <2> QED BY <2>3, <2>4, <2>5 DEF PInv
<1>4. CASE UNCHANGED pVars BY <1>4 DEF pVars, PInv, PTypeOK, TrueWhenRead, HealthWhenRead
<1> QED BY <1>1, <1>2, <1>3, <1>4, WorldStep DEF PNext

LEMMA PInitially == ASSUME PInit PROVE PInv
<1>1. /\ Never \in Times /\ Never <= 0 /\ 0 \in Times BY DEF Times, Never
<1>2. /\ pNow = 0 /\ pWaits = {} /\ pReach = StatusRepos /\ pToken = Never
      /\ pSaw = [r \in StatusRepos |-> [was |-> Never, since |-> Never]]
      /\ pCache = [r \in StatusRepos |-> [at |-> Never, waits |-> FALSE]]
      /\ pHealth = [at |-> Never, warning |-> FALSE]
  BY DEF PInit
<1>3. PTypeOK BY <1>1, <1>2 DEF PTypeOK
<1> QED BY <1>1, <1>2, <1>3 DEF PInv, TrueWhenRead, HealthWhenRead

\* An approval that has waited for a cache's life is named by both tools whenever GitHub
\* answers, one that is named waited no longer ago than that, and a bad jobs token
\* is a problem once its health is old; for any repositories and any such lives.
THEOREM ApprovalsAreFresh == PSpec => []ApprovalsFresh
<1>1. PInit => ApprovalsFresh BY DEF PInit, ApprovalsFresh, NoStatus
<1>2. ASSUME PInv, ApprovalsFresh, [PNext]_pVars PROVE ApprovalsFresh'
  <2>1. ASSUME NEW r \in StatusRepos
        PROVE  /\ r \in pWaits /\ r \in pReach /\ pNow - pSaw[r].since >= CacheTime => Readable(r) /\ Fetch(r).waits
               /\ Fetch(r).waits => pNow - pSaw[r].was <= CacheTime
    BY FetchIsTimely, <1>2 DEF Readable
  <2>2. CASE AskPlatformStatus
    <3>1. /\ pAnswer'.tool = "platform_status" /\ pAnswer'.approvals = PendingApprovals
          /\ JobsHealth.warning = TRUE => <<"jobs token", TRUE>> \in pAnswer'.problems
          /\ UNCHANGED <<pNow, pWaits, pSaw, pReach, pToken>>
      BY <2>2 DEF AskPlatformStatus
    <3>2. \A r \in StatusRepos : /\ Readable(r) /\ Fetch(r).waits => r \in PendingApprovals
                                 /\ r \in PendingApprovals => Fetch(r).waits
      <4>1. ASSUME NEW r \in StatusRepos, Readable(r) PROVE r \in PendingApprovals <=> Fetch(r).waits
        BY <4>1 DEF PendingApprovals
      <4>2. ASSUME NEW r \in StatusRepos, r \in PendingApprovals PROVE Readable(r)
        BY <4>2, ReposAssumption DEF PendingApprovals
      <4> QED BY <4>1, <4>2
    <3>3. pToken # Never /\ pReach # {} /\ pNow - pToken >= TokenTime => JobsHealth.warning = TRUE
      <4>1. JobsHealth.warning \in BOOLEAN BY <1>2, HealthIsTimely
      <4> QED BY <1>2, <4>1, HealthIsTimely
    <3> QED BY <2>1, <3>1, <3>2, <3>3 DEF ApprovalsFresh
  <2>3. CASE AskGitHubStatus
    <3>1. /\ pAnswer'.tool = "github_status" /\ pAnswer'.repo = [r \in StatusRepos |-> Summarize(r)]
          /\ UNCHANGED <<pNow, pWaits, pSaw, pReach, pToken>>
      BY <2>3 DEF AskGitHubStatus
    <3>2. \A r \in StatusRepos : /\ Readable(r) /\ Fetch(r).waits => Summarize(r) = "waits"
                                 /\ Summarize(r) = "waits" => Fetch(r).waits
                                 /\ Summarize(r) = "couldn't" => r \notin pReach
      BY DEF Summarize, Readable
    <3> QED BY <2>1, <3>1, <3>2 DEF ApprovalsFresh
  <2>4. CASE World \/ PRestart
    <3>1. pAnswer'.tool = "none" BY <2>4 DEF World, PRestart, NoStatus
    <3> QED BY <3>1 DEF ApprovalsFresh
  <2>5. CASE UNCHANGED pVars BY <1>2, <2>5 DEF pVars, ApprovalsFresh
  <2> QED BY <1>2, <2>2, <2>3, <2>4, <2>5 DEF PNext
<1> QED BY <1>1, <1>2, PInitially, PSteps, PTL DEF PSpec

-----------------------------------------------------------------------------
(* exposure.py and the port scan *)

\* A scan has something to tell of a target: it is still to be looked at, was, could
\* not be, or its peer had no endpoint.
Told(scan, t) ==
    \/ t \in ToSet(scan.todo)
    \/ scan.result[t] # "none"
    \/ \E e \in scan.errors : e[1] = t
    \/ t \in scan.missed

Scans ==
    [at : Nat, todo : Seq(Targets), result : [Targets -> {"none", "unexpected", "expected", "error"}],
     errors : SUBSET (Targets \X {"skipped", "lookup"}), missed : SUBSET ScanSites]

\* A scan tells of every target from its start on; the published one is complete.
XInv ==
    /\ xDay \in Nat
    /\ xScan \in Scans /\ xFile \in Scans
    /\ xScan # NoScan => \A t \in Targets : Told(xScan, t)
    /\ xFile # NoLatest => xFile.todo = <<>> /\ \A t \in Targets : Told(xFile, t)

LEMMA NoScanFits == NoScan \in Scans /\ NoLatest = NoScan /\ NoScan.todo = <<>>
<1>1. <<>> \in Seq(Targets) OBVIOUS
<1> QED BY <1>1 DEF NoScan, NoLatest, Scans

LEMMA VisitFits ==
    ASSUME NEW t \in Targets, NEW S
    PROVE  Visit(t, S) \in Seq(Targets) /\ ToSet(Visit(t, S)) = {t} \cap S
<1>1. CASE t \in S
  <2>1. Visit(t, S) = <<t>> BY <1>1 DEF Visit
  <2>2. DOMAIN <<t>> = 1 .. 1 /\ <<t>>[1] = t /\ <<t>> \in Seq(Targets) OBVIOUS
  <2> QED BY <1>1, <2>1, <2>2 DEF ToSet
<1>2. CASE t \notin S
  <2>1. Visit(t, S) = <<>> BY <1>2 DEF Visit
  <2>2. DOMAIN <<>> = {} /\ <<>> \in Seq(Targets) OBVIOUS
  <2> QED BY <1>2, <2>1, <2>2 DEF ToSet
<1> QED BY <1>1, <1>2

LEMMA VisitsFit ==
    ASSUME NEW S, NEW todo, todo = Visit("hub", S) \o Visit("nyc", S) \o Visit("rambles", S)
    PROVE  todo \in Seq(Targets) /\ ToSet(todo) = S \cap Targets
<1> DEFINE one == Visit("hub", S)
           two == Visit("nyc", S)
           three == Visit("rambles", S)
           both == one \o two
<1>1. "hub" \in Targets /\ "nyc" \in Targets /\ "rambles" \in Targets BY DEF Targets, ScanSites
<1>2. /\ one \in Seq(Targets) /\ two \in Seq(Targets) /\ three \in Seq(Targets)
      /\ ToSet(one) = {"hub"} \cap S /\ ToSet(two) = {"nyc"} \cap S /\ ToSet(three) = {"rambles"} \cap S
  BY <1>1, VisitFits
<1>3. todo = both \o three OBVIOUS
<1> HIDE DEF one, two, three
<1> HIDE DEF both
<1>4. both \in Seq(Targets) /\ ToSet(both) = ToSet(one) \cup ToSet(two) BY <1>2, MembersOfBoth DEF both
<1>5. todo \in Seq(Targets) /\ ToSet(todo) = ToSet(both) \cup ToSet(three)
  <2>1. /\ both \o three \in Seq(Targets)
        /\ ToSet(both \o three) = ToSet(both) \cup ToSet(three)
    BY <1>2, <1>4, MembersOfBoth
  <2> QED BY <1>3, <2>1
<1>6. Targets = {"hub", "nyc", "rambles"} BY DEF Targets, ScanSites
<1> QED BY <1>2, <1>4, <1>5, <1>6

LEMMA StartTells == ASSUME XInv, StartScan PROVE xScan' \in Scans /\ \A t \in Targets : Told(xScan', t)
<1>1. PICK ip \in BOOLEAN, wg \in BOOLEAN, peer \in [ScanSites -> {"fresh", "stale", "no endpoint"}] :
        LET known == IF wg THEN SiteEndpoints(peer) ELSE {}
            fresh == {s \in known : peer[s] = "fresh"}
            targets == (IF ip THEN {"hub"} ELSE {}) \cup fresh
        IN  xScan' = [NoScan EXCEPT
               !.at = xDay,
               !.todo = Visit("hub", targets) \o Visit("nyc", targets) \o Visit("rambles", targets),
               !.errors = {<<s, "skipped">> : s \in known \ fresh}
                          \cup (IF ip THEN {} ELSE {<<"hub", "lookup">>})
                          \cup (IF wg THEN {} ELSE {<<s, "lookup">> : s \in ScanSites}),
               !.missed = IF wg THEN ScanSites \ known ELSE {}]
  BY DEF StartScan
<1> DEFINE known == IF wg THEN SiteEndpoints(peer) ELSE {}
           fresh == {s \in known : peer[s] = "fresh"}
           targets == (IF ip THEN {"hub"} ELSE {}) \cup fresh
           one == Visit("hub", targets)
           two == Visit("nyc", targets)
           three == Visit("rambles", targets)
           todo == one \o two \o three
           errors == {<<s, "skipped">> : s \in known \ fresh}
                     \cup (IF ip THEN {} ELSE {<<"hub", "lookup">>})
                     \cup (IF wg THEN {} ELSE {<<s, "lookup">> : s \in ScanSites})
           missed == IF wg THEN ScanSites \ known ELSE {}
<1>2. xScan' = [NoScan EXCEPT !.at = xDay, !.todo = todo, !.errors = errors, !.missed = missed] BY <1>1
<1>3. /\ xScan'.at = xDay /\ xScan'.todo = todo /\ xScan'.errors = errors /\ xScan'.missed = missed
      /\ xScan'.result = [t \in Targets |-> "none"]
      /\ xScan' = [at |-> xDay, todo |-> todo, result |-> [t \in Targets |-> "none"],
                   errors |-> errors, missed |-> missed]
  <2> HIDE DEF todo, errors, missed
  <2> QED BY <1>2 DEF NoScan
<1>4. "hub" \in Targets /\ "nyc" \in Targets /\ "rambles" \in Targets /\ ScanSites \subseteq Targets
  BY DEF Targets, ScanSites
<1>5. known \subseteq ScanSites /\ fresh \subseteq known BY DEF SiteEndpoints
<1>6. todo \in Seq(Targets) /\ ToSet(todo) = targets \cap Targets
  <2> HIDE DEF targets
  <2> QED BY VisitsFit
<1>7. errors \in SUBSET (Targets \X {"skipped", "lookup"})
  <2>1. \A s \in known \ fresh : <<s, "skipped">> \in Targets \X {"skipped", "lookup"} BY <1>4, <1>5
  <2>2. \A s \in Targets : <<s, "lookup">> \in Targets \X {"skipped", "lookup"} OBVIOUS
  <2>3. {<<s, "skipped">> : s \in known \ fresh} \subseteq Targets \X {"skipped", "lookup"} BY <2>1
  <2>4. {<<s, "lookup">> : s \in ScanSites} \subseteq Targets \X {"skipped", "lookup"} BY <1>4, <2>2
  <2>5. <<"hub", "lookup">> \in Targets \X {"skipped", "lookup"} BY <1>4, <2>2
  <2> QED BY <2>3, <2>4, <2>5
<1>8. /\ ip => "hub" \in targets
      /\ ~ip => <<"hub", "lookup">> \in errors
      /\ \A s \in ScanSites : \/ s \in targets
                              \/ <<s, "lookup">> \in errors
                              \/ <<s, "skipped">> \in errors
                              \/ s \in missed
  BY <1>5
<1>9. missed \in SUBSET ScanSites OBVIOUS
<1> HIDE DEF known, fresh, targets, todo, errors, missed
<1>10. xScan' \in Scans
  <2>1. [t \in Targets |-> "none"] \in [Targets -> {"none", "unexpected", "expected", "error"}] OBVIOUS
  <2> QED BY <1>3, <1>6, <1>7, <1>9, <2>1 DEF XInv, Scans
<1>11. \A t \in Targets : \/ t \in ToSet(todo) \/ t \in missed
                          \/ <<t, "lookup">> \in errors \/ <<t, "skipped">> \in errors
  BY <1>4, <1>6, <1>8 DEF Targets
<1>12. \A t : <<t, "lookup">>[1] = t /\ <<t, "skipped">>[1] = t OBVIOUS
<1> QED BY <1>3, <1>10, <1>11, <1>12 DEF Told

LEMMA ScanTells == ASSUME XInv, ScanTarget PROVE xScan' \in Scans /\ \A t \in Targets : Told(xScan', t)
<1>1. xScan.todo # <<>> /\ xScan \in Scans /\ (\A t \in Targets : Told(xScan, t))
  BY NoScanFits DEF ScanTarget, XInv
<1> DEFINE h == Head(xScan.todo)
<1>2. xScan.todo \in Seq(Targets) BY <1>1 DEF Scans
<1>3. /\ h \in Targets /\ Tail(xScan.todo) \in Seq(Targets)
      /\ ToSet(xScan.todo) = {h} \cup ToSet(Tail(xScan.todo))
  BY <1>1, <1>2, MembersOfTail
<1>4. PICK found \in {"unexpected", "expected", "error"} :
        xScan' = [xScan EXCEPT !.todo = Tail(@), !.result[h] = found]
  BY DEF ScanTarget
<1>5. /\ xScan'.todo = Tail(xScan.todo) /\ xScan'.result = [xScan.result EXCEPT ![h] = found]
      /\ xScan'.errors = xScan.errors /\ xScan'.missed = xScan.missed
      /\ xScan' \in Scans
  BY <1>1, <1>3, <1>4 DEF Scans
<1>6. ASSUME NEW t \in Targets PROVE Told(xScan', t)
  <2>1. CASE t = h
    <3>1. xScan'.result[t] = found BY <1>1, <1>3, <1>5, <2>1 DEF Scans
    <3> QED BY <3>1 DEF Told
  <2>2. CASE t # h
    <3>1. xScan'.result[t] = xScan.result[t] BY <1>1, <1>5, <2>2 DEF Scans
    <3>2. t \in ToSet(xScan.todo) => t \in ToSet(xScan'.todo) BY <1>3, <1>5, <2>2
    <3> QED BY <1>1, <1>5, <3>1, <3>2 DEF Told
  <2> QED BY <2>1, <2>2
<1> QED BY <1>5, <1>6

LEMMA XSteps == ASSUME XInv, [XNext]_xVars PROVE XInv'
<1>1. CASE StartScan
  <2>1. UNCHANGED <<xDay, xFile, xAnswer>> BY <1>1 DEF StartScan
  <2> QED BY <1>1, <2>1, StartTells DEF XInv, NoLatest
<1>2. CASE ScanTarget
  <2>1. UNCHANGED <<xDay, xFile, xAnswer>> BY <1>2 DEF ScanTarget
  <2> QED BY <1>2, <2>1, ScanTells DEF XInv, NoLatest
<1>3. CASE Publish
  <2>1. xFile' = xScan /\ xScan' = NoScan /\ xScan # NoScan /\ xScan.todo = <<>> /\ xDay' = xDay
    BY <1>3 DEF Publish
  <2> QED BY <2>1, NoScanFits DEF XInv
<1>4. CASE ScanDies
  <2>1. xScan' = NoScan /\ UNCHANGED <<xDay, xFile, xAnswer>> BY <1>4 DEF ScanDies
  <2> QED BY <2>1, NoScanFits DEF XInv
<1>5. CASE DayPasses
  <2>1. xDay' = xDay + 1 /\ UNCHANGED <<xScan, xFile>> BY <1>5 DEF DayPasses
  <2> QED BY <2>1 DEF XInv, NoLatest
<1>6. ASSUME NEW certs \in CertStates, ExposureCheck(certs) PROVE XInv'
  <2>1. UNCHANGED <<xDay, xScan, xFile>> BY <1>6 DEF ExposureCheck
  <2> QED BY <2>1 DEF XInv, NoLatest
<1>7. CASE UNCHANGED xVars BY <1>7 DEF xVars, XInv, NoLatest
<1> QED BY <1>1, <1>2, <1>3, <1>4, <1>5, <1>6, <1>7 DEF XNext

\* What the last scan says names every target it has something to tell of.
LEMMA ReadingTells ==
    ASSUME XInv, xFile # NoLatest, NEW t \in Targets
    PROVE  t \in ReadScan.problems \cup ReadScan.info \cup ReadScan.unread \/ t \in xFile.missed
<1> DEFINE of(kind) == {u \in Targets : xFile.result[u] = kind}
           skipped == {e[1] : e \in {e \in xFile.errors : e[2] = "skipped"}}
           late == IF xDay - xFile.at > StaleDays THEN {"old scan"} ELSE {}
<1>1. /\ ReadScan.problems = of("unexpected") \cup late
      /\ ReadScan.info = of("expected") \cup skipped
      /\ ReadScan.unread = of("error") \cup ({e[1] : e \in xFile.errors} \ skipped)
  BY DEF ReadScan, NoResult
<1>2. xFile.todo = <<>> /\ Told(xFile, t) /\ xFile \in Scans BY DEF XInv
<1>3. t \notin ToSet(xFile.todo) BY <1>2 DEF ToSet
<1>4. CASE xFile.result[t] # "none"
  <2>1. xFile.result[t] \in {"unexpected", "expected", "error"} BY <1>2, <1>4 DEF Scans
  <2> QED BY <1>1, <2>1
<1>5. CASE \E e \in xFile.errors : e[1] = t
  <2>1. t \in {e[1] : e \in xFile.errors} BY <1>5
  <2> HIDE DEF skipped, of, late
  <2>2. CASE t \in skipped BY <1>1, <2>2
  <2>3. CASE t \notin skipped BY <1>1, <2>1, <2>3
  <2> QED BY <2>2, <2>3
<1> QED BY <1>2, <1>3, <1>4, <1>5 DEF Told

\* An answer about the exposure tells of every target, whatever failed in the scan
\* before it, and one that is clean is of a recent scan that found nothing; for any
\* age after which a scan is old.
THEOREM TargetsAreTold == XSpec => []EveryTargetTold
<1>1. XInit => XInv /\ EveryTargetTold
  BY NoScanFits DEF XInit, XInv, EveryTargetTold
<1>2. ASSUME XInv, EveryTargetTold, [XNext]_xVars PROVE EveryTargetTold'
  <2>1. CASE StartScan \/ ScanTarget \/ ScanDies \/ UNCHANGED xVars
    <3>1. UNCHANGED <<xDay, xFile, xAnswer>> BY <2>1 DEF StartScan, ScanTarget, ScanDies, xVars
    <3> QED BY <1>2, <3>1 DEF EveryTargetTold, NoLatest
  <2>2. CASE Publish \/ DayPasses
    <3>1. xAnswer' = NoResult BY <2>2 DEF Publish, DayPasses
    <3> QED BY <3>1 DEF EveryTargetTold
  <2>3. ASSUME NEW certs \in CertStates, ExposureCheck(certs) PROVE EveryTargetTold'
    <3> DEFINE other == ReadCerts(certs)
    <3>1. /\ UNCHANGED <<xDay, xScan, xFile>>
          /\ xAnswer'.problems = ReadScan.problems \cup other.problems
          /\ xAnswer'.info = ReadScan.info
          /\ xAnswer'.unread = ReadScan.unread \cup other.unread
          /\ xAnswer'.clean => ReadScan.problems = {}
      BY <2>3 DEF ExposureCheck
    <3>2. CASE xFile = NoLatest
      <4>1. "port scan" \in ReadScan.unread BY <3>2 DEF ReadScan, NoResult
      <4>2. \A t \in Targets : xFile.result[t] # "unexpected" BY <3>2 DEF NoLatest, NoScan
      <4> QED BY <3>1, <3>2, <4>1, <4>2 DEF EveryTargetTold, NoLatest
    <3>3. CASE xFile # NoLatest
      <4>1. ReadScan.problems = {t \in Targets : xFile.result[t] = "unexpected"}
                                \cup (IF xDay - xFile.at > StaleDays THEN {"old scan"} ELSE {})
        BY <3>3 DEF ReadScan, NoResult
      <4>2. ReadScan.problems = {} => ~(xDay - xFile.at > StaleDays)
                                      /\ \A t \in Targets : xFile.result[t] # "unexpected"
        BY <4>1
      <4>3. ~(xDay - xFile.at > StaleDays) => xDay - xFile.at <= StaleDays
        BY <1>2, DaysAssumption DEF XInv, Scans
      <4>4. \A t \in Targets : t \in ReadScan.problems \cup ReadScan.info \cup ReadScan.unread
                               \/ t \in xFile.missed
        BY <1>2, <3>3, ReadingTells
      <4> QED BY <3>1, <4>2, <4>3, <4>4 DEF EveryTargetTold, NoLatest
    <3> QED BY <3>2, <3>3
  <2> QED BY <1>2, <2>1, <2>2, <2>3 DEF XNext
<1>3. XSpec => [](XInv /\ EveryTargetTold) BY <1>1, <1>2, XSteps, PTL DEF XSpec
<1> QED BY <1>3, PTL

-----------------------------------------------------------------------------
(* preview-compose.py *)

\* A file of services.
Composes(file) == file \in [DOMAIN file -> Service] /\ DOMAIN file \subseteq Names

LEMMA FragmentsFit == \A file \in Fragments : Composes(file)
<1> SUFFICES ASSUME NEW file \in Fragments PROVE Composes(file) OBVIOUS
<1>1. CASE file \in {[n \in {"web"} |-> s] : s \in Service}
  BY <1>1 DEF Composes, Names
<1>2. ASSUME NEW s \in Service, NEW i \in {"app", "foreign"}, NEW l \in {"none", "routed"},
             file = [n \in Names |-> IF n = "web" THEN s ELSE Labelled(i, l)]
      PROVE  Composes(file)
  <2>1. Labelled(i, l) \in Service BY DEF Labelled, Service, Images, Labels
  <2> QED BY <1>2, <2>1 DEF Composes
<1> QED BY <1>1, <1>2 DEF Fragments

\* What was confined is not changed by being confined again.
LEMMA ConfinedOnce ==
    ASSUME NEW s \in Service, NEW names
    PROVE  /\ Confined(s, names) \in Service
           /\ Confined(s, names).keys \subseteq AllowedKeys
           /\ Confined(s, names).depends \subseteq names
           /\ Confined(s, names).labels \in {"routed", "none"}
           /\ Confined(s, names).labels = "routed" <=> s.labels = "routed"
           /\ Confined(Confined(s, names), names) = Confined(s, names)
<1> DEFINE c == Confined(s, names)
           d == Confined(c, names)
<1>1. /\ c = [image |-> c.image, keys |-> c.keys, labels |-> c.labels, depends |-> c.depends]
      /\ d = [image |-> d.image, keys |-> d.keys, labels |-> d.labels, depends |-> d.depends]
  BY DEF Confined
<1>2. /\ c.image = (IF s.image \in Own THEN "pr" ELSE s.image)
      /\ d.image = (IF c.image \in Own THEN "pr" ELSE c.image)
      /\ c.keys = s.keys \cap AllowedKeys /\ d.keys = c.keys \cap AllowedKeys
      /\ c.labels = (IF s.labels = "routed" THEN "routed" ELSE "none")
      /\ d.labels = (IF c.labels = "routed" THEN "routed" ELSE "none")
      /\ c.depends = s.depends \cap names /\ d.depends = c.depends \cap names
  BY DEF Confined, Kept
<1>3. s.image \in Images /\ s.keys \subseteq Keys /\ s.labels \in Labels /\ s.depends \subseteq {"worker", Absent}
  BY DEF Service
<1> HIDE DEF c, d
<1>4. c.image = d.image BY <1>2, <1>3 DEF Own, Images
<1>5. c.keys = d.keys /\ c.labels = d.labels /\ c.depends = d.depends BY <1>2
<1>6. c = d BY <1>1, <1>4, <1>5
<1>7. c \in Service
  <2>1. c.image \in Images BY <1>2, <1>3 DEF Own, Images
  <2>2. c.labels \in Labels BY <1>2 DEF Labels
  <2>3. c.keys \in SUBSET Keys /\ c.depends \in SUBSET {"worker", Absent} BY <1>2, <1>3
  <2> QED BY <1>1, <2>1, <2>2, <2>3 DEF Service
<1> QED BY <1>2, <1>6, <1>7 DEF c, d

\* A file that is not refused is confined service by service, and routes what was
\* enabled, one service.
LEMMA Rewritten ==
    ASSUME NEW file, Composes(file), NEW strict \in BOOLEAN, Rewrite(file, strict) # Refused
    PROVE  /\ Composes(Rewrite(file, strict))
           /\ Rewrite(file, strict) = [n \in DOMAIN file |-> Confined(file[n], DOMAIN file)]
           /\ Enabled(Rewrite(file, strict)) = Enabled(file)
           /\ \E n \in DOMAIN file : Enabled(file) = {n}
           /\ \A n \in Enabled(file) : /\ file[n].labels = "routed"
                                       /\ strict => Rewrite(file, strict)[n].image = "pr"
<1> DEFINE new == [n \in DOMAIN file |-> Confined(file[n], DOMAIN file)]
<1>1. /\ Rewrite(file, strict) = new
      /\ Cardinality(Enabled(file)) = 1
      /\ \A n \in Enabled(file) : file[n].labels = "routed" /\ (strict => new[n].image = "pr")
  BY DEF Rewrite
<1>2. \A n \in DOMAIN file : /\ file[n] \in Service /\ new[n] = Confined(file[n], DOMAIN file)
                             /\ new[n] \in Service /\ new[n].labels \in {"routed", "none"}
                             /\ new[n].labels = "routed" <=> file[n].labels = "routed"
  BY ConfinedOnce DEF Composes
<1>3. DOMAIN new = DOMAIN file /\ new \in [DOMAIN file -> Service] BY <1>2
<1> HIDE DEF new
<1>4. Composes(new) BY <1>3 DEF Composes
<1>5. Enabled(new) = Enabled(file)
  <2>1. ASSUME NEW n \in DOMAIN file PROVE n \in Enabled(new) <=> n \in Enabled(file)
    BY <1>1, <1>2, <1>3 DEF Enabled
  <2>2. Enabled(new) \subseteq DOMAIN file /\ Enabled(file) \subseteq DOMAIN file BY <1>3 DEF Enabled
  <2> QED BY <2>1, <2>2
<1>6. \E n \in DOMAIN file : Enabled(file) = {n}
  <2>1. IsFiniteSet({"web", "worker"})
    <3>1. IsFiniteSet({"web"}) BY FS_Singleton
    <3>2. IsFiniteSet({"web"} \cup {"worker"}) BY <3>1, FS_AddElement
    <3>3. {"web"} \cup {"worker"} = {"web", "worker"} OBVIOUS
    <3> QED BY <3>2, <3>3
  <2>2. IsFiniteSet(Enabled(file)) BY <2>1, FS_Subset DEF Composes, Names, Enabled
  <2>3. \E n : Enabled(file) = {n} BY <1>1, <2>2, FS_Singleton
  <2> QED BY <2>3 DEF Enabled
<1>7. Rewrite(file, strict) = [n \in DOMAIN file |-> Confined(file[n], DOMAIN file)] BY <1>1 DEF new
<1> QED BY <1>1, <1>4, <1>5, <1>6, <1>7

\* Rewriting what was rewritten changes nothing, unless its image is refused.
LEMMA RewrittenOnce ==
    ASSUME NEW file, Composes(file), NEW strict \in BOOLEAN, Rewrite(file, strict) # Refused
    PROVE  /\ Rewrite(Rewrite(file, strict), TRUE) \in {Rewrite(file, strict), Refused}
           /\ strict => Rewrite(Rewrite(file, strict), TRUE) = Rewrite(file, strict)
<1> DEFINE new == Rewrite(file, strict)
           twice == [n \in DOMAIN new |-> Confined(new[n], DOMAIN new)]
<1>1. /\ new = [n \in DOMAIN file |-> Confined(file[n], DOMAIN file)]
      /\ Enabled(new) = Enabled(file) /\ Enabled(file) \subseteq DOMAIN file
      /\ \A n \in Enabled(file) : file[n].labels = "routed" /\ (strict => new[n].image = "pr")
      /\ \E n \in DOMAIN file : Enabled(file) = {n}
  BY Rewritten DEF Enabled
<1> HIDE DEF new
<1>2. DOMAIN new = DOMAIN file /\ \A n \in DOMAIN file : /\ file[n] \in Service
                                                         /\ new[n] = Confined(file[n], DOMAIN file)
  BY <1>1 DEF Composes
<1>3. \A n \in DOMAIN file : Confined(new[n], DOMAIN new) = new[n] /\ (file[n].labels = "routed" => new[n].labels = "routed")
  BY <1>2, ConfinedOnce
<1>4. twice = new
  <2>1. new = [n \in DOMAIN new |-> new[n]] BY <1>1
  <2> QED BY <1>2, <1>3, <2>1
<1>5. Cardinality(Enabled(new)) = 1 BY <1>1, FS_Singleton
<1>6. \A n \in Enabled(new) : new[n].labels = "routed" /\ (strict => new[n].image = "pr")
  BY <1>1, <1>3
<1>7. Rewrite(new, TRUE) = IF \/ Cardinality(Enabled(new)) # 1
                              \/ \E n \in Enabled(new) : new[n].labels # "routed" \/ (TRUE /\ twice[n].image # "pr")
                           THEN Refused ELSE twice
  BY DEF Rewrite
<1> HIDE DEF twice
<1>8. Rewrite(new, TRUE) \in {new, Refused} BY <1>4, <1>7
<1>9. strict => Rewrite(new, TRUE) = new BY <1>4, <1>5, <1>6, <1>7
<1> QED BY <1>8, <1>9 DEF new

\* Where the files come from.
VInv ==
    /\ vStaged # NoFile => Composes(vStaged)
    /\ vRunner = Refused => vStaged = NoFile
    /\ vRunner \notin {NoFile, Refused} =>
          vStaged = vRunner /\ \E file : Composes(file) /\ vRunner = Rewrite(file, FALSE)
    /\ vUp # NoFile => vStaged # NoFile /\ vUp = Rewrite(vStaged, TRUE)

LEMMA VSteps == ASSUME VInv, [VNext]_vVars PROVE VInv'
<1> USE DEF VInv
<1>1. CASE PlanPreview
  <2>1. PICK file \in Fragments : /\ vRunner' = Rewrite(file, FALSE)
                                  /\ vStaged' = IF vRunner' = Refused THEN vStaged ELSE vRunner'
    BY <1>1 DEF PlanPreview
  <2>2. Composes(file) BY FragmentsFit
  <2>3. vRunner = NoFile /\ vStaged = NoFile /\ vUp' = vUp /\ vUp = NoFile BY <1>1 DEF PlanPreview
  <2>4. vUp' = NoFile BY <2>3
  <2>5. CASE vRunner' = Refused BY <2>1, <2>3, <2>4, <2>5 DEF NoFile, Refused
  <2>6. CASE vRunner' # Refused
    <3>1. vStaged' = vRunner' BY <2>1, <2>6
    <3>2. Composes(vRunner') BY <2>1, <2>2, <2>6, Rewritten
    <3> QED BY <2>1, <2>2, <2>4, <2>6, <3>1, <3>2 DEF NoFile, Refused
  <2> QED BY <2>5, <2>6
<1>2. CASE StagedAnew
  <2>1. vRunner' = NoFile /\ vStaged' \in Fragments /\ vUp' = NoFile /\ NoFile' = NoFile
    BY <1>2 DEF StagedAnew, NoFile
  <2>2. NoFile # Refused BY DEF NoFile, Refused
  <2> QED BY <2>1, <2>2, FragmentsFit DEF NoFile, Refused
<1>3. CASE RewriteOnHub
  <2>1. vStaged # NoFile /\ vUp' = Rewrite(vStaged, TRUE) /\ vStaged' = vStaged /\ vRunner' = vRunner
    BY <1>3 DEF RewriteOnHub
  <2> QED BY <2>1 DEF NoFile, Refused
<1>4. CASE PreviewOver
  <2>1. vStaged' = NoFile /\ vRunner' = NoFile /\ vUp' = NoFile BY <1>4 DEF PreviewOver
  <2>2. NoFile # Refused BY DEF NoFile, Refused
  <2> QED BY <2>1, <2>2 DEF NoFile, Refused
<1>5. CASE UNCHANGED vVars BY <1>5 DEF vVars, NoFile, Refused
<1> QED BY <1>1, <1>2, <1>3, <1>4, <1>5 DEF VNext

\* Whatever was staged, what comes up has allowed settings only, depends on itself only
\* and routes one service, of the pull request's image; and the rewriter changes nothing of its
\* own output, so that the hub starts the file that the runner wrote or refuses it.
THEOREM RewritesAreStable == VSpec => []RewriteIsStable
<1>1. VInit => VInv
  <2>1. NoFile # Refused BY DEF NoFile, Refused
  <2> QED BY <2>1 DEF VInit, VInv
<1>2. VInv => RewriteIsStable
  <2> SUFFICES ASSUME VInv, vUp \notin {NoFile, Refused}
               PROVE  /\ \A n \in DOMAIN vUp : /\ vUp[n].keys \subseteq AllowedKeys
                                               /\ vUp[n].depends \subseteq DOMAIN vUp
                      /\ \E n \in DOMAIN vUp : Enabled(vUp) = {n} /\ vUp[n].image = "pr"
                      /\ vRunner # NoFile => vUp = vRunner
                      /\ Rewrite(vUp, TRUE) = vUp
    BY DEF RewriteIsStable
  <2>1. vUp = Rewrite(vStaged, TRUE) /\ vStaged # NoFile /\ Composes(vStaged) BY DEF VInv
  <2>2. /\ vUp = [n \in DOMAIN vStaged |-> Confined(vStaged[n], DOMAIN vStaged)]
        /\ Enabled(vUp) = Enabled(vStaged)
        /\ \E n \in DOMAIN vStaged : Enabled(vStaged) = {n}
        /\ \A n \in Enabled(vStaged) : vUp[n].image = "pr"
    BY <2>1, Rewritten
  <2>3. DOMAIN vUp = DOMAIN vStaged /\ \A n \in DOMAIN vUp : /\ vStaged[n] \in Service
                                                             /\ vUp[n] = Confined(vStaged[n], DOMAIN vUp)
    BY <2>1, <2>2 DEF Composes
  <2>4. \A n \in DOMAIN vUp : vUp[n].keys \subseteq AllowedKeys /\ vUp[n].depends \subseteq DOMAIN vUp
    BY <2>3, ConfinedOnce
  <2>5. \E n \in DOMAIN vUp : Enabled(vUp) = {n} /\ vUp[n].image = "pr" BY <2>2, <2>3
  <2>6. Rewrite(vUp, TRUE) = vUp BY <2>1, RewrittenOnce
  <2>7. ASSUME vRunner # NoFile PROVE vUp = vRunner
    <3>1. PICK file : Composes(file) /\ vRunner = Rewrite(file, FALSE) /\ vStaged = vRunner
      BY <2>1, <2>7 DEF VInv
    <3>2. Rewrite(file, FALSE) # Refused BY <2>1, <2>7, <3>1 DEF VInv
    <3>3. Rewrite(vRunner, TRUE) \in {vRunner, Refused} BY <3>1, <3>2, RewrittenOnce
    <3> QED BY <2>1, <3>1, <3>3
  <2> QED BY <2>4, <2>5, <2>6, <2>7
<1> QED BY <1>1, <1>2, VSteps, PTL DEF VSpec

-----------------------------------------------------------------------------
(* home-mcp's security tools *)

\* An answer says what was not read, and names what is wrong.
Says(tool, f, answer) ==
    \A x \in Unread(tool, f) : \E said \in answer.unread : x \in {said[1], said[2]}
NamesIt(tool, f, answer) ==
    /\ answer.flags # {} <=> Trouble(tool, f) # {}
    /\ tool \in {"github", "aws", "summary"} =>
          {x[1] : x \in Trouble(tool, f)} \subseteq {x[1] : x \in answer.flags}
    /\ answer.head = "clean" => Trouble(tool, f) = {}

LEMMA HeadlineIs == \A flags : Headline(flags) = "clean" <=> flags = {}
  BY DEF Headline

LEMMA AnswerIs ==
    \A head, flags, notes, unread :
        /\ Answer(head, flags, notes, unread).head = head /\ Answer(head, flags, notes, unread).flags = flags
        /\ Answer(head, flags, notes, unread).unread = unread
  BY DEF Answer

LEMMA GitHubSays == \A f : Says("github", f, GitHubSecurity(f))
<1> SUFFICES ASSUME NEW f PROVE Says("github", f, GitHubSecurity(f)) OBVIOUS
<1> DEFINE repos == IF f.asked = "all" THEN Repos ELSE {f.asked}
<1>1. GitHubSecurity(f).unread = UNION {RepoUnread(f, r) : r \in repos} BY AnswerIs DEF GitHubSecurity
<1>2. Unread("github", f) = {r \in repos : ~f.repo[r].rulesRead
                                           \/ (f.token /\ \E c \in AlertCalls : f.repo[r].found[c] = "raised")}
  BY DEF Unread
<1> HIDE DEF repos
<1>3. ASSUME NEW r \in repos, ~f.repo[r].rulesRead
      PROVE  \E said \in GitHubSecurity(f).unread : r \in {said[1], said[2]}
  <2>1. <<r, "rules">> \in RepoUnread(f, r) BY <1>3 DEF RepoUnread
  <2>2. <<r, "rules">> \in GitHubSecurity(f).unread BY <1>1, <2>1
  <2>3. r \in {<<r, "rules">>[1], <<r, "rules">>[2]} OBVIOUS
  <2> QED BY <2>2, <2>3
<1>4. ASSUME NEW r \in repos, f.token, NEW c \in AlertCalls, f.repo[r].found[c] = "raised"
      PROVE  \E said \in GitHubSecurity(f).unread : r \in {said[1], said[2]}
  <2>1. <<r, c>> \in RepoUnread(f, r) BY <1>4 DEF RepoUnread, Alerts
  <2>2. <<r, c>> \in GitHubSecurity(f).unread BY <1>1, <2>1
  <2>3. r \in {<<r, c>>[1], <<r, c>>[2]} OBVIOUS
  <2> QED BY <2>2, <2>3
<1> QED BY <1>2, <1>3, <1>4 DEF Says

LEMMA AwsSays == \A f : Says("aws", f, AwsPosture(f))
<1> SUFFICES ASSUME NEW f PROVE Says("aws", f, AwsPosture(f)) OBVIOUS
<1>1. AwsPosture(f).unread = {<<c, "raised">> : c \in f.raised} BY AnswerIs DEF AwsPosture
<1>2. Unread("aws", f) = f.raised BY DEF Unread
<1>3. ASSUME NEW c \in f.raised
      PROVE  \E said \in AwsPosture(f).unread : c \in {said[1], said[2]}
  <2>1. <<c, "raised">> \in AwsPosture(f).unread BY <1>1
  <2>2. c \in {<<c, "raised">>[1], <<c, "raised">>[2]} OBVIOUS
  <2> QED BY <2>1, <2>2
<1> QED BY <1>2, <1>3 DEF Says

LEMMA AuthentikSays == \A f : Says("authentik", f, AuthentikAudit(f))
<1> SUFFICES ASSUME NEW f PROVE Says("authentik", f, AuthentikAudit(f)) OBVIOUS
<1>1. CASE ~f.token \/ f.users # "read"
  <2>1. Unread("authentik", f) = {"audit"} BY <1>1 DEF Unread
  <2>2. \E y : AuthentikAudit(f).unread = {<<"audit", y>>}
    <3>1. CASE ~f.token
      <4>1. AuthentikAudit(f) = Answer("not-set-up", {}, {}, {<<"audit", "token">>})
        BY <3>1 DEF AuthentikAudit
      <4> QED BY <4>1, AnswerIs
    <3>2. CASE f.token
      <4>1. AuthentikAudit(f) = Answer("refused", {}, {}, {<<"audit", f.users>>})
        BY <1>1, <3>2 DEF AuthentikAudit
      <4> QED BY <4>1, AnswerIs
    <3> QED BY <3>1, <3>2
  <2>3. \A y : "audit" \in {<<"audit", y>>[1], <<"audit", y>>[2]} OBVIOUS
  <2> QED BY <2>1, <2>2, <2>3 DEF Says
<1>2. CASE f.token /\ f.users = "read"
  <2>1. Unread("authentik", f) = f.raised \cup {p \in People : f.devices[p] = "raised"} BY <1>2 DEF Unread
  <2>2. AuthentikAudit(f).unread = {<<"devices", p>> : p \in {p \in People : f.devices[p] = "raised"}}
                                   \cup {<<"events", q>> : q \in f.raised}
    BY <1>2, AnswerIs DEF AuthentikAudit
  <2>3. \A x, y : y \in {<<x, y>>[1], <<x, y>>[2]} OBVIOUS
  <2>4. ASSUME NEW q \in f.raised
        PROVE  \E said \in AuthentikAudit(f).unread : q \in {said[1], said[2]}
    <3>1. <<"events", q>> \in AuthentikAudit(f).unread BY <2>2
    <3> QED BY <2>3, <3>1
  <2>5. ASSUME NEW p \in {p \in People : f.devices[p] = "raised"}
        PROVE  \E said \in AuthentikAudit(f).unread : p \in {said[1], said[2]}
    <3>1. <<"devices", p>> \in AuthentikAudit(f).unread BY <2>2
    <3> QED BY <2>3, <3>1
  <2> QED BY <2>1, <2>4, <2>5 DEF Says
<1> QED BY <1>1, <1>2

LEMMA EventsSay == \A f : Says("events", f, SecurityEvents(f))
<1> SUFFICES ASSUME NEW f PROVE Says("events", f, SecurityEvents(f)) OBVIOUS
<1>1. SecurityEvents(f).unread = {<<"events", q>> : q \in {q \in Queries : f[q] = "raised"}}
  BY AnswerIs DEF SecurityEvents
<1>2. Unread("events", f) = {q \in Queries : f[q] = "raised"} BY DEF Unread
<1>3. \A q \in Unread("events", f) : <<"events", q>> \in SecurityEvents(f).unread BY <1>1, <1>2
<1>4. \A x, y : y \in {<<x, y>>[1], <<x, y>>[2]} OBVIOUS
<1> QED BY <1>3, <1>4 DEF Says

LEMMA SummarySays == \A f : Says("summary", f, SecuritySummary(f))
<1> SUFFICES ASSUME NEW f PROVE Says("summary", f, SecuritySummary(f)) OBVIOUS
<1>1. SecuritySummary(f).unread = {<<t, "raised">> : t \in {t \in Tools : f[t].head = "raised"}}
  BY AnswerIs DEF SecuritySummary
<1>2. Unread("summary", f) = {t \in Tools : f[t].head = "raised"} BY DEF Unread
<1>3. \A t \in Unread("summary", f) : <<t, "raised">> \in SecuritySummary(f).unread BY <1>1, <1>2
<1>4. \A x, y : x \in {<<x, y>>[1], <<x, y>>[2]} OBVIOUS
<1> QED BY <1>3, <1>4 DEF Says

\* The answer is the tool's, to facts that it may be asked about.
SInv ==
    \/ sTool = "none"
    \/ sTool = "github" /\ sFacts \in GitHubFacts /\ sAnswer = GitHubSecurity(sFacts)
    \/ sTool = "aws" /\ sFacts \in AwsFacts /\ sAnswer = AwsPosture(sFacts)
    \/ sTool = "authentik" /\ sFacts \in AuditFacts /\ sAnswer = AuthentikAudit(sFacts)
    \/ sTool = "events" /\ sFacts \in EventFacts /\ sAnswer = SecurityEvents(sFacts)
    \/ sTool = "summary" /\ sFacts \in SummaryFacts /\ sAnswer = SecuritySummary(sFacts)

LEMMA SInvariant == SSpec => []SInv
<1>1. SInit => SInv BY DEF SInit, SInv
<1>2. SInv /\ [SNext]_sVars => SInv'
  <2> SUFFICES ASSUME SInv, [SNext]_sVars PROVE SInv' OBVIOUS
  <2>1. CASE Question
    <3>1. ASSUME NEW f \in GitHubFacts, Ask("github", f, GitHubSecurity(f)) PROVE SInv' BY <3>1 DEF Ask, SInv
    <3>2. ASSUME NEW f \in AwsFacts, Ask("aws", f, AwsPosture(f)) PROVE SInv' BY <3>2 DEF Ask, SInv
    <3>3. ASSUME NEW f \in AuditFacts, Ask("authentik", f, AuthentikAudit(f)) PROVE SInv' BY <3>3 DEF Ask, SInv
    <3>4. ASSUME NEW f \in EventFacts, Ask("events", f, SecurityEvents(f)) PROVE SInv' BY <3>4 DEF Ask, SInv
    <3>5. ASSUME NEW f \in SummaryFacts, Ask("summary", f, SecuritySummary(f)) PROVE SInv' BY <3>5 DEF Ask, SInv
    <3> QED BY <2>1, <3>1, <3>2, <3>3, <3>4, <3>5 DEF Question
  <2>2. CASE Forget BY <2>2 DEF Forget, SInv
  <2>3. CASE UNCHANGED sVars BY <2>3 DEF sVars, SInv
  <2> QED BY <2>1, <2>2, <2>3 DEF SNext
<1> QED BY <1>1, <1>2, PTL DEF SSpec

\* Every question that raised is said to be unread, under every headline; for any
\* repositories, people and tools.
THEOREM WhatIsUnreadIsSaid == SSpec => []UnreadIsSaid
<1>1. SInv => UnreadIsSaid
  BY GitHubSays, AwsSays, AuthentikSays, EventsSay, SummarySays DEF SInv, UnreadIsSaid, Says
<1> QED BY <1>1, SInvariant, PTL

LEMMA GitHubNames == \A f : NamesIt("github", f, GitHubSecurity(f))
<1> SUFFICES ASSUME NEW f PROVE NamesIt("github", f, GitHubSecurity(f)) OBVIOUS
<1> DEFINE repos == IF f.asked = "all" THEN Repos ELSE {f.asked}
           flags == GitHubSecurity(f).flags
           severe == {x \in repos \X AlertCalls : f.token /\ f.repo[x[1]].found[x[2]] = "high"}
           open == {r \in repos : f.repo[r].rulesRead /\
                       \/ "pull_request" \notin f.repo[r].rules
                       \/ "required_status_checks" \notin f.repo[r].rules /\ r \notin NoCiRepos}
<1>1. flags = UNION {RepoUrgent(f, r) : r \in repos} BY AnswerIs DEF GitHubSecurity
<1>2. Trouble("github", f) = severe \cup {<<r, "rules">> : r \in open} BY DEF Trouble
<1>3. GitHubSecurity(f).head = "clean" => flags = {}
  <2> DEFINE urgent == UNION {RepoUrgent(f, r) : r \in repos}
             unread == UNION {RepoUnread(f, r) : r \in repos}
  <2>1. GitHubSecurity(f).head = IF urgent = {} /\ ~f.token /\ unread # {} THEN "partly" ELSE Headline(urgent)
    BY AnswerIs DEF GitHubSecurity
  <2> HIDE DEF urgent, unread
  <2>2. GitHubSecurity(f).head = "clean" => urgent = {} BY <2>1, HeadlineIs
  <2> QED BY <1>1, <2>2 DEF urgent
<1>4. \A r : MissingRules(r, f.repo[r]) # {} <=> \/ "pull_request" \notin f.repo[r].rules
                                                 \/ "required_status_checks" \notin f.repo[r].rules /\ r \notin NoCiRepos
  BY DEF MissingRules, WantedRules
<1>5. \A r \in repos : RepoUrgent(f, r) =
         (IF f.token THEN {<<r, c>> : c \in {c \in AlertCalls : f.repo[r].found[c] = "high"}} ELSE {})
         \cup (IF r \in open THEN {<<r, "rules">>} ELSE {})
  BY <1>4 DEF RepoUrgent, Alerts
<1> HIDE DEF repos
<1>6. ASSUME NEW x \in severe PROVE x \in flags
  <2>1. x[1] \in repos /\ x[2] \in AlertCalls /\ x = <<x[1], x[2]>> /\ f.token /\ f.repo[x[1]].found[x[2]] = "high"
    OBVIOUS
  <2>2. x \in RepoUrgent(f, x[1]) BY <1>5, <2>1
  <2> QED BY <1>1, <2>1, <2>2
<1>7. ASSUME NEW r \in open PROVE <<r, "rules">> \in flags
  <2>1. <<r, "rules">> \in RepoUrgent(f, r) /\ r \in repos BY <1>5
  <2> QED BY <1>1, <2>1
<1>8. ASSUME NEW x \in flags PROVE x \in severe \/ \E r \in open : x = <<r, "rules">>
  <2>1. PICK r \in repos : x \in RepoUrgent(f, r) BY <1>1
  <2>2. CASE \E c \in AlertCalls : x = <<r, c>> /\ f.token /\ f.repo[r].found[c] = "high" BY <2>2
  <2>3. CASE r \in open /\ x = <<r, "rules">> BY <2>3
  <2> QED BY <1>5, <2>1, <2>2, <2>3
<1> HIDE DEF flags, severe, open
<1>9. Trouble("github", f) = flags BY <1>2, <1>6, <1>7, <1>8
<1> QED BY <1>3, <1>9 DEF NamesIt, flags

\* A rule open to the world is found when one of its ports is not among the expected.
LEMMA MinOfTwo == ASSUME NEW a \in Int, NEW b \in Int
                  PROVE  Min({a, b}) = IF a <= b THEN a ELSE b
<1>1. \E x \in {a, b} : \A y \in {a, b} : x <= y OBVIOUS
<1>2. Min({a, b}) \in {a, b} /\ \A y \in {a, b} : Min({a, b}) <= y BY <1>1 DEF Min
<1> QED BY <1>2

\* What is found of one check, as the code says it and as it is.
Wrong(c, f) ==
    CASE c \in {"guardduty", "analyzer"} -> f.found[c].enabled /\ f.found[c].found > 0
      [] c = "groups" -> \E p \in 0 .. 500 :
            /\ f.found[c].world /\ p \notin {80, 443}
            /\ f.found[c].lo = 0 \/ (f.found[c].lo <= p /\ p <= f.found[c].hi)
      [] c = "signins" -> f.found[c].root \/ f.found[c].loginWithoutMfa
      [] c = "users" -> f.found[c].keyDays > 90 \/ (f.found[c].console /\ ~f.found[c].mfa)
      [] OTHER -> f.found[c].state # "active" \/ f.found[c].hours > 3

AwsFit(f) ==
    /\ f.raised \subseteq Checks
    /\ \A c \in {"guardduty", "analyzer"} : f.found[c] \in [enabled : BOOLEAN, found : {0, 1, 5, 7}]
    /\ f.found["groups"] \in [world : BOOLEAN, lo : {0, 22, 80, 443}, hi : {22, 80, 443, 500}]
    /\ f.found["groups"].lo = 0 \/ f.found["groups"].lo <= f.found["groups"].hi
    /\ f.found["signins"] \in [root : BOOLEAN, loginWithoutMfa : BOOLEAN]
    /\ f.found["users"] \in [keyDays : {0, 90, 91}, console : BOOLEAN, mfa : BOOLEAN]
    /\ f.found["imds"] \in [state : {"silent", "off", "active"}, hours : {0, 3, 4}]

LEMMA AwsFactsFit == \A f \in AwsFacts : AwsFit(f)
<1> SUFFICES ASSUME NEW f \in AwsFacts PROVE AwsFit(f) OBVIOUS
<1>0. PICK c \in Checks : \E g \in CheckFacts[c], raised \in SUBSET Checks : f = OneFound(c, g, raised)
  BY DEF AwsFacts
<1>1. PICK g \in CheckFacts[c], raised \in SUBSET Checks : f = OneFound(c, g, raised) BY <1>0
<1>2. f.raised \subseteq Checks /\ f.found = [QuietAws EXCEPT ![c] = g] BY <1>1 DEF OneFound
<1>3. /\ \A d \in Checks \ {c} : f.found[d] = QuietAws[d]
      /\ f.found[c] = g
  BY <1>2 DEF QuietAws, Checks
<1>4. \A d \in Checks : f.found[d] \in CheckFacts[d]
  <2>1. \A d \in Checks : QuietAws[d] \in CheckFacts[d]
    <3>1. QuietAws["guardduty"] \in CheckFacts["guardduty"] BY DEF QuietAws, CheckFacts
    <3>2. QuietAws["analyzer"] \in CheckFacts["analyzer"] BY DEF QuietAws, CheckFacts
    <3>3. QuietAws["groups"] \in CheckFacts["groups"] BY DEF QuietAws, CheckFacts
    <3>4. QuietAws["signins"] \in CheckFacts["signins"] BY DEF QuietAws, CheckFacts
    <3>5. QuietAws["users"] \in CheckFacts["users"] BY DEF QuietAws, CheckFacts
    <3>6. QuietAws["imds"] \in CheckFacts["imds"] BY DEF QuietAws, CheckFacts
    <3> QED BY <3>1, <3>2, <3>3, <3>4, <3>5, <3>6 DEF Checks
  <2> QED BY <1>1, <1>3, <2>1
<1> QED BY <1>2, <1>4 DEF AwsFit, Checks, CheckFacts

LEMMA FoundIsWrong ==
    ASSUME NEW f, AwsFit(f), NEW c \in Checks
    PROVE  Findings(c, f.found[c]) # {} <=> Wrong(c, f)
<1>1. CASE c \in {"guardduty", "analyzer"}
  <2> DEFINE n == f.found[c].found
  <2>1. n \in {0, 1, 5, 7} BY <1>1 DEF AwsFit
  <2>2. Min({n, MaxShown}) = IF n <= MaxShown THEN n ELSE MaxShown BY <2>1, MinOfTwo DEF MaxShown
  <2>3. Listed(n) # {} <=> n > 0
    <3>1. CASE n = 0
      <4>1. 1 .. Min({n, MaxShown}) = {} /\ ~(n > MaxShown) BY <2>2, <3>1 DEF MaxShown
      <4> HIDE DEF n
      <4> QED BY <3>1, <4>1 DEF Listed
    <3>2. CASE n # 0
      <4>1. 1 \in 1 .. Min({n, MaxShown}) BY <2>1, <2>2, <3>2 DEF MaxShown
      <4>2. <<"finding", 1>> \in Listed(n) BY <4>1 DEF Listed
      <4> QED BY <2>1, <3>2, <4>2
    <3> QED BY <3>1, <3>2
  <2>4. Findings(c, f.found[c]) = IF f.found[c].enabled THEN Listed(n) ELSE {} BY <1>1 DEF Findings
  <2>5. Wrong(c, f) <=> f.found[c].enabled /\ n > 0 BY <1>1 DEF Wrong
  <2> QED BY <2>3, <2>4, <2>5
<1>2. CASE c = "groups"
  <2> DEFINE rule == f.found["groups"]
             last == Min({rule.hi, rule.lo + SpanLimit})
  <2>1. /\ rule.lo \in {0, 22, 80, 443} /\ rule.hi \in {22, 80, 443, 500} /\ rule.world \in BOOLEAN
        /\ rule.lo = 0 \/ rule.lo <= rule.hi
    BY DEF AwsFit
  <2>2. last = IF rule.hi <= rule.lo + 64 THEN rule.hi ELSE rule.lo + 64 BY <2>1, MinOfTwo DEF SpanLimit
  <2>3. Findings(c, f.found[c]) # {} <=> GroupOpen(rule) BY <1>2 DEF Findings
  <2>4. Wrong(c, f) <=> \E p \in 0 .. 500 : /\ rule.world /\ p \notin {80, 443}
                                            /\ rule.lo = 0 \/ (rule.lo <= p /\ p <= rule.hi)
    BY <1>2 DEF Wrong
  <2>5. GroupOpen(rule) <=> rule.world /\ (rule.lo = 0 \/ \E p \in rule.lo .. last : p \notin {80, 443})
    BY DEF GroupOpen, ExpectedOpen
  <2> HIDE DEF rule, last
  <2>6. CASE rule.lo = 0
    <3>1. 1 \in 0 .. 500 /\ 1 \notin {80, 443} OBVIOUS
    <3> QED BY <2>3, <2>4, <2>5, <2>6, <3>1
  <2>7. CASE rule.lo # 0
    <3>1. ASSUME NEW p \in rule.lo .. last, p \notin {80, 443}
          PROVE  p \in 0 .. 500 /\ rule.lo <= p /\ p <= rule.hi
      BY <2>1, <2>2, <3>1
    <3>2. ASSUME NEW p \in 0 .. 500, p \notin {80, 443}, rule.lo <= p, p <= rule.hi
          PROVE  \E q \in rule.lo .. last : q \notin {80, 443}
      <4>1. CASE rule.lo = 22
        <5>1. 22 \in rule.lo .. last BY <2>1, <2>2, <4>1
        <5> QED BY <5>1
      <4>2. CASE rule.lo # 22
        <5>1. rule.lo # p /\ rule.lo + 1 <= rule.hi BY <2>1, <2>7, <3>2, <4>2
        <5>2. rule.lo + 1 \in rule.lo .. last BY <2>1, <2>2, <5>1
        <5>3. rule.lo + 1 \notin {80, 443} BY <2>1, <2>7, <4>2
        <5> QED BY <5>2, <5>3
      <4> QED BY <4>1, <4>2
    <3> DEFINE Span == rule.lo .. last
               Ports == 0 .. 500
               Odd(p) == p \notin {80, 443}
               In(p) == rule.lo <= p /\ p <= rule.hi
               seen == \E q \in Span : Odd(q)
               wrong == \E p \in Ports : Odd(p) /\ In(p)
    <3>3. \A q \in Span : Odd(q) => q \in Ports /\ In(q) BY <3>1
    <3>4. \A p \in Ports : Odd(p) /\ In(p) => \E q \in Span : Odd(q) BY <3>2
    <3>5. GroupOpen(rule) <=> rule.world /\ seen BY <2>5, <2>7
    <3>6. Wrong(c, f) <=> rule.world /\ wrong BY <2>4, <2>7
    <3> HIDE DEF Span, Ports, Odd, In
    <3>7. seen <=> wrong BY <3>3, <3>4
    <3> HIDE DEF seen, wrong
    <3> QED BY <2>3, <3>5, <3>6, <3>7
  <2> QED BY <2>6, <2>7
<1>3. CASE c = "signins"
  <2>1. Findings(c, f.found[c]) = (IF f.found[c].root THEN {<<"root", 1>>} ELSE {})
                                  \cup (IF f.found[c].loginWithoutMfa THEN {<<"login-without-MFA", 1>>} ELSE {})
    BY <1>3 DEF Findings
  <2>2. Wrong(c, f) <=> f.found[c].root \/ f.found[c].loginWithoutMfa BY <1>3 DEF Wrong
  <2> QED BY <2>1, <2>2
<1>4. CASE c = "users"
  <2>1. Findings(c, f.found[c]) =
           (IF f.found[c].keyDays > 90 THEN {<<"old-key", f.found[c].keyDays>>} ELSE {})
           \cup (IF f.found[c].console /\ ~f.found[c].mfa THEN {<<"console-without-MFA", 1>>} ELSE {})
    BY <1>4 DEF Findings
  <2>2. Wrong(c, f) <=> f.found[c].keyDays > 90 \/ (f.found[c].console /\ ~f.found[c].mfa) BY <1>4 DEF Wrong
  <2> QED BY <2>1, <2>2
<1>5. CASE c = "imds"
  <2>1. Findings(c, f.found[c]) =
           IF f.found[c].state = "silent" THEN {<<"not-reporting", 1>>}
           ELSE (IF f.found[c].state = "off" THEN {<<"off", 1>>} ELSE {})
                \cup (IF f.found[c].hours > 3 THEN {<<"not-run", 1>>} ELSE {})
    BY <1>5 DEF Findings
  <2>2. Wrong(c, f) <=> f.found[c].state # "active" \/ f.found[c].hours > 3 BY <1>5 DEF Wrong
  <2>3. f.found[c].state \in {"silent", "off", "active"} BY <1>5 DEF AwsFit
  <2> QED BY <2>1, <2>2, <2>3
<1> QED BY <1>1, <1>2, <1>3, <1>4, <1>5 DEF Checks

LEMMA AwsNames == \A f \in AwsFacts : NamesIt("aws", f, AwsPosture(f))
<1> SUFFICES ASSUME NEW f \in AwsFacts PROVE NamesIt("aws", f, AwsPosture(f)) OBVIOUS
<1> DEFINE read == Checks \ f.raised
           flags == AwsPosture(f).flags
           first == {<<c, "found">> : c \in {c \in {"guardduty", "analyzer"} \ f.raised :
                                                f.found[c].enabled /\ f.found[c].found > 0}}
           second == {<<"groups", port>> : port \in {p \in 0 .. 500 :
                        /\ "groups" \notin f.raised
                        /\ f.found["groups"].world /\ p \notin {80, 443}
                        /\ f.found["groups"].lo = 0 \/ (f.found["groups"].lo <= p /\ p <= f.found["groups"].hi)}}
           third == {<<c, "bad">> : c \in {c \in Checks \ f.raised :
                        \/ c = "signins" /\ (f.found[c].root \/ f.found[c].loginWithoutMfa)
                        \/ c = "users" /\ (f.found[c].keyDays > 90 \/ (f.found[c].console /\ ~f.found[c].mfa))
                        \/ c = "imds" /\ (f.found[c].state # "active" \/ f.found[c].hours > 3)}}
           trouble == Trouble("aws", f)
<1>1. AwsFit(f) BY AwsFactsFit
<1>2. flags = UNION {{<<c, x>> : x \in Findings(c, f.found[c])} : c \in read} BY AnswerIs DEF AwsPosture
<1>3. AwsPosture(f).head = Headline(flags) BY <1>2, AnswerIs DEF AwsPosture
<1>4. trouble = first \cup second \cup third BY DEF Trouble
<1>5. ASSUME NEW x \in trouble PROVE x[1] \in read /\ Wrong(x[1], f)
  <2>1. CASE x \in first
    <3>1. PICK c \in {"guardduty", "analyzer"} \ f.raised :
            x = <<c, "found">> /\ f.found[c].enabled /\ f.found[c].found > 0
      BY <2>1
    <3>2. x[1] = c /\ c \in read BY <3>1 DEF Checks
    <3> QED BY <3>1, <3>2 DEF Wrong
  <2>2. CASE x \in second
    <3>1. PICK p \in 0 .. 500 : /\ x = <<"groups", p>> /\ "groups" \notin f.raised
                                /\ f.found["groups"].world /\ p \notin {80, 443}
                                /\ f.found["groups"].lo = 0 \/ (f.found["groups"].lo <= p /\ p <= f.found["groups"].hi)
      BY <2>2
    <3>2. x[1] = "groups" /\ "groups" \in read BY <3>1 DEF Checks
    <3>3. Wrong("groups", f) BY <3>1 DEF Wrong
    <3> QED BY <3>2, <3>3
  <2>3. CASE x \in third
    <3>1. PICK c \in Checks \ f.raised :
            /\ x = <<c, "bad">>
            /\ \/ c = "signins" /\ (f.found[c].root \/ f.found[c].loginWithoutMfa)
               \/ c = "users" /\ (f.found[c].keyDays > 90 \/ (f.found[c].console /\ ~f.found[c].mfa))
               \/ c = "imds" /\ (f.found[c].state # "active" \/ f.found[c].hours > 3)
      BY <2>3
    <3>2. x[1] = c /\ c \in read BY <3>1
    <3>3. Wrong(c, f) BY <3>1 DEF Wrong
    <3> QED BY <3>2, <3>3
  <2> QED BY <1>4, <2>1, <2>2, <2>3
<1>6. ASSUME NEW c \in read, Wrong(c, f) PROVE trouble # {}
  <2>1. CASE c \in {"guardduty", "analyzer"}
    <3>1. <<c, "found">> \in first BY <1>6, <2>1 DEF Wrong
    <3> QED BY <1>4, <3>1
  <2>2. CASE c = "groups"
    <3>1. PICK p \in 0 .. 500 : /\ f.found[c].world /\ p \notin {80, 443}
                                /\ f.found[c].lo = 0 \/ (f.found[c].lo <= p /\ p <= f.found[c].hi)
      BY <1>6, <2>2 DEF Wrong
    <3>2. "groups" \notin f.raised BY <2>2
    <3>3. <<"groups", p>> \in second
      <4> DEFINE P == {q \in 0 .. 500 :
                        /\ "groups" \notin f.raised
                        /\ f.found["groups"].world /\ q \notin {80, 443}
                        /\ f.found["groups"].lo = 0 \/ (f.found["groups"].lo <= q /\ q <= f.found["groups"].hi)}
      <4>1. p \in P BY <2>2, <3>1, <3>2
      <4>2. second = {<<"groups", port>> : port \in P} OBVIOUS
      <4> HIDE DEF P, second
      <4> QED BY <4>1, <4>2
    <3> HIDE DEF first, second, third
    <3> QED BY <1>4, <3>3
  <2>3. CASE c \in {"signins", "users", "imds"}
    <3>1. <<c, "bad">> \in third BY <1>6, <2>3 DEF Wrong
    <3> QED BY <1>4, <3>1
  <2> QED BY <2>1, <2>2, <2>3 DEF Checks
<1>7. \A c \in read : Findings(c, f.found[c]) # {} <=> Wrong(c, f) BY <1>1, FoundIsWrong
<1> HIDE DEF read, flags, trouble
<1>8. ASSUME NEW c \in read, Wrong(c, f) PROVE \E y \in flags : y[1] = c
  <2>1. PICK x : x \in Findings(c, f.found[c]) BY <1>7, <1>8
  <2>2. <<c, x>> \in flags /\ <<c, x>>[1] = c BY <1>2, <2>1
  <2> QED BY <2>2
<1>9. ASSUME NEW y \in flags PROVE \E c \in read : Wrong(c, f)
  <2>1. PICK c \in read : y \in {<<c, x>> : x \in Findings(c, f.found[c])} BY <1>2
  <2>2. Findings(c, f.found[c]) # {} BY <2>1
  <2> QED BY <1>7, <2>2
<1>10. flags # {} <=> trouble # {} BY <1>5, <1>6, <1>8, <1>9
<1>11. {x[1] : x \in trouble} \subseteq {x[1] : x \in flags} BY <1>5, <1>8
<1>12. AwsPosture(f).head = "clean" => flags = {} BY <1>3, HeadlineIs
<1> QED BY <1>10, <1>11, <1>12 DEF NamesIt, flags, trouble

LEMMA AuthentikNames == \A f \in AuditFacts : NamesIt("authentik", f, AuthentikAudit(f))
<1> SUFFICES ASSUME NEW f \in AuditFacts PROVE NamesIt("authentik", f, AuthentikAudit(f)) OBVIOUS
<1>1. CASE ~(f.token /\ f.users = "read")
  <2>1. Trouble("authentik", f) = {} BY <1>1 DEF Trouble
  <2>2. AuthentikAudit(f).flags = {}
    <3>1. CASE ~f.token
      <4>1. AuthentikAudit(f) = Answer("not-set-up", {}, {}, {<<"audit", "token">>})
        BY <3>1 DEF AuthentikAudit
      <4> QED BY <4>1, AnswerIs
    <3>2. CASE f.token
      <4>1. AuthentikAudit(f) = Answer("refused", {}, {}, {<<"audit", f.users>>})
        BY <1>1, <3>2 DEF AuthentikAudit
      <4> QED BY <4>1, AnswerIs
    <3> QED BY <3>1, <3>2
  <2> QED BY <2>1, <2>2 DEF NamesIt
<1>2. CASE f.token /\ f.users = "read"
  <2> DEFINE flags == AuditFlags(f)
             trouble == Trouble("authentik", f)
             events == "alerts" \notin f.raised /\ (f.failed > 9 \/ f.odd)
             login == "logins" \notin f.raised /\ f.strangerAt = "read"
  <2>1. /\ AuthentikAudit(f).flags = flags
        /\ AuthentikAudit(f).head = Headline(flags)
    BY <1>2, AnswerIs DEF AuthentikAudit
  <2>2. trouble = {<<p, "MFA">> : p \in {p \in f.admins : f.devices[p] = "none"}}
                  \cup {<<q, "events">> : q \in {q \in Questions \ f.raised :
                          \/ q = "alerts" /\ (f.odd \/ f.failed > 9)
                          \/ q = "logins" /\ f.strangerAt = "read"}}
    BY <1>2 DEF Trouble
  <2>3. f.admins \subseteq People /\ f.failed \in {0, 9, 10} BY DEF AuditFacts
  <2>4. (f.failed >= 10) <=> (f.failed > 9) BY <2>3
  <2>5. trouble # {} <=> events \/ login \/ \E p \in f.admins : f.devices[p] = "none"
    BY <2>2 DEF Questions
  <2>6. flags # {} <=> events \/ login \/ \E p \in f.admins : f.devices[p] = "none"
    BY <2>3, <2>4 DEF AuditFlags, NoMfa
  <2> HIDE DEF flags, trouble
  <2>7. AuthentikAudit(f).head = "clean" => flags = {} BY <2>1, HeadlineIs
  <2> QED BY <2>1, <2>5, <2>6, <2>7 DEF NamesIt, trouble
<1> QED BY <1>1, <1>2

LEMMA EventsName == \A f : NamesIt("events", f, SecurityEvents(f))
<1> SUFFICES ASSUME NEW f PROVE NamesIt("events", f, SecurityEvents(f)) OBVIOUS
<1> DEFINE some == {<<"events", q>> : q \in {q \in Queries : f[q] = "some"}}
           flags == {e \in some : e[2] \in FlagQueries}
           trouble == Trouble("events", f)
<1>1. SecurityEvents(f).flags = flags /\ SecurityEvents(f).head = Headline(flags)
  BY AnswerIs DEF SecurityEvents
<1>2. trouble = {<<q, "flag">> : q \in {q \in FlagQueries : f[q] = "some"}} BY DEF Trouble
<1>3. ASSUME NEW q \in FlagQueries, f[q] = "some" PROVE flags # {}
  <2>1. <<"events", q>> \in some /\ <<"events", q>>[2] = q BY <1>3 DEF Queries
  <2> QED BY <2>1
<1>4. ASSUME NEW e \in flags PROVE trouble # {}
  <2>1. PICK q \in Queries : e = <<"events", q>> /\ f[q] = "some" OBVIOUS
  <2>2. e[2] = q /\ q \in FlagQueries BY <2>1
  <2> QED BY <1>2, <2>1, <2>2
<1> HIDE DEF flags
<1>5. flags # {} <=> trouble # {} BY <1>2, <1>3, <1>4
<1> HIDE DEF trouble
<1>6. SecurityEvents(f).head = "clean" => flags = {} BY <1>1, HeadlineIs
<1> QED BY <1>1, <1>5, <1>6 DEF NamesIt, trouble

LEMMA SummaryNames == \A f \in SummaryFacts : NamesIt("summary", f, SecuritySummary(f))
<1> SUFFICES ASSUME NEW f \in SummaryFacts PROVE NamesIt("summary", f, SecuritySummary(f)) OBVIOUS
<1>1. \A t \in Tools : f[t].head = "trouble" <=> f[t].flags # {}
  <2> SUFFICES ASSUME NEW t \in Tools PROVE f[t].head = "trouble" <=> f[t].flags # {} OBVIOUS
  <2>1. \/ f[t] = Answer("raised", {}, {}, {})
        \/ \E flags, unread : f[t] = Answer(Headline(flags), flags, {}, unread)
    BY DEF SummaryFacts
  <2>2. \A flags : Headline(flags) = "trouble" <=> flags # {} BY DEF Headline
  <2> QED BY <2>1, <2>2, AnswerIs
<1> DEFINE flags == SecuritySummary(f).flags
           trouble == Trouble("summary", f)
<1>2. flags = {<<t, "trouble">> : t \in {t \in Tools : f[t].head = "trouble"}} BY AnswerIs DEF SecuritySummary
<1>3. trouble = {<<t, "flag">> : t \in {t \in Tools : f[t].flags # {}}} BY DEF Trouble
<1>4. SecuritySummary(f).head = "summary" BY AnswerIs DEF SecuritySummary
<1> HIDE DEF flags, trouble
<1>5. ASSUME NEW x \in trouble PROVE \E y \in flags : y[1] = x[1]
  <2>1. PICK t \in Tools : x = <<t, "flag">> /\ f[t].flags # {} BY <1>3
  <2>2. <<t, "trouble">> \in flags /\ <<t, "trouble">>[1] = t /\ x[1] = t BY <1>1, <1>2, <2>1
  <2> QED BY <2>2
<1>6. flags # {} => trouble # {} BY <1>1, <1>2, <1>3
<1>7. {x[1] : x \in trouble} \subseteq {x[1] : x \in flags} BY <1>5
<1>8. flags # {} <=> trouble # {} BY <1>5, <1>6
<1> QED BY <1>4, <1>7, <1>8 DEF NamesIt, flags, trouble

\* What is wrong in what a tool's questions brought back makes its headline, with the repository,
\* check or tool it is about, and nothing else does; for any repositories, people
\* and tools.
THEOREM WhatIsWrongIsNamed == SSpec => []TroubleIsNamed
<1>1. SInv => TroubleIsNamed
  BY GitHubNames, AwsNames, AuthentikNames, EventsName, SummaryNames DEF SInv, TroubleIsNamed, NamesIt
<1> QED BY <1>1, SInvariant, PTL

=============================================================================
