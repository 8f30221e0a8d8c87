---------------------------- MODULE UpdateStatus ----------------------------
(* home-mcp's update_status: what is behind on the hosts, on the network    *)
(* devices and among the pinned container images. The images are found by   *)
(* following the includes of the Compose files, one download at a time; the *)
(* rest is one answer to one set of questions.                              *)
EXTENDS Integers, Sequences, SequencesExt, FiniteSetsExt

CONSTANTS Files,      \* Compose files of the repository
          Hosts, Routers,
          Summer      \* the host and the router that may be off in winter

ASSUME FilesAssumption == IsFiniteSet(Files)

VARIABLES
    uFacts,    \* what the questions would find
    uAt,       \* "idle", "images" while Compose files are read, "done"
    uQueue,    \* _images: queue, seen
    uSeen,
    uRefs,     \* images found, named after the file that pins them
    uUnread,   \* couldnt, of the images
    uAnswer

uVars == <<uFacts, uAt, uQueue, uSeen, uRefs, uUnread, uAnswer>>

-----------------------------------------------------------------------------
(* Tags *)

\* A tag that parse_tag understands: a prefix, numbers, a suffix; and "latest".
Versions == {<<1>>, <<2>>, <<1, 1>>, <<1, 2>>, <<2, 0>>}
Tags == [prefix : {"", "v"}, nums : Versions, suffix : {"", "-rc"}]
LatestTag == [prefix |-> "latest", nums |-> <<>>, suffix |-> ""]
NoTag == LatestTag
FirstRelease == [prefix |-> "", nums |-> <<1>>, suffix |-> ""]

\* Tuples compare as Python's do; here their lengths are equal.
Exceeds(m, n) ==
    \E i \in 1 .. Len(n) : m[i] > n[i] /\ \A j \in 1 .. i - 1 : m[j] = n[j]

SameShape(t, current) ==
    t.prefix = current.prefix /\ t.suffix = current.suffix /\ Len(t.nums) = Len(current.nums)

\* A release candidate has no successors.
NewestSameShape_AnyLength(current, tags) ==
    IF current = LatestTag \/ current.suffix = "-rc" THEN NoTag
    ELSE FoldLeft(LAMBDA best, t :
                    IF t # LatestTag /\ t.prefix = current.prefix /\ t.suffix = current.suffix
                       /\ t.nums[1] > (IF best = NoTag THEN current ELSE best).nums[1]
                    THEN t ELSE best, NoTag, tags)

NewestSameShape(current, tags) ==
    IF current = LatestTag \/ current.suffix = "-rc" THEN NoTag
    ELSE FoldLeft(LAMBDA best, t :
                    IF t # LatestTag /\ SameShape(t, current)
                       /\ Exceeds(t.nums, (IF best = NoTag THEN current ELSE best).nums)
                    THEN t ELSE best, NoTag, tags)

\* What is said of a release cycle that ends in so many days; of one whose date
\* could not be asked for, nothing here.
EolUnknown == 1000
EolLine(days) == IF days <= 60 THEN "urgent" ELSE IF days <= 180 THEN "other" ELSE "fine"

-----------------------------------------------------------------------------
(* The questions *)

HostFacts == [check : {"absent", "stale", "fresh"}, pending : {"none", "some", "critical"},
              reboot : BOOLEAN]
RouterFacts == [seen : BOOLEAN, version : {<<7, 19, 1>>, <<7, 20, 1>>},
                latest : {<<7, 20, 1>>, <<7, 20, 2>>, <<0, 0, 0>>}, bootBehind : BOOLEAN]
DsmStates == {"absent", "1", "2", "3", "4", "5"}
Raised == <<0, 0, 0>>   \* the latest release could not be asked for
Eols == {-1, 60, 61, 180, 181, EolUnknown}

QuietHost == [check |-> "fresh", pending |-> "none", reboot |-> FALSE]
QuietRouter == [seen |-> TRUE, version |-> <<7, 20, 1>>, latest |-> <<7, 20, 1>>, bootBehind |-> FALSE]
Quiet == [winter |-> FALSE, failed |-> {}, host |-> [h \in Hosts |-> QuietHost],
          osEol |-> 181, router |-> [r \in Routers |-> QuietRouter], dsm |-> "2",
          roots |-> <<>>, include |-> [f \in Files |-> {}], unreadable |-> {},
          tag |-> LatestTag, tags |-> <<>>, registry |-> TRUE, imageEol |-> 181]

\* One part at a time is out of the ordinary, and whole sections may raise.
Sections == {"hosts", "network"}
OfHost(w, x, h, f, e) == [Quiet EXCEPT !.winter = w, !.failed = x, !.host[h] = f, !.osEol = e]
OfRouter(w, x, r, f, d) == [Quiet EXCEPT !.winter = w, !.failed = x, !.router[r] = f, !.dsm = d]
OfIncludes(n, inc, bad) ==
    [Quiet EXCEPT !.roots = SubSeq(SetToSeq(Files), 1, n), !.include = inc, !.unreadable = bad]
OfTags(t, ts) == [Quiet EXCEPT !.roots = SetToSeq(Files), !.tag = t, !.tags = ts]
OfImage(r, e, t) == [Quiet EXCEPT !.roots = SetToSeq(Files), !.registry = r, !.imageEol = e, !.tag = t]

HostNews == {OfHost(w, x, h, f, e) :
    w \in BOOLEAN, x \in SUBSET Sections, h \in Hosts, f \in HostFacts, e \in Eols}
RouterNews == {OfRouter(w, x, r, f, d) :
    w \in BOOLEAN, x \in SUBSET Sections, r \in Routers, f \in RouterFacts, d \in DsmStates}
IncludeNews == {OfIncludes(n, inc, bad) :
    n \in 1 .. Cardinality(Files), inc \in [Files -> SUBSET Files], bad \in SUBSET Files}
TagNews == {OfTags(t, ts) : t \in Tags \cup {LatestTag}, ts \in SeqOf(Tags \cup {LatestTag}, 2)}
ImageNews == {OfImage(r, e, t) :
    r \in BOOLEAN, e \in Eols, t \in {LatestTag, FirstRelease}}

Facts == HostNews \cup RouterNews \cup IncludeNews \cup TagNews \cup ImageNews

-----------------------------------------------------------------------------
(* The sections: what each adds to the urgent, the other and the unread lines *)

HostUrgent(f) == {h \in Hosts : f.host[h].check # "absent" /\ (f.host[h].pending = "critical" \/ f.host[h].reboot)}

\* In winter no host is missed that does not report.
HostUnread_AnyWinter(f) ==
    {h \in Hosts : f.host[h].check = "stale" \/ (f.host[h].check = "absent" /\ ~f.winter)}

\* A host that never reported is not missed in its closed season.
HostUnread(f) ==
    {h \in Hosts : \/ f.host[h].check = "stale"
                   \/ f.host[h].check = "absent" /\ ~(h \in Summer /\ f.winter)}

HostsSection(f) ==
    IF "hosts" \in f.failed THEN [urgent |-> {}, other |-> {}, unread |-> {"OS packages"}]
    ELSE [urgent |-> HostUrgent(f)
                     \cup (IF EolLine(f.osEol) = "urgent" THEN {"os"} ELSE {}),
          other |-> {h \in Hosts \ HostUrgent(f) : f.host[h].check # "absent" /\ f.host[h].pending = "some"}
                    \cup (IF EolLine(f.osEol) = "other" THEN {"os"} ELSE {}),
          unread |-> HostUnread(f) \cup (IF f.osEol = EolUnknown THEN {"end-of-life dates"} ELSE {})]

\* Another minor release is urgent, another patch is not.
NetworkSection(f) ==
    LET seen == {r \in Routers : f.router[r].seen}
        read == {r \in seen : f.router[r].latest # Raised}
        behind == {r \in read : Exceeds(f.router[r].latest, f.router[r].version)}
        urgent == {r \in behind : f.router[r].latest[2] # f.router[r].version[2]}
    IN  IF "network" \in f.failed THEN [urgent |-> {}, other |-> {}, unread |-> {"network device firmware"}]
        ELSE [urgent |-> urgent \cup (IF f.dsm = "1" THEN {"dsm"} ELSE {}),
              other |-> (behind \ urgent) \cup {r \in read : f.router[r].bootBehind},
              unread |-> {r \in Routers \ seen : ~(r \in Summer /\ f.winter)}
                         \cup (IF seen # read THEN {"the latest RouterOS"} ELSE {})
                         \cup (IF f.dsm \in {"4", "5", "absent"} THEN {"dsm"} ELSE {})]

\* The images found have the tag asked about; one whose registry does not
\* answer is not looked at any further, and "latest" is of no release cycle.
ImagesSection(f) ==
    LET newer == NewestSameShape(f.tag, f.tags)
        read == uRefs # {} /\ f.registry
        cycle == read /\ f.tag # LatestTag
        line(kind) == IF cycle /\ EolLine(f.imageEol) = kind THEN {"image line"} ELSE {}
    IN  [urgent |-> line("urgent"),
         other |-> line("other") \cup (IF read /\ newer # NoTag THEN {"image"} ELSE {}),
         unread |-> uUnread
                    \cup (IF uRefs # {} /\ ~f.registry THEN {"newer tags"} ELSE {})
                    \cup (IF cycle /\ f.imageEol = EolUnknown THEN {"end-of-life dates"} ELSE {})]

\* The headline says how much there is of each, or that all it can check is
\* up to date; the unread lines come last.
Combine(sections) ==
    LET urgent == UNION {s.urgent : s \in sections}
        other == UNION {s.other : s \in sections}
    IN  [head |-> IF urgent \cup other = {} THEN "up to date" ELSE "updates",
         urgent |-> urgent, other |-> other, unread |-> UNION {s.unread : s \in sections}]

-----------------------------------------------------------------------------

NoReport == [head |-> "none", urgent |-> {}, other |-> {}, unread |-> {}]

UInit ==
    /\ uFacts = Quiet /\ uAt = "idle"
    /\ uQueue = <<>> /\ uSeen = {} /\ uRefs = {} /\ uUnread = {}
    /\ uAnswer = NoReport

AskUpdates ==
    /\ uAt = "idle"
    /\ uAt' = "images"
    /\ uFacts' \in Facts
    /\ uQueue' = uFacts'.roots
    /\ UNCHANGED <<uSeen, uRefs, uUnread, uAnswer>>

\* What a Compose file that was read adds to the queue.
Included_ByRoots(file) ==
    IF \E i \in DOMAIN uFacts.roots : uFacts.roots[i] = file THEN SetToSeq(uFacts.include[file]) ELSE <<>>

Included(file) == SetToSeq(uFacts.include[file])

\* The next Compose file: its images, and its includes at the end of the queue.
\* One that was read before is passed over, one that cannot be read is unread.
FollowInclude ==
    /\ uAt = "images" /\ uQueue # <<>>
    /\ LET file == Head(uQueue)
           new == file \notin uSeen
           read == new /\ file \notin uFacts.unreadable
       IN  /\ uSeen' = uSeen \cup {file}
           /\ uQueue' = Tail(uQueue) \o (IF read THEN Included(file) ELSE <<>>)
           /\ uRefs' = IF read THEN uRefs \cup {file} ELSE uRefs
           /\ uUnread' = IF new /\ ~read THEN uUnread \cup {file} ELSE uUnread
    /\ UNCHANGED <<uFacts, uAt, uAnswer>>

AnswerUpdates ==
    /\ uAt = "images" /\ uQueue = <<>>
    /\ uAt' = "done"
    /\ uAnswer' = Combine({HostsSection(uFacts), NetworkSection(uFacts), ImagesSection(uFacts)})
    /\ UNCHANGED <<uFacts, uQueue, uSeen, uRefs, uUnread>>

\* The next question starts afresh; only answers of registries are kept, which
\* are facts here.
AskAgain ==
    /\ uAt = "done"
    /\ uFacts' = Quiet /\ uAt' = "idle" /\ uAnswer' = NoReport
    /\ uQueue' = <<>> /\ uSeen' = {} /\ uRefs' = {} /\ uUnread' = {}

UNext == AskUpdates \/ FollowInclude \/ AnswerUpdates \/ AskAgain

USpec == UInit /\ [][UNext]_uVars

-----------------------------------------------------------------------------

\* The files that the includes lead to through files that can be read: the
\* least set that holds the roots and what its readable members include.
Reached ==
    {f \in Files : \A S \in SUBSET Files :
        /\ ToSet(uFacts.roots) \subseteq S
        /\ \A g \in S \ uFacts.unreadable : uFacts.include[g] \subseteq S
        => f \in S}

\* Whatever the includes look like, in a chain, shared or in a circle: the images
\* of every file they reach are looked at, and every file that could not be read
\* is said to be unread.
ImagesFollowed ==
    uAt = "done" =>
        /\ uRefs = Reached \ uFacts.unreadable
        /\ Reached \cap uFacts.unreadable \subseteq uAnswer.unread

\* The newest tag is one of the registry's, of the current one's shape and newer
\* than it, none of that shape is newer still, and there is none only when no tag
\* of that shape is newer than the current one.
NewestIsNewest ==
    uAt = "done" /\ uFacts.tag \in Tags /\ uFacts.tag.suffix # "-rc" =>
        LET current == uFacts.tag
            newest == NewestSameShape(current, uFacts.tags)
            newer == {t \in ToSet(uFacts.tags) \cap Tags :
                        /\ <<t.prefix, t.suffix>> = <<current.prefix, current.suffix>>
                        /\ Len(t.nums) = Len(current.nums) /\ Exceeds(t.nums, current.nums)}
        IN  /\ newest = NoTag <=> newer = {}
            /\ newest # NoTag => newest \in newer /\ \A t \in newer : ~Exceeds(t.nums, newest.nums)

\* What is behind and was read is in the answer, as urgent when a host misses a
\* critical update; every host and router not heard of in its season is unread;
\* and an answer that everything is up to date, with nothing unread, is true.
UpdatesTold ==
    uAt = "done" =>
        /\ "hosts" \notin uFacts.failed => \A h \in Hosts :
              /\ uFacts.host[h].pending = "critical" /\ uFacts.host[h].check # "absent" => h \in uAnswer.urgent
              /\ uFacts.host[h].check # "fresh" /\ (h \notin Summer \/ ~uFacts.winter) => h \in uAnswer.unread
        /\ uAnswer.head = "up to date" /\ uAnswer.unread = {} =>
              /\ uFacts.failed = {}
              /\ \A h \in Hosts : \/ uFacts.host[h] = QuietHost
                                  \/ h \in Summer /\ uFacts.winter /\ uFacts.host[h].check = "absent"
              /\ \A r \in Routers : \/ ~Exceeds(uFacts.router[r].latest, uFacts.router[r].version)
                                    \/ r \in Summer /\ uFacts.winter /\ ~uFacts.router[r].seen
              /\ uFacts.dsm \in {"2", "3"} /\ uFacts.osEol = 181

=============================================================================
