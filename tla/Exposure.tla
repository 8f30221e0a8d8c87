------------------------------ MODULE Exposure ------------------------------
(* The weekly port scan of the hub and both sites (exposure-check.py, one   *)
(* systemd unit at a time) and the tool that reads its last result and the  *)
(* certificates (exposure.py). Ports, tunnels and certificates are looked   *)
(* at as they are at the moment; days pass between any two steps.           *)
EXTENDS Integers, Sequences

CONSTANTS StaleDays,   \* STALE_DAYS
          MaxDay       \* bound

ASSUME DaysAssumption == StaleDays \in Nat

VARIABLES
    xDay,
    xScan,     \* the scan that runs: at, todo, result, errors, missed
    xFile,     \* latest.json, one such record, or NoLatest
    xAnswer

xVars == <<xDay, xScan, xFile, xAnswer>>

ScanSites == {"nyc", "rambles"}
Targets == {"hub"} \cup ScanSites
CertStates == {"good", "soon", "invalid", "raised"}

\* What is found at a target; `missed` is for the properties: the sites whose
\* peer had no endpoint when it was asked for.
NoScan == [at |-> 0, todo |-> <<>>, result |-> [t \in Targets |-> "none"], errors |-> {}, missed |-> {}]
NoLatest == NoScan
NoResult == [problems |-> {}, info |-> {}, unread |-> {}, clean |-> FALSE]

XInit ==
    /\ xDay = 1
    /\ xScan = NoScan /\ xFile = NoLatest /\ xAnswer = NoResult

\* site_endpoints: a peer without an endpoint is passed over in silence.
SiteEndpoints(peer) == {s \in ScanSites : peer[s] # "no endpoint"}

Visit(t, targets) == IF t \in targets THEN <<t>> ELSE <<>>

\* The addresses are looked up, each lookup may fail as a whole; a site whose
\* handshake is old is an error "skipped".
StartScan ==
    /\ xScan = NoScan
    /\ \E ip \in BOOLEAN, wg \in BOOLEAN, peer \in [ScanSites -> {"fresh", "stale", "no endpoint"}] :
          LET known == IF wg THEN SiteEndpoints(peer) ELSE {}
              fresh == {s \in known : peer[s] = "fresh"}
              targets == (IF ip THEN {"hub"} ELSE {}) \cup fresh
          IN  xScan' = [NoScan EXCEPT
                 !.at = xDay,
                 !.todo = Visit("hub", targets) \o Visit("nyc", targets) \o Visit("rambles", targets),
                 !.errors = {<<s, "skipped">> : s \in known \ fresh}
                            \cup (IF ip THEN {} ELSE {<<"hub", "lookup">>})
                            \cup (IF wg THEN {} ELSE {<<s, "lookup">> : s \in ScanSites}),
                 !.missed = IF wg THEN ScanSites \ known ELSE {}]
    /\ UNCHANGED <<xDay, xFile, xAnswer>>

\* The next target is scanned, or its scan fails or runs out of time.
ScanTarget ==
    /\ xScan.todo # <<>>
    /\ LET t == Head(xScan.todo)
       IN  \E found \in {"unexpected", "expected", "error"} :
             xScan' = [xScan EXCEPT !.todo = Tail(@), !.result[t] = found]
    /\ UNCHANGED <<xDay, xFile, xAnswer>>

\* The file is written as the scan goes.
Publish_Early ==
    /\ xScan # NoScan
    /\ xFile' = xScan /\ xScan' = NoScan /\ xAnswer' = NoResult
    /\ UNCHANGED <<xDay>>

\* The file is replaced in one step, and only when every target is done.
Publish ==
    /\ xScan # NoScan /\ xScan.todo = <<>>
    /\ xFile' = xScan /\ xScan' = NoScan /\ xAnswer' = NoResult
    /\ UNCHANGED <<xDay>>

\* The unit is stopped: the hub restarts, or its time limit is reached.
ScanDies ==
    /\ xScan # NoScan
    /\ xScan' = NoScan
    /\ UNCHANGED <<xDay, xFile, xAnswer>>

-----------------------------------------------------------------------------

\* _scan: what the last result says. The skipped are information, every other
\* error is unread.
ReadScan ==
    LET of(kind) == {t \in Targets : xFile.result[t] = kind}
        skipped == {e[1] : e \in {e \in xFile.errors : e[2] = "skipped"}}
    IN  IF xFile = NoLatest THEN [NoResult EXCEPT !.unread = {"port scan"}]
        ELSE [NoResult EXCEPT
                !.problems = of("unexpected") \cup (IF xDay - xFile.at > StaleDays THEN {"old scan"} ELSE {}),
                !.info = of("expected") \cup skipped,
                !.unread = of("error") \cup ({e[1] : e \in xFile.errors} \ skipped)]

\* _certs: invalid or soon to expire is a problem, not reached is unread.
ReadCerts(certs) ==
    [NoResult EXCEPT !.problems = IF certs \in {"soon", "invalid"} THEN {"certificate"} ELSE {},
                     !.unread = IF certs = "raised" THEN {"certificate"} ELSE {}]

ExposureCheck(certs) ==
    LET problems == ReadScan.problems \cup ReadCerts(certs).problems
    IN  /\ xAnswer' = [problems |-> problems, info |-> ReadScan.info,
                       unread |-> ReadScan.unread \cup ReadCerts(certs).unread, clean |-> problems = {}]
        /\ UNCHANGED <<xDay, xScan, xFile>>

DayPasses ==
    /\ xDay < MaxDay
    /\ xDay' = xDay + 1 /\ xAnswer' = NoResult
    /\ UNCHANGED <<xScan, xFile>>

XNext == StartScan \/ ScanTarget \/ Publish \/ ScanDies \/ DayPasses
         \/ \E certs \in CertStates : ExposureCheck(certs)

XSpec == XInit /\ [][XNext]_xVars

-----------------------------------------------------------------------------

\* An answer tells of every target: scanned, skipped or unread, whatever failed in
\* the scan before it, and also before the first scan; only a site whose peer had
\* no endpoint may be missing. One that says that nothing unexpected is reachable
\* is of a scan not too old that found nothing on any target it names, and whose
\* certificates are at worst unread.
EveryTargetTold ==
    xAnswer # NoResult =>
        /\ \A t \in Targets : \/ t \in xAnswer.problems \cup xAnswer.info \cup xAnswer.unread
                              \/ t \in xFile.missed
                              \/ "port scan" \in xAnswer.unread
        /\ xAnswer.clean =>
              /\ xFile # NoLatest => xDay - xFile.at <= StaleDays
              /\ \A t \in Targets : xFile.result[t] # "unexpected"

=============================================================================
