--------------------------- MODULE PreviewCompose ---------------------------
(* preview-compose.py: an app's production Compose file is rewritten into   *)
(* that of a preview, once on the runner and once more on the hub, over     *)
(* whatever was staged. A service keeps what is on the list of the allowed  *)
(* settings; what the platform decides (the project's name, limits, network)*)
(* is put in unseen and left out here.                                      *)
EXTENDS FiniteSets

CONSTANTS Keys,       \* settings of a service, besides those below
          AllowedKeys \* ALLOWED_KEYS

VARIABLES
    vStaged,   \* the file in S3, or NoFile
    vRunner,   \* the file that the runner wrote, or NoFile
    vUp        \* the file that the hub starts, NoFile, or Refused

vVars == <<vStaged, vRunner, vUp>>

Names == {"web", "worker"}
Absent == "db"    \* a name that only depends_on mentions

\* The labels of a service: whether Traefik is enabled and a port is given. The
\* image is the app's own, in either repository, that of the pull request or foreign.
Labels == {"none", "enabled", "port", "routed"}
Images == {"app", "app-preview", "pr", "foreign"}
Own == {"app", "app-preview", "pr"}

Service == [image : Images, keys : SUBSET Keys, labels : Labels, depends : SUBSET {"worker", Absent}]
Labelled(image, labels) == [image |-> image, keys |-> {}, labels |-> labels, depends |-> {}]
Plain == Labelled("app", "none")

NoFile == [n \in {"none"} |-> Plain]
Refused == [n \in {"refused"} |-> Plain]

\* Fragments of one service, or of two of which one is ordinary or routed.
Fragments == {[n \in {"web"} |-> s] : s \in Service}
         \cup {[n \in Names |-> IF n = "web" THEN s ELSE Labelled(i, l)] :
                    s \in Service, i \in {"app", "foreign"}, l \in {"none", "routed"}}

Enabled(file) == {n \in DOMAIN file : file[n].labels \in {"enabled", "routed"}}

Kept_AllButTheBad(keys) == keys \ {"volumes", "privileged"}

Kept(keys) == keys \cap AllowedKeys

\* One service as it is in a preview; only the routed one keeps labels.
Confined(s, names) ==
    [image |-> IF s.image \in Own THEN "pr" ELSE s.image,
     keys |-> Kept(s.keys),
     labels |-> IF s.labels = "routed" THEN "routed" ELSE "none",
     depends |-> s.depends \cap names]

\* Refused: none or more than one is enabled, or one without its port; and on the
\* hub, one that does not run the image of the pull request.
Rewrite(file, strict) ==
    LET new == [n \in DOMAIN file |-> Confined(file[n], DOMAIN file)]
        routed == Enabled(file)
    IN  IF \/ Cardinality(routed) # 1
           \/ \E n \in routed : file[n].labels # "routed" \/ (strict /\ new[n].image # "pr")
        THEN Refused ELSE new

-----------------------------------------------------------------------------

VInit == vStaged = NoFile /\ vRunner = NoFile /\ vUp = NoFile

\* The runner rewrites the file of the pull request's commit and stages it.
PlanPreview ==
    /\ vRunner = NoFile /\ vStaged = NoFile
    /\ \E file \in Fragments :
          /\ vRunner' = Rewrite(file, FALSE)
          /\ vStaged' = IF vRunner' = Refused THEN vStaged ELSE vRunner'
    /\ UNCHANGED vUp

\* Something else is in its place by the time the hub looks.
StagedAnew ==
    /\ vRunner = NoFile /\ vStaged = NoFile
    /\ vStaged' \in Fragments
    /\ UNCHANGED <<vRunner, vUp>>

RewriteOnHub ==
    /\ vStaged # NoFile /\ vUp = NoFile
    /\ vUp' = Rewrite(vStaged, TRUE)
    /\ UNCHANGED <<vStaged, vRunner>>

PreviewOver ==
    /\ vRunner = Refused \/ vUp # NoFile
    /\ vStaged' = NoFile /\ vRunner' = NoFile /\ vUp' = NoFile

VNext == PlanPreview \/ StagedAnew \/ RewriteOnHub \/ PreviewOver

VSpec == VInit /\ [][VNext]_vVars

-----------------------------------------------------------------------------

\* Whatever was staged, nothing comes up but services with allowed settings, that
\* depend on each other only, with one that is routed, of the pull request's image;
\* and the script changes nothing of its own output: the hub starts exactly the
\* file that the runner staged, or refuses it for its image.
RewriteIsStable ==
    vUp \notin {NoFile, Refused} =>
        /\ \A n \in DOMAIN vUp : vUp[n].keys \subseteq AllowedKeys /\ vUp[n].depends \subseteq DOMAIN vUp
        /\ \E n \in DOMAIN vUp : Enabled(vUp) = {n} /\ vUp[n].image = "pr"
        /\ vRunner # NoFile => vUp = vRunner
        /\ Rewrite(vUp, TRUE) = vUp

=============================================================================
