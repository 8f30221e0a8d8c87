--------------------------- MODULE PreviewsProofs ---------------------------
(* Theorems about Previews, for any number of previews, pushes and failures. *)
EXTENDS Previews, FiniteSetTheorems, TLAPS

\* Every push that has begun is one of a preview.
Placed == \A u \in Pushes : up[u] # "none" => at[u] \in Previews

\* What runs, and what may run because its preview-up.sh has counted.
LetIn == {p \in Previews : containers[p] = "running" \/ \E u \in Pushes : at[u] = p /\ up[u] \in Counted}

Room == Cardinality(LetIn) <= MaxPreviews + overlaps

\* Without an overlap one preview-up.sh at a time is past its count.
OneCounted ==
  overlaps = 0 => \A u, v \in Pushes : up[u] \in Counted /\ up[v] \in Counted => u = v

\* The steps of a first deploy, from finding no .env to writing it.
FirstSteps == {"drop db", "drop role", "create role", "create db", "seed", "env"}

Fits(p, u) == role[p] = u /\ db[p] = "seeded"

\* A preview-down.sh is on its way that will remove the directory.
Doomed(p) ==
  \E r \in Removers : Target(r) = p /\ (down[r] = "rm" \/ (down[r] = "drop role" /\ db[p] = "none"))

\* A .env belongs to role and data, or goes; there is none while a first deploy is
\* under way, which writes it only when it will belong to them, or go.
Kept ==
  /\ \A p \in Previews : env[p] # None => Fits(p, env[p]) \/ Doomed(p)
  /\ \A u \in Pushes : up[u] \in FirstSteps => env[at[u]] = None
  /\ \A u \in Pushes : up[u] = "env" => Fits(at[u], u) \/ Doomed(at[u]) \/ dir[at[u]] = None

EnvKept == faults["down"] = 0 /\ overlaps = 0 => Kept

PreviewInv == TypeOK /\ Placed /\ Room /\ OneCounted /\ EnvKept

USE PushesAssumption, SweeperAssumption, BoundAssumption, FiniteAssumption

-----------------------------------------------------------------------------
(* Lemmas                                                                  *)

\* A preview-down.sh that is under way has a preview to remove.
LEMMA HasTarget ==
  ASSUME TypeOK, NEW r \in Removers, down[r] # "idle"
  PROVE  Target(r) \in Previews
BY DEF TypeOK, Removers, Target

LEMMA Counts ==
  ASSUME TypeOK, NEW k \in Kinds, Fault(k)
  PROVE  faults' \in [Kinds -> Nat] /\ faults'[k] > 0 /\ \A j \in Kinds : faults'[j] >= faults[j]
<1>1. faults' = [faults EXCEPT ![k] = faults[k] + 1] BY DEF Fault
<1>2. faults \in [Kinds -> Nat] /\ faults[k] + 1 \in Nat BY DEF TypeOK
<1> QED BY <1>1, <1>2

\* Where a preview-up.sh comes from and goes to, and what it may start.
LEMMA UpMoves ==
  ASSUME TypeOK, Placed, NEW u \in Pushes, UpRun(u) \/ UpFails(u)
  PROVE  /\ up[u] \in UpSteps /\ at[u] \in Previews
         /\ UNCHANGED <<pr, at, down, sweeps>>
         /\ \E to \in UpSteps \cup UpEnds :
              /\ up' = [up EXCEPT ![u] = to]
              /\ to \in Counted => up[u] \in Counted \/ Capacity(u)
         /\ Capacity(u) \/ overlaps' = overlaps
         /\ \A p \in Previews :
              containers'[p] = "running" =>
                containers[p] = "running" \/ (p = at[u] /\ up[u] \in Counted)
<1> USE DEF TypeOK, Placed, UpSteps, UpEnds, Counted, Do, upFrame
<1>1. CASE Capacity(u) BY <1>1 DEF Capacity
<1>2. CASE MakeDir(u) BY <1>2 DEF MakeDir
<1>3. CASE Rewrite(u) BY <1>3 DEF Rewrite
<1>4. CASE CheckEnv(u) BY <1>4 DEF CheckEnv
<1>5. CASE PrepareDb(u) BY <1>5 DEF PrepareDb
<1>6. CASE Seed(u) BY <1>6 DEF Seed
<1>7. CASE WriteEnv(u) BY <1>7 DEF WriteEnv
<1>8. CASE WriteMeta(u) BY <1>8 DEF WriteMeta
<1>9. CASE Pull(u) BY <1>9 DEF Pull
<1>10. CASE ComposeUp(u) BY <1>10 DEF ComposeUp
<1>11. CASE Health(u) BY <1>11 DEF Health
<1>12. CASE UpFails(u)
  <2>1. /\ up[u] \in UpSteps /\ up' = [up EXCEPT ![u] = "failed"]
        /\ UNCHANGED <<pr, at, down, sweeps, overlaps>>
    BY <1>12 DEF UpFails
  <2>2. containers' = containers \/ containers' = [containers EXCEPT ![at[u]] = "stopped"]
    BY <1>12 DEF UpFails
  <2>3. \A p \in Previews : containers'[p] = "running" => containers[p] = "running"
    BY <2>2
  <2>4. "failed" \in UpEnds /\ "failed" \notin Counted OBVIOUS
  <2>5. at[u] \in Previews BY <2>1
  <2> HIDE DEF UpSteps, UpEnds, Counted, Do
  <2> QED BY <2>1, <2>3, <2>4, <2>5
<1> QED BY <1>1, <1>2, <1>3, <1>4, <1>5, <1>6, <1>7, <1>8, <1>9, <1>10, <1>11, <1>12 DEF UpRun

\* The other steps let no preview-up.sh past its count and start nothing.
LEMMA OthersMove ==
  ASSUME TypeOK,
         \/ \E u \in Pushes : Push(u)
         \/ \E p \in Previews : Close(p) \/ Age(p)
         \/ \E r \in Removers : DownRun(r) \/ DownFails(r)
         \/ Sweep \/ UNCHANGED vars
  PROVE  /\ \A u \in Pushes : up'[u] = "none" \/ up'[u] = "capacity" \/ up'[u] = up[u]
         /\ \A u \in Pushes : up'[u] \in Counted => up[u] \in Counted /\ at'[u] = at[u]
         /\ \A p \in Previews : containers'[p] = "running" => containers[p] = "running"
         /\ overlaps' = overlaps
<1> USE DEF TypeOK, Counted, UpSteps, downFrame, ups
<1>1. CASE \E u \in Pushes : Push(u)
  <2>1. PICK u \in Pushes, p \in Previews :
          /\ up' = [up EXCEPT ![u] = "capacity"]
          /\ at' = [at EXCEPT ![u] = p]
          /\ UNCHANGED <<containers, overlaps>>
    BY <1>1 DEF Push
  <2> QED BY <2>1
<1>2. CASE \E p \in Previews : Close(p) \/ Age(p) BY <1>2 DEF Close, Age
<1>3. CASE \E r \in Removers : DownRun(r) \/ DownFails(r)
  <2>1. PICK r \in Removers : DownRun(r) \/ DownFails(r) BY <1>3
  <2> QED BY <2>1, HasTarget DEF DownRun, DownFails, ComposeDown, DropDb, DropRole, RemoveDir
<1>4. CASE Sweep BY <1>4 DEF Sweep, SweepStart, SweepMeta, SweepList, SweepOrphan, SweepEnd
<1>5. CASE UNCHANGED vars BY <1>5 DEF vars
<1> QED BY <1>1, <1>2, <1>3, <1>4, <1>5

-----------------------------------------------------------------------------
(* Types                                                                   *)

LEMMA UpTypes ==
  ASSUME TypeOK, Placed, NEW u \in Pushes, UpRun(u) \/ UpFails(u)
  PROVE  TypeOK' /\ Placed'
<1>1. at[u] \in Previews /\ up' \in [Pushes -> {"none"} \cup UpSteps \cup UpEnds] /\ Placed'
  BY UpMoves DEF TypeOK, Placed
<1> USE <1>1 DEF TypeOK, Do, upFrame, sweeps, files, pg
<1>2. CASE Capacity(u) BY <1>2 DEF Capacity
<1>3. CASE MakeDir(u) BY <1>3 DEF MakeDir
<1>4. CASE Rewrite(u) BY <1>4 DEF Rewrite
<1>5. CASE CheckEnv(u) BY <1>5 DEF CheckEnv
<1>6. CASE PrepareDb(u)
  <2>1. db' \in [Previews -> {"none", "empty", "seeded"}]
    <3>1. db' = db \/ \E to \in {"none", "empty", db[at[u]]} : db' = [db EXCEPT ![at[u]] = to]
      BY <1>6 DEF PrepareDb
    <3> QED BY <3>1
  <2>2. role' \in [Previews -> Pushes \cup {None}]
    <3>1. role' = role \/ \E to \in {None, u, role[at[u]]} : role' = [role EXCEPT ![at[u]] = to]
      BY <1>6 DEF PrepareDb
    <3> QED BY <3>1
  <2> QED BY <1>6, <2>1, <2>2 DEF PrepareDb
<1>7. CASE Seed(u) BY <1>7 DEF Seed
<1>8. CASE WriteEnv(u) BY <1>8 DEF WriteEnv
<1>9. CASE WriteMeta(u) BY <1>9 DEF WriteMeta
<1>10. CASE Pull(u) BY <1>10 DEF Pull
<1>11. CASE ComposeUp(u) BY <1>11 DEF ComposeUp
<1>12. CASE Health(u) BY <1>12 DEF Health
<1>13. CASE UpFails(u)
  <2>1. faults' \in [Kinds -> Nat] BY <1>13, Counts DEF UpFails, Kinds
  <2>2. containers' = containers \/ containers' = [containers EXCEPT ![at[u]] = "stopped"]
    BY <1>13 DEF UpFails
  <2> QED BY <1>13, <2>1, <2>2 DEF UpFails
<1> QED BY <1>2, <1>3, <1>4, <1>5, <1>6, <1>7, <1>8, <1>9, <1>10, <1>11, <1>12, <1>13 DEF UpRun

LEMMA DownTypes ==
  ASSUME TypeOK, NEW r \in Removers, DownRun(r) \/ DownFails(r)
  PROVE  TypeOK'
<1>1. down[r] # "idle" BY DEF DownRun, DownFails, ComposeDown, DropDb, DropRole, RemoveDir, Continue
<1>2. Target(r) \in Previews BY <1>1, HasTarget
<1> USE <1>1, <1>2 DEF TypeOK, Continue, EndDown, downFrame, sweeps, files, pg, ups, DownSteps
<1>3. Sweeper \in Removers BY DEF Removers
<1>4. CASE ComposeDown(r)
  <2>1. faults' \in [Kinds -> Nat] BY <1>4, Counts DEF ComposeDown, Kinds
  <2> QED BY <1>3, <1>4, <2>1 DEF ComposeDown
<1>5. CASE DropDb(r) BY <1>3, <1>5 DEF DropDb
<1>6. CASE DropRole(r) BY <1>3, <1>6 DEF DropRole
<1>7. CASE RemoveDir(r) BY <1>3, <1>7 DEF RemoveDir
<1>8. CASE DownFails(r)
  <2>1. faults' \in [Kinds -> Nat] BY <1>8, Counts DEF DownFails, Kinds
  <2> QED BY <1>3, <1>8, <2>1 DEF DownFails
<1> QED BY <1>4, <1>5, <1>6, <1>7, <1>8 DEF DownRun

LEMMA SweepTypes == ASSUME TypeOK, Sweep PROVE TypeOK'
<1> USE DEF TypeOK, downFrame, files, pg, ups, DownSteps, Remove, Visit
<1>1. Sweeper \in Removers BY DEF Removers
<1>2. CASE SweepStart BY <1>2 DEF SweepStart
<1>3. CASE SweepList BY <1>3 DEF SweepList
<1>4. CASE SweepEnd BY <1>4 DEF SweepEnd
<1>5. ASSUME NEW p \in Previews, SweepMeta(p) PROVE TypeOK'
  <2>1. faults' \in [Kinds -> Nat] BY <1>5, Counts DEF SweepMeta, Kinds
  <2>2. \/ down' = down /\ sweeping' = sweeping
        \/ down[Sweeper] = "idle" /\ down' = [down EXCEPT ![Sweeper] = "compose"] /\ sweeping' = p
    BY <1>5 DEF SweepMeta
  <2>3. /\ seen' \in SUBSET Previews /\ left' \in SUBSET Previews
        /\ UNCHANGED <<downFrame, containers, files, pg, sweep>>
    BY <1>5 DEF SweepMeta
  <2> QED BY <1>1, <2>1, <2>2, <2>3
<1>6. ASSUME NEW p \in Previews, SweepOrphan(p) PROVE TypeOK' BY <1>1, <1>6 DEF SweepOrphan
<1> QED BY <1>2, <1>3, <1>4, <1>5, <1>6 DEF Sweep

LEMMA TypesStep == ASSUME TypeOK, Placed, [Next]_vars PROVE TypeOK' /\ Placed'
<1>1. ASSUME NEW u \in Pushes, Push(u) PROVE TypeOK' /\ Placed'
  <2>1. PICK p \in Previews : pr' = [pr EXCEPT ![p] = "open"] /\ at' = [at EXCEPT ![u] = p]
    BY <1>1 DEF Push
  <2> QED BY <1>1, <2>1 DEF Push, TypeOK, Placed, UpSteps, files, pg, sweeps
<1>2. ASSUME NEW u \in Pushes, UpRun(u) \/ UpFails(u) PROVE TypeOK' /\ Placed' BY <1>2, UpTypes
<1>3. ASSUME NEW p \in Previews, Close(p) \/ Age(p) PROVE TypeOK' /\ Placed'
  <2>1. p # Sweeper /\ p \in Removers /\ Sweeper \in Removers BY DEF Removers
  <2>2. CASE Close(p)
    <3>1. pr' \in [Previews -> {"open", "closed"}] BY <2>2 DEF Close, TypeOK
    <3>2. down' \in [Removers -> {"idle"} \cup DownSteps] /\ down'[Sweeper] = down[Sweeper]
      BY <2>1, <2>2 DEF Close, TypeOK, DownSteps
    <3> QED BY <2>2, <3>1, <3>2 DEF Close, TypeOK, Placed, files, pg, ups, sweeps
  <2>3. CASE Age(p) BY <2>3 DEF Age, TypeOK, Placed, files, pg, ups, sweeps
  <2> QED BY <1>3, <2>2, <2>3
<1>4. ASSUME NEW r \in Removers, DownRun(r) \/ DownFails(r) PROVE TypeOK' /\ Placed'
  <2>1. UNCHANGED <<up, at>>
    BY <1>4 DEF DownRun, DownFails, ComposeDown, DropDb, DropRole, RemoveDir, downFrame, ups
  <2> QED BY <1>4, <2>1, DownTypes DEF Placed
<1>5. CASE Sweep
  <2>1. UNCHANGED <<up, at>>
    BY <1>5 DEF Sweep, SweepStart, SweepMeta, SweepList, SweepOrphan, SweepEnd, downFrame, ups
  <2> QED BY <1>5, <2>1, SweepTypes DEF Placed
<1>6. CASE UNCHANGED vars BY <1>6 DEF vars, files, pg, ups, sweeps, TypeOK, Placed
<1> QED BY <1>1, <1>2, <1>3, <1>4, <1>5, <1>6 DEF Next

-----------------------------------------------------------------------------
(* The limit                                                               *)

LEMMA OneMore ==
  ASSUME NEW S, NEW x, IsFiniteSet(S)
  PROVE  IsFiniteSet(S \cup {x}) /\ Cardinality(S \cup {x}) <= Cardinality(S) + 1
<1>1. /\ IsFiniteSet(S \cup {x})
      /\ Cardinality(S \cup {x}) = Cardinality(S) \/ Cardinality(S \cup {x}) = Cardinality(S) + 1
  BY FS_AddElement, Zenon
<1>2. Cardinality(S) \in Nat BY FS_CardinalityType
<1> QED BY <1>1, <1>2

LEMMA OneCountedStep == ASSUME TypeOK, Placed, OneCounted, [Next]_vars PROVE OneCounted'
<1>1. ASSUME NEW u \in Pushes, UpRun(u) \/ UpFails(u) PROVE OneCounted'
  <2>1. PICK to : up' = [up EXCEPT ![u] = to] /\ (to \in Counted => up[u] \in Counted \/ Capacity(u))
    BY <1>1, UpMoves
  <2>2. CASE Capacity(u)
    <3>1. overlaps' = overlaps + (IF \E v \in Pushes : up[v] \in Counted THEN 1 ELSE 0)
      BY <2>2 DEF Capacity
    <3>2. overlaps' = 0 => overlaps = 0 /\ \A v \in Pushes : up[v] \notin Counted
      BY <3>1 DEF TypeOK
    <3> QED BY <2>1, <3>2 DEF OneCounted, TypeOK
  <2>3. CASE ~Capacity(u)
    <3>1. overlaps' = overlaps BY <1>1, <2>3, UpMoves
    <3>2. \A v \in Pushes : up'[v] \in Counted => up[v] \in Counted BY <2>1, <2>3 DEF TypeOK
    <3> QED BY <3>1, <3>2 DEF OneCounted
  <2> QED BY <2>2, <2>3
<1>2. ASSUME \A u \in Pushes : ~(UpRun(u) \/ UpFails(u)) PROVE OneCounted'
  BY <1>2, OthersMove DEF OneCounted, Next
<1> QED BY <1>1, <1>2

LEMMA RoomStep == ASSUME TypeOK, Placed, Room, [Next]_vars PROVE Room'
<1>0. IsFiniteSet(LetIn) /\ Cardinality(LetIn) \in Nat
  BY FS_Subset, FS_CardinalityType DEF LetIn
<1>1. ASSUME NEW u \in Pushes, UpRun(u) \/ UpFails(u) PROVE Room'
  <2>0. at[u] \in Previews BY <1>1, UpMoves
  <2>1. PICK to : up' = [up EXCEPT ![u] = to] /\ (to \in Counted => up[u] \in Counted \/ Capacity(u))
    BY <1>1, UpMoves
  <2>2. /\ at' = at
        /\ \A p \in Previews :
             containers'[p] = "running" => containers[p] = "running" \/ (p = at[u] /\ up[u] \in Counted)
    BY <1>1, UpMoves
  <2>3. CASE Capacity(u)
    <3>1. overlaps' = overlaps + (IF \E v \in Pushes : up[v] \in Counted THEN 1 ELSE 0)
      BY <2>3 DEF Capacity
    <3>2. containers' = containers /\ up'[u] = IF NoRoom(at[u]) THEN "refused" ELSE "mkdir"
      BY <2>3 DEF Capacity, TypeOK
    <3>3. LetIn' \subseteq LetIn \cup {at[u]}
      BY <2>1, <2>2, <3>2 DEF LetIn, TypeOK
    <3>4. CASE NoRoom(at[u])
      <4>1. LetIn' \subseteq LetIn BY <2>1, <2>2, <3>2, <3>4 DEF LetIn, TypeOK, Counted, UpSteps
      <4>2. Cardinality(LetIn') <= Cardinality(LetIn) BY <1>0, <4>1, FS_Subset
      <4>3. Cardinality(LetIn') \in Nat BY <1>0, <4>1, FS_Subset, FS_CardinalityType
      <4> QED BY <1>0, <3>1, <4>2, <4>3 DEF Room, TypeOK
    <3>5. CASE ~NoRoom(at[u]) /\ \E v \in Pushes : up[v] \in Counted
      <4>1. /\ IsFiniteSet(LetIn \cup {at[u]})
            /\ Cardinality(LetIn \cup {at[u]}) <= Cardinality(LetIn) + 1
        BY <1>0, OneMore
      <4>2. /\ Cardinality(LetIn') <= Cardinality(LetIn \cup {at[u]})
            /\ Cardinality(LetIn') \in Nat /\ Cardinality(LetIn \cup {at[u]}) \in Nat
        BY <3>3, <4>1, FS_Subset, FS_CardinalityType
      <4> QED BY <1>0, <3>1, <3>5, <4>1, <4>2 DEF Room, TypeOK
    <3>6. CASE ~NoRoom(at[u]) /\ ~ \E v \in Pushes : up[v] \in Counted
      <4>1. LetIn' \subseteq Others(at[u]) \cup {at[u]}
        BY <2>1, <2>2, <3>2, <3>6 DEF LetIn, Others, TypeOK
      <4>2. IsFiniteSet(Others(at[u])) BY FS_Subset DEF Others
      <4>3. Cardinality(Others(at[u])) \in Nat /\ Cardinality(Others(at[u])) + 1 <= MaxPreviews
        BY <3>6, <4>2, FS_CardinalityType DEF NoRoom
      <4>4. /\ IsFiniteSet(Others(at[u]) \cup {at[u]})
            /\ Cardinality(Others(at[u]) \cup {at[u]}) <= Cardinality(Others(at[u])) + 1
        BY <4>2, OneMore
      <4>5. /\ Cardinality(LetIn') <= Cardinality(Others(at[u]) \cup {at[u]})
            /\ Cardinality(LetIn') \in Nat /\ Cardinality(Others(at[u]) \cup {at[u]}) \in Nat
        BY <4>1, <4>4, FS_Subset, FS_CardinalityType
      <4> QED BY <3>1, <4>3, <4>4, <4>5 DEF Room, TypeOK
    <3> QED BY <3>4, <3>5, <3>6
  <2>4. CASE ~Capacity(u)
    <3>1. overlaps' = overlaps BY <1>1, <2>4, UpMoves
    <3>2. LetIn' \subseteq LetIn BY <2>1, <2>2, <2>4 DEF LetIn, TypeOK
    <3>3. Cardinality(LetIn') <= Cardinality(LetIn) /\ Cardinality(LetIn') \in Nat
      BY <1>0, <3>2, FS_Subset, FS_CardinalityType
    <3> QED BY <1>0, <3>1, <3>3 DEF Room, TypeOK
  <2> QED BY <2>3, <2>4
<1>2. ASSUME \A u \in Pushes : ~(UpRun(u) \/ UpFails(u)) PROVE Room'
  <2>1. /\ \A u \in Pushes : up'[u] \in Counted => up[u] \in Counted /\ at'[u] = at[u]
        /\ \A p \in Previews : containers'[p] = "running" => containers[p] = "running"
        /\ overlaps' = overlaps
    BY <1>2, OthersMove DEF Next
  <2>2. LetIn' \subseteq LetIn BY <2>1 DEF LetIn
  <2>3. Cardinality(LetIn') <= Cardinality(LetIn) /\ Cardinality(LetIn') \in Nat
    BY <1>0, <2>2, FS_Subset, FS_CardinalityType
  <2> QED BY <1>0, <2>1, <2>3 DEF Room, TypeOK
<1> QED BY <1>1, <1>2

-----------------------------------------------------------------------------
(* .env, role and database                                                 *)

LEMMA Blameless ==
  ASSUME TypeOK, [Next]_vars, faults'["down"] = 0, overlaps' = 0
  PROVE  faults["down"] = 0 /\ overlaps = 0
<1> USE DEF TypeOK
<1>0. \A k \in Kinds : Fault(k) => faults'["down"] >= faults["down"]
  BY Counts DEF Kinds
<1>1. ASSUME NEW u \in Pushes, Push(u) PROVE UNCHANGED <<faults, overlaps>> BY <1>1 DEF Push
<1>2. ASSUME NEW u \in Pushes, UpRun(u) PROVE faults' = faults /\ overlaps' >= overlaps
  <2>1. faults' = faults
    BY <1>2 DEF UpRun, Capacity, MakeDir, Rewrite, CheckEnv, PrepareDb, Seed, WriteEnv, WriteMeta, Pull,
                ComposeUp, Health, upFrame
  <2>2. overlaps' = overlaps \/ overlaps' = overlaps + (IF \E v \in Pushes : up[v] \in Counted THEN 1 ELSE 0)
    BY <1>2 DEF UpRun, Capacity, MakeDir, Rewrite, CheckEnv, PrepareDb, Seed, WriteEnv, WriteMeta, Pull,
                ComposeUp, Health, upFrame
  <2> QED BY <2>1, <2>2
<1>3. ASSUME NEW u \in Pushes, UpFails(u) PROVE faults'["down"] >= faults["down"] /\ overlaps' = overlaps
  BY <1>0, <1>3 DEF UpFails, Kinds
<1>4. ASSUME NEW p \in Previews, Close(p) \/ Age(p) PROVE UNCHANGED <<faults, overlaps>>
  BY <1>4 DEF Close, Age
<1>5. ASSUME NEW r \in Removers, DownRun(r) \/ DownFails(r)
      PROVE  faults'["down"] >= faults["down"] /\ overlaps' = overlaps
  <2>1. faults' = faults \/ Fault("down")
    BY <1>5 DEF DownRun, DownFails, ComposeDown, DropDb, DropRole, RemoveDir
  <2>2. overlaps' = overlaps
    BY <1>5 DEF DownRun, DownFails, ComposeDown, DropDb, DropRole, RemoveDir, downFrame
  <2> QED BY <1>0, <2>1, <2>2 DEF Kinds
<1>6. ASSUME Sweep PROVE faults'["down"] >= faults["down"] /\ overlaps' = overlaps
  BY <1>0, <1>6 DEF Sweep, SweepStart, SweepMeta, SweepList, SweepOrphan, SweepEnd, downFrame, Kinds
<1>7. CASE UNCHANGED vars BY <1>7 DEF vars
<1>8. faults["down"] \in Nat /\ overlaps \in Nat BY DEF Kinds
<1> QED BY <1>1, <1>2, <1>3, <1>4, <1>5, <1>6, <1>7, <1>8 DEF Next

\* One first deploy at most is under way, and it keeps what it finds.
LEMMA UpKeeps ==
  ASSUME TypeOK, Placed, OneCounted, Kept, overlaps = 0, overlaps' = 0,
         NEW u \in Pushes, UpRun(u) \/ UpFails(u)
  PROVE  Kept'
<1>1. at[u] \in Previews /\ UNCHANGED <<at, down, sweeping>> BY UpMoves DEF sweeps
<1>2. \A v \in Pushes : v # u => up'[v] = up[v]
  BY UpMoves DEF TypeOK
<1>3. up[u] \in Counted => \A v \in Pushes : v # u => up[v] \notin FirstSteps
  BY DEF OneCounted, FirstSteps, Counted, UpSteps
<1>4. \A p \in Previews : Doomed(p) /\ (db'[p] = db[p] \/ db'[p] = "none") => Doomed(p)'
  BY <1>1 DEF Doomed, Target
<1>5. \A v \in Pushes : up[v] \in FirstSteps => at[v] \in Previews BY DEF Placed, FirstSteps
<1> USE DEF Kept, Fits
\* A step that leaves data and files alone, and makes u no writer of .env.
<1>6. ASSUME UNCHANGED <<env, dir, role, db>>,
             up'[u] \in FirstSteps => up'[u] # "env" /\ env[at[u]] = None
      PROVE  Kept'
  BY <1>1, <1>2, <1>4, <1>5, <1>6, "env" \in FirstSteps DEF FirstSteps
<1> USE DEF TypeOK, Do, files, FirstSteps
<1>7. CASE Capacity(u) BY <1>6, <1>7 DEF Capacity, pg
<1>8. CASE MakeDir(u)
  <2>1. UNCHANGED <<env, role, db>> BY <1>8 DEF MakeDir, pg
  <2>2. up[u] \in Counted BY <1>8 DEF MakeDir, Counted, UpSteps
  <2>3. up'[u] \notin FirstSteps BY <1>8 DEF MakeDir
  <2>4. \A v \in Pushes : up'[v] \notin FirstSteps BY <1>2, <1>3, <2>2, <2>3
  <2>5. "env" \in FirstSteps OBVIOUS
  <2>6. \A p \in Previews : env'[p] # None => Fits(p, env[p])' \/ Doomed(p)' BY <1>4, <2>1
  <2> HIDE DEF FirstSteps, TypeOK, Do
  <2> QED BY <2>4, <2>5, <2>6
<1>9. CASE Rewrite(u) BY <1>6, <1>9 DEF Rewrite, pg
<1>10. CASE CheckEnv(u) BY <1>6, <1>10 DEF CheckEnv, pg
<1>11. CASE PrepareDb(u)
  <2>0. up[u] \in FirstSteps \ {"seed", "env"}
    BY <1>11 DEF PrepareDb
  <2>1. env[at[u]] = None /\ up[u] \in Counted /\ up'[u] # "env"
    <3>1. env[at[u]] = None BY <2>0
    <3>2. up[u] \in Counted BY <2>0 DEF Counted, UpSteps
    <3>3. \E next \in {"drop role", "create role", "create db", "seed", "failed"} : up' = [up EXCEPT ![u] = next]
      BY <1>11 DEF PrepareDb
    <3>4. up'[u] # "env" BY <3>3
    <3> QED BY <3>1, <3>2, <3>4
  <2>2. \A p \in Previews : p # at[u] => role'[p] = role[p] /\ db'[p] = db[p]
    BY <1>11 DEF PrepareDb
  <2>3. UNCHANGED <<env, dir>> BY <1>11 DEF PrepareDb
  <2> QED BY <1>1, <1>2, <1>3, <1>4, <1>5, <2>1, <2>2, <2>3
<1>12. CASE Seed(u)
  <2>1. env[at[u]] = None /\ up[u] \in Counted BY <1>12 DEF Seed, Counted, UpSteps
  <2>2. \/ up'[u] = "failed"
        \/ role' = role /\ role[at[u]] = u /\ db' = [db EXCEPT ![at[u]] = "seeded"]
    BY <1>12 DEF Seed
  <2>3. \A p \in Previews : p # at[u] => role'[p] = role[p] /\ db'[p] = db[p] BY <1>12 DEF Seed
  <2>4. UNCHANGED <<env, dir>> BY <1>12 DEF Seed
  <2>5. up'[u] = "env" => Fits(at[u], u)' BY <1>1, <2>2
  <2>6. \A p \in Previews : env'[p] # None => Fits(p, env[p])' \/ Doomed(p)'
    BY <1>4, <2>1, <2>3, <2>4
  <2>7. \A v \in Pushes : v # u => up'[v] \notin FirstSteps BY <1>2, <1>3, <2>1
  <2> QED BY <1>1, <2>1, <2>4, <2>5, <2>6, <2>7
<1>13. CASE WriteEnv(u)
  <2>1. up[u] \in Counted /\ up'[u] \notin FirstSteps /\ UNCHANGED <<role, db, dir>>
    BY <1>13 DEF WriteEnv, pg, Counted, UpSteps
  <2>2. env' = [env EXCEPT ![at[u]] = IF dir[at[u]] # None THEN u ELSE env[at[u]]]
    BY <1>13 DEF WriteEnv
  <2>3. dir[at[u]] # None => Fits(at[u], u) \/ Doomed(at[u]) BY <1>13 DEF WriteEnv
  <2> QED BY <1>1, <1>2, <1>3, <1>4, <1>5, <2>1, <2>2, <2>3
<1>14. CASE WriteMeta(u) BY <1>6, <1>14 DEF WriteMeta, pg
<1>15. CASE Pull(u) BY <1>6, <1>15 DEF Pull, pg
<1>16. CASE ComposeUp(u) BY <1>6, <1>16 DEF ComposeUp, pg
<1>17. CASE Health(u) BY <1>6, <1>17 DEF Health, pg
<1>18. CASE UpFails(u) BY <1>6, <1>18 DEF UpFails, pg
<1> QED BY <1>7, <1>8, <1>9, <1>10, <1>11, <1>12, <1>13, <1>14, <1>15, <1>16, <1>17, <1>18 DEF UpRun

\* A preview-down.sh that drops the database goes on to drop the role and remove
\* the directory.
LEMMA DownKeeps ==
  ASSUME TypeOK, Placed, Kept, NEW r \in Removers, DownRun(r) \/ DownFails(r), faults'["down"] = 0
  PROVE  Kept'
<1>1. UNCHANGED <<up, at>>
  BY DEF DownRun, DownFails, ComposeDown, DropDb, DropRole, RemoveDir, downFrame, ups
<1>2. \A u \in Pushes : up[u] \in FirstSteps => at[u] \in Previews BY DEF Placed, FirstSteps
<1>3. ~Fault("down") BY Counts DEF Kinds
<1>4. DownRun(r) BY <1>3 DEF DownFails
<1>5. down[r] # "idle" /\ Target(r) \in Previews
  BY <1>4, HasTarget DEF DownRun, ComposeDown, DropDb, DropRole, RemoveDir, Continue
<1>6. \A s \in Removers : s # r => down'[s] = down[s] /\ Target(s)' = Target(s)
  <2>1. \E to : down' = [down EXCEPT ![r] = to]
    BY <1>4 DEF DownRun, ComposeDown, DropDb, DropRole, RemoveDir, Continue
  <2>2. r # Sweeper => sweeping' = sweeping
    BY <1>4 DEF DownRun, ComposeDown, DropDb, DropRole, RemoveDir, EndDown, sweeps
  <2> QED BY <2>1, <2>2 DEF Target, TypeOK
<1> USE DEF TypeOK, Kept, Fits, FirstSteps, files, pg
<1>7. CASE ComposeDown(r)
  <2>1. UNCHANGED <<env, dir, role, db>> /\ down[r] = "compose" BY <1>7 DEF ComposeDown, Continue
  <2>2. \A p \in Previews : Doomed(p) => Doomed(p)' BY <1>6, <2>1 DEF Doomed
  <2> QED BY <1>1, <1>2, <2>1, <2>2
<1>8. CASE DropDb(r)
  <2>1. /\ UNCHANGED <<env, dir, role>> /\ db' = [db EXCEPT ![Target(r)] = "none"]
        /\ down[r] = "drop db" /\ down'[r] = "drop role" /\ Target(r)' = Target(r)
    BY <1>8 DEF DropDb, Continue, sweeps, Target
  <2>2. ASSUME NEW p \in Previews, Doomed(p) \/ p = Target(r) PROVE Doomed(p)'
    <3>1. CASE p = Target(r)
      <4>1. Target(r)' = p /\ down'[r] = "drop role" /\ db'[p] = "none" BY <2>1, <3>1
      <4> QED BY <4>1 DEF Doomed
    <3>2. CASE p # Target(r)
      <4>1. PICK s \in Removers :
              Target(s) = p /\ (down[s] = "rm" \/ (down[s] = "drop role" /\ db[p] = "none"))
        BY <2>2, <3>2 DEF Doomed
      <4>2. Target(s)' = p /\ down'[s] = down[s] /\ db'[p] = db[p] BY <1>6, <2>1, <3>2, <4>1
      <4> QED BY <4>1, <4>2 DEF Doomed
    <3> QED BY <3>1, <3>2
  <2> QED BY <1>1, <1>2, <2>1, <2>2
<1>9. CASE DropRole(r)
  <2>1. /\ UNCHANGED <<env, dir, db>> /\ down[r] = "drop role"
        /\ \A p \in Previews : p # Target(r) => role'[p] = role[p]
    BY <1>9 DEF DropRole, Continue
  <2>2. CASE db[Target(r)] = "none"
    <3>1. down'[r] = "rm" /\ Target(r)' = Target(r)
      BY <1>9, <2>2 DEF DropRole, Continue, Target
    <3>2. ASSUME NEW p \in Previews, Doomed(p) \/ p = Target(r) PROVE Doomed(p)'
      <4>1. CASE p = Target(r) BY <3>1, <4>1 DEF Doomed
      <4>2. CASE p # Target(r) BY <1>6, <2>1, <3>2, <4>2 DEF Doomed
      <4> QED BY <4>1, <4>2
    <3> QED BY <1>1, <1>2, <2>1, <3>2
  <2>3. CASE db[Target(r)] # "none"
    <3>1. role' = role BY <1>9, <2>3 DEF DropRole
    <3>2. \A p \in Previews : Doomed(p) => Doomed(p)' BY <1>6, <2>1, <2>3 DEF Doomed
    <3> QED BY <1>1, <1>2, <2>1, <3>1, <3>2
  <2> QED BY <2>2, <2>3
<1>10. CASE RemoveDir(r)
  <2>1. /\ UNCHANGED <<role, db>> /\ down[r] = "rm"
        /\ env' = [env EXCEPT ![Target(r)] = None] /\ dir' = [dir EXCEPT ![Target(r)] = None]
    BY <1>10 DEF RemoveDir, Continue
  <2>2. \A p \in Previews : Doomed(p) /\ p # Target(r) => Doomed(p)' BY <1>6, <2>1 DEF Doomed
  <2> QED BY <1>1, <1>2, <1>5, <2>1, <2>2
<1> QED BY <1>4, <1>7, <1>8, <1>9, <1>10 DEF DownRun

\* Nothing else touches what belongs together.
LEMMA OthersKeep ==
  ASSUME TypeOK, Placed, Kept,
         \/ \E u \in Pushes : Push(u)
         \/ \E p \in Previews : Close(p) \/ Age(p)
         \/ Sweep \/ UNCHANGED vars
  PROVE  Kept'
<1>1. UNCHANGED <<env, dir, role, db>>
  BY DEF Push, Close, Age, Sweep, SweepStart, SweepMeta, SweepList, SweepOrphan, SweepEnd, vars, files, pg
<1>2. \A u \in Pushes : up'[u] \in FirstSteps => up[u] = up'[u] /\ at'[u] = at[u] /\ at[u] \in Previews
  BY OthersMove DEF FirstSteps, Counted, UpSteps, Placed
<1>3. \A r \in Removers :
        down[r] \in {"drop role", "rm"} => down'[r] = down[r] /\ Target(r)' = Target(r)
  <2> USE DEF TypeOK, Target, Removers
  <2>1. CASE \E u \in Pushes : Push(u) BY <2>1 DEF Push, sweeps
  <2>2. CASE \E p \in Previews : Close(p) \/ Age(p) BY <2>2 DEF Close, Age, sweeps
  <2>3. CASE SweepStart \/ SweepList \/ SweepEnd BY <2>3 DEF SweepStart, SweepList, SweepEnd
  <2>4. ASSUME NEW p \in Previews, SweepMeta(p) \/ SweepOrphan(p)
        PROVE  \/ UNCHANGED <<down, sweeping>>
               \/ down[Sweeper] = "idle" /\ down' = [down EXCEPT ![Sweeper] = "compose"]
    BY <2>4 DEF SweepMeta, SweepOrphan, Visit, Remove
  <2>5. CASE \E p \in Previews : SweepMeta(p) \/ SweepOrphan(p) BY <2>4, <2>5
  <2>6. CASE UNCHANGED vars BY <2>6 DEF vars, sweeps
  <2> QED BY <2>1, <2>2, <2>3, <2>5, <2>6 DEF Sweep
<1>4. \A p \in Previews : Doomed(p) => Doomed(p)' BY <1>1, <1>3 DEF Doomed
<1> QED BY <1>1, <1>2, <1>4 DEF Kept, Fits, FirstSteps

LEMMA EnvKeptStep == ASSUME TypeOK, Placed, OneCounted, EnvKept, [Next]_vars PROVE EnvKept'
<1> SUFFICES ASSUME faults'["down"] = 0, overlaps' = 0 PROVE Kept' BY DEF EnvKept
<1>1. Kept /\ overlaps = 0 BY Blameless DEF EnvKept
<1> QED BY <1>1, UpKeeps, DownKeeps, OthersKeep DEF Next

-----------------------------------------------------------------------------
(* Theorems                                                                *)

\* The inductive invariant: who has counted, what is let in, and which .env has
\* its role and database or is about to go.
THEOREM Invariance == SafeSpec => []PreviewInv
<1>1. Init => PreviewInv
  <2> SUFFICES ASSUME Init PROVE PreviewInv OBVIOUS
  <2>1. TypeOK BY DEF Init, TypeOK, Kinds, Removers
  <2>2. LetIn = {} BY DEF Init, LetIn, Counted, UpSteps
  <2>3. Room BY <2>2, FS_EmptySet DEF Room, Init
  <2>4. Placed /\ OneCounted /\ EnvKept
    BY DEF Init, Placed, OneCounted, EnvKept, Kept, Counted, UpSteps, FirstSteps
  <2> QED BY <2>1, <2>3, <2>4 DEF PreviewInv
<1>2. PreviewInv /\ [Next]_vars => PreviewInv'
  BY TypesStep, OneCountedStep, RoomStep, EnvKeptStep DEF PreviewInv
<1> QED BY <1>1, <1>2, PTL DEF SafeSpec

\* Types, and a sweep waits for the preview-down.sh it called.
THEOREM TypeCorrect == SafeSpec => []TypeOK
BY Invariance, PTL DEF PreviewInv

\* preview-up.sh's limit is passed at most once for every run that counted while
\* another was on its way, for any number of previews and pushes.
THEOREM RoomKept == SafeSpec => []OvershootNeedsOverlap
<1>1. PreviewInv => OvershootNeedsOverlap
  <2> SUFFICES ASSUME PreviewInv PROVE OvershootNeedsOverlap OBVIOUS
  <2>1. IsFiniteSet(LetIn) /\ {p \in Previews : containers[p] = "running"} \subseteq LetIn
    BY FS_Subset DEF LetIn
  <2>2. /\ Cardinality({p \in Previews : containers[p] = "running"}) <= Cardinality(LetIn)
        /\ Cardinality({p \in Previews : containers[p] = "running"}) \in Nat
        /\ Cardinality(LetIn) \in Nat
    BY <2>1, FS_Subset, FS_CardinalityType
  <2> QED BY <2>2 DEF OvershootNeedsOverlap, PreviewInv, Room, TypeOK
<1> QED BY <1>1, Invariance, PTL

\* Whatever failed in preview-up.sh, a .env that is found between runs belongs to
\* the role and to a seeded database, unless runs overlapped or a removal broke off.
THEOREM EnvAlwaysUsable == SafeSpec => []EnvUsable
<1>1. PreviewInv => EnvUsable
  <2> SUFFICES ASSUME PreviewInv, faults["down"] = 0, overlaps = 0,
                      NEW p \in Previews, env[p] # None, ~Busy(p)
               PROVE  role[p] = env[p] /\ db[p] = "seeded"
    BY DEF EnvUsable
  <2>1. ~Doomed(p) BY DEF Busy, Doomed
  <2> QED BY <2>1 DEF PreviewInv, EnvKept, Kept, Fits
<1> QED BY <1>1, Invariance, PTL

=============================================================================
