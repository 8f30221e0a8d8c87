-------------------------- MODULE OnboardDbsProofs --------------------------
(* Theorems about OnboardDbs, for any registry, any number of runs that    *)
(* overlap and fail, and whether or not Postgres asks for passwords.       *)
EXTENDS OnboardDbs, TLAPS

USE NamesAssumption, NoAppAssumption, TrustAssumption, BoundAssumption
USE DEF vars, world, locals, frame, Go, Fails, Trouble, Passwords,
        Looking, Active, Ends, InHand, WithRole, WithDb

-----------------------------------------------------------------------------
\* Types are kept by every step.
LEMMA TypeStep ==
  ASSUME TypeOK, PasswordsPlaced, NEW r \in Runs, Step(r)
  PROVE  TypeOK'
<1> USE DEF TypeOK, PasswordsPlaced
<1>1. CASE Begin(r) BY <1>1 DEF Begin
<1>2. CASE ReadPassword(r) BY <1>2 DEF ReadPassword
<1>3. CASE ReadFails(r) BY <1>3 DEF ReadFails
<1>4. CASE Put(r)
  <2>1. CASE MayPut(app[r])
    <3>1. ssm[app[r]] = None /\ ssm' = [ssm EXCEPT ![app[r]] = pw[r]]
      BY <1>4, <2>1 DEF Put, MayPut
    <3>2. \A s \in Runs : pc[s] \in Looking => app[s] # app[r] BY <3>1
    <3>3. pw[r] \in Passwords /\ app[r] \in Apps BY <1>4 DEF Put
    <3>4. ssm' \in [Apps -> Passwords \cup {None}] BY <3>1, <3>3
    <3>5. ASSUME NEW s \in Runs, pc'[s] \in {"put"} \cup Looking
          PROVE  app'[s] \in Apps \ todo'[s]
      BY <1>4, <2>1, <3>5 DEF Put
    <3>6. ASSUME NEW s \in Runs, pc'[s] \in Looking PROVE pw'[s] = ssm'[app'[s]]
      <4>1. CASE s = r BY <1>4, <3>1, <3>3, <4>1 DEF Put
      <4>2. CASE s # r BY <1>4, <2>1, <3>1, <3>2, <3>5, <3>6, <4>2 DEF Put
      <4> QED BY <4>1, <4>2
    <3>7. pc' \in [Runs -> {"idle"} \cup Active \cup Ends] BY <1>4, <2>1 DEF Put
    <3>8. created' \in [Runs -> BOOLEAN]
      <4>1. created' = [created EXCEPT ![r] = TRUE] BY <1>4, <2>1 DEF Put
      <4> QED BY <4>1
    <3> QED BY <1>4, <2>1, <3>4, <3>5, <3>6, <3>7, <3>8 DEF Put
  <2>2. CASE ~ MayPut(app[r]) BY <1>4, <2>2 DEF Put
  <2> QED BY <2>1, <2>2
<1>5. CASE PutFails(r) BY <1>5 DEF PutFails, AfterPutFails
<1>6. CASE LookRole(r) BY <1>6 DEF LookRole, RoleIsSettled
<1>7. CASE SetRole(r) BY <1>7 DEF SetRole
<1>8. CASE LookDb(r) BY <1>8 DEF LookDb
<1>9. CASE SetDb(r) BY <1>9 DEF SetDb
<1>10. CASE LookSchema(r) BY <1>10 DEF LookSchema
<1>11. CASE SetSchema(r) BY <1>11 DEF SetSchema
<1>12. CASE Verify(r) BY <1>12 DEF Verify, LogsIn
<1>13. CASE VerifyFails(r) BY <1>13 DEF VerifyFails
<1>14. CASE End(r) BY <1>14 DEF End
<1>15. CASE Abort(r) BY <1>15 DEF Abort, Refused
<1>16. CASE Dies(r) BY <1>16 DEF Dies
<1> QED
  BY <1>1, <1>2, <1>3, <1>4, <1>5, <1>6, <1>7, <1>8,
     <1>9, <1>10, <1>11, <1>12, <1>13, <1>14, <1>15, <1>16 DEF Step

-----------------------------------------------------------------------------
\* A password that a run generated reaches SSM first and then the role.
LEMMA PasswordStep ==
  ASSUME TypeOK, PasswordsPlaced, NEW r \in Runs, Step(r)
  PROVE  PasswordsPlaced'
<1> USE DEF TypeOK, PasswordsPlaced
<1>1. CASE Begin(r) BY <1>1 DEF Begin
<1>2. CASE ReadPassword(r) BY <1>2 DEF ReadPassword
<1>3. CASE ReadFails(r) BY <1>3 DEF ReadFails
<1>4. CASE Put(r) BY <1>4 DEF Put, MayPut
<1>5. CASE PutFails(r) BY <1>5 DEF PutFails, AfterPutFails
<1>6. CASE LookRole(r) BY <1>6 DEF LookRole, RoleIsSettled
<1>7. CASE SetRole(r) BY <1>7 DEF SetRole
<1>8. CASE LookDb(r) BY <1>8 DEF LookDb
<1>9. CASE SetDb(r) BY <1>9 DEF SetDb
<1>10. CASE LookSchema(r) BY <1>10 DEF LookSchema
<1>11. CASE SetSchema(r) BY <1>11 DEF SetSchema
<1>12. CASE Verify(r) BY <1>12 DEF Verify, LogsIn
<1>13. CASE VerifyFails(r) BY <1>13 DEF VerifyFails
<1>14. CASE End(r) BY <1>14 DEF End
<1>15. CASE Abort(r) BY <1>15 DEF Abort, Refused
<1>16. CASE Dies(r) BY <1>16 DEF Dies
<1> QED
  BY <1>1, <1>2, <1>3, <1>4, <1>5, <1>6, <1>7, <1>8,
     <1>9, <1>10, <1>11, <1>12, <1>13, <1>14, <1>15, <1>16 DEF Step

-----------------------------------------------------------------------------
\* The only password a role is given is the one in SSM.
LEMMA LostStep ==
  ASSUME TypeOK, PasswordsPlaced, NoLostPassword, NEW r \in Runs, Step(r)
  PROVE  NoLostPassword'
<1> USE DEF TypeOK, PasswordsPlaced, NoLostPassword
<1>1. CASE UNCHANGED <<ssm, role>> BY <1>1
<1>2. CASE Put(r) BY <1>2 DEF Put, MayPut
<1>3. CASE PutFails(r) BY <1>3 DEF PutFails
<1>4. CASE SetRole(r) BY <1>4 DEF SetRole
<1> QED
  BY <1>1, <1>2, <1>3, <1>4
     DEF Step, Begin, ReadPassword, ReadFails, LookRole, LookDb, LookSchema,
         Verify, VerifyFails, End, Abort, Dies, SetDb, SetSchema

-----------------------------------------------------------------------------
\* What a run has brought into line stays so, also under other runs.
LEMMA WorkStep ==
  ASSUME TypeOK, PasswordsPlaced, WorkStays, NEW r \in Runs, Step(r)
  PROVE  WorkStays'
<1> USE DEF TypeOK, PasswordsPlaced, WorkStays
<1>1. CASE Begin(r) BY <1>1 DEF Begin
<1>2. CASE ReadPassword(r) BY <1>2 DEF ReadPassword
<1>3. CASE ReadFails(r) BY <1>3 DEF ReadFails
<1>4. CASE Put(r) BY <1>4 DEF Put, MayPut
<1>5. CASE PutFails(r) BY <1>5 DEF PutFails, AfterPutFails
<1>6. CASE LookRole(r) BY <1>6 DEF LookRole, RoleIsSettled
<1>7. CASE SetRole(r) BY <1>7 DEF SetRole
<1>8. CASE LookDb(r) BY <1>8 DEF LookDb
<1>9. CASE SetDb(r) BY <1>9 DEF SetDb
<1>10. CASE LookSchema(r) BY <1>10 DEF LookSchema
<1>11. CASE SetSchema(r) BY <1>11 DEF SetSchema
<1>12. CASE Verify(r) BY <1>12 DEF Verify, LogsIn
<1>13. CASE VerifyFails(r) BY <1>13 DEF VerifyFails
<1>14. CASE End(r) BY <1>14 DEF End
<1>15. CASE Abort(r) BY <1>15 DEF Abort, Refused
<1>16. CASE Dies(r) BY <1>16 DEF Dies
<1> QED
  BY <1>1, <1>2, <1>3, <1>4, <1>5, <1>6, <1>7, <1>8,
     <1>9, <1>10, <1>11, <1>12, <1>13, <1>14, <1>15, <1>16 DEF Step

-----------------------------------------------------------------------------
\* What was reported as good stays good.
LEMMA GoodStep ==
  ASSUME TypeOK, PasswordsPlaced, NoLostPassword, WorkStays, GoodStaysGood, NEW r \in Runs, Step(r)
  PROVE  GoodStaysGood'
<1> USE DEF TypeOK, PasswordsPlaced, NoLostPassword, WorkStays, GoodStaysGood,
           Owned, Agree
<1>1. CASE Begin(r) BY <1>1 DEF Begin
<1>2. CASE ReadPassword(r) BY <1>2 DEF ReadPassword
<1>3. CASE ReadFails(r) BY <1>3 DEF ReadFails
<1>4. CASE Put(r) BY <1>4 DEF Put, MayPut
<1>5. CASE PutFails(r) BY <1>5 DEF PutFails, AfterPutFails
<1>6. CASE LookRole(r) BY <1>6 DEF LookRole, RoleIsSettled
<1>7. CASE SetRole(r) BY <1>7 DEF SetRole
<1>8. CASE LookDb(r) BY <1>8 DEF LookDb
<1>9. CASE SetDb(r) BY <1>9 DEF SetDb
<1>10. CASE LookSchema(r) BY <1>10 DEF LookSchema
<1>11. CASE SetSchema(r) BY <1>11 DEF SetSchema
<1>12. CASE Verify(r) BY <1>12 DEF Verify, LogsIn
<1>13. CASE VerifyFails(r) BY <1>13 DEF VerifyFails
<1>14. CASE End(r) BY <1>14 DEF End
<1>15. CASE Abort(r) BY <1>15 DEF Abort, Refused
<1>16. CASE Dies(r) BY <1>16 DEF Dies
<1> QED
  BY <1>1, <1>2, <1>3, <1>4, <1>5, <1>6, <1>7, <1>8,
     <1>9, <1>10, <1>11, <1>12, <1>13, <1>14, <1>15, <1>16 DEF Step

-----------------------------------------------------------------------------
\* A run that is left alone sees the world it left.
LEMMA AloneStep ==
  ASSUME TypeOK, PasswordsPlaced, WorkStays, LeftAlone, NEW r \in Runs, Step(r)
  PROVE  LeftAlone'
<1> USE DEF TypeOK, PasswordsPlaced, WorkStays, LeftAlone
<1>1. CASE Begin(r) BY <1>1 DEF Begin
<1>2. CASE ReadPassword(r) BY <1>2 DEF ReadPassword
<1>3. CASE ReadFails(r) BY <1>3 DEF ReadFails
<1>4. CASE Put(r) BY <1>4 DEF Put, MayPut
<1>5. CASE PutFails(r) BY <1>5 DEF PutFails, AfterPutFails
<1>6. CASE LookRole(r) BY <1>6 DEF LookRole, RoleIsSettled
<1>7. CASE SetRole(r) BY <1>7 DEF SetRole
<1>8. CASE LookDb(r) BY <1>8 DEF LookDb
<1>9. CASE SetDb(r) BY <1>9 DEF SetDb
<1>10. CASE LookSchema(r) BY <1>10 DEF LookSchema
<1>11. CASE SetSchema(r) BY <1>11 DEF SetSchema
<1>12. CASE Verify(r) BY <1>12 DEF Verify, LogsIn
<1>13. CASE VerifyFails(r) BY <1>13 DEF VerifyFails
<1>14. CASE End(r) BY <1>14 DEF End
<1>15. CASE Abort(r) BY <1>15 DEF Abort, Refused
<1>16. CASE Dies(r) BY <1>16 DEF Dies
<1> QED
  BY <1>1, <1>2, <1>3, <1>4, <1>5, <1>6, <1>7, <1>8,
     <1>9, <1>10, <1>11, <1>12, <1>13, <1>14, <1>15, <1>16 DEF Step

-----------------------------------------------------------------------------
\* An app that such a run failed gets no password from another one.
LEMMA FailedStep ==
  ASSUME TypeOK, PasswordsPlaced, LeftAlone, FailedStays, NEW r \in Runs, Step(r)
  PROVE  FailedStays'
<1> USE DEF TypeOK, PasswordsPlaced, LeftAlone, FailedStays
<1>1. CASE Begin(r) BY <1>1 DEF Begin
<1>2. CASE ReadPassword(r) BY <1>2 DEF ReadPassword
<1>3. CASE ReadFails(r) BY <1>3 DEF ReadFails
<1>4. CASE Put(r) BY <1>4 DEF Put, MayPut
<1>5. CASE PutFails(r) BY <1>5 DEF PutFails, AfterPutFails
<1>6. CASE LookRole(r) BY <1>6 DEF LookRole, RoleIsSettled
<1>7. CASE SetRole(r) BY <1>7 DEF SetRole
<1>8. CASE LookDb(r) BY <1>8 DEF LookDb
<1>9. CASE SetDb(r) BY <1>9 DEF SetDb
<1>10. CASE LookSchema(r) BY <1>10 DEF LookSchema
<1>11. CASE SetSchema(r) BY <1>11 DEF SetSchema
<1>12. CASE Verify(r) BY <1>12 DEF Verify, LogsIn
<1>13. CASE VerifyFails(r) BY <1>13 DEF VerifyFails
<1>14. CASE End(r) BY <1>14 DEF End
<1>15. CASE Abort(r) BY <1>15 DEF Abort, Refused
<1>16. CASE Dies(r) BY <1>16 DEF Dies
<1> QED
  BY <1>1, <1>2, <1>3, <1>4, <1>5, <1>6, <1>7, <1>8,
     <1>9, <1>10, <1>11, <1>12, <1>13, <1>14, <1>15, <1>16 DEF Step

-----------------------------------------------------------------------------
\* A run that is left alone ends, fails no app it could repair, forgets none.
LEMMA HealStep ==
  ASSUME TypeOK, PasswordsPlaced, NoLostPassword, WorkStays, LeftAlone,
         FailedStays, RerunHeals, NEW r \in Runs, Step(r)
  PROVE  RerunHeals'
<1> USE DEF TypeOK, PasswordsPlaced, NoLostPassword, WorkStays, LeftAlone,
           FailedStays, RerunHeals
<1>1. CASE Begin(r) BY <1>1 DEF Begin
<1>2. CASE ReadPassword(r) BY <1>2 DEF ReadPassword
<1>3. CASE ReadFails(r) BY <1>3 DEF ReadFails
<1>4. CASE Put(r) BY <1>4 DEF Put, MayPut
<1>5. CASE PutFails(r) BY <1>5 DEF PutFails, AfterPutFails
<1>6. CASE LookRole(r) BY <1>6 DEF LookRole, RoleIsSettled
<1>7. CASE SetRole(r) BY <1>7 DEF SetRole
<1>8. CASE LookDb(r) BY <1>8 DEF LookDb
<1>9. CASE SetDb(r) BY <1>9 DEF SetDb
<1>10. CASE LookSchema(r) BY <1>10 DEF LookSchema
<1>11. CASE SetSchema(r) BY <1>11 DEF SetSchema
<1>12. CASE Verify(r) BY <1>12 DEF Verify, LogsIn
<1>13. CASE VerifyFails(r) BY <1>13 DEF VerifyFails
<1>14. CASE End(r) BY <1>14 DEF End
<1>15. CASE Abort(r) BY <1>15 DEF Abort, Refused
<1>16. CASE Dies(r) BY <1>16 DEF Dies
<1> QED
  BY <1>1, <1>2, <1>3, <1>4, <1>5, <1>6, <1>7, <1>8,
     <1>9, <1>10, <1>11, <1>12, <1>13, <1>14, <1>15, <1>16 DEF Step

-----------------------------------------------------------------------------
\* No step overwrites a password, drops a role or takes anything away.
LEMMA AddStep ==
  ASSUME TypeOK, PasswordsPlaced, NEW r \in Runs, Step(r)
  PROVE  Adds
<1> USE DEF TypeOK, PasswordsPlaced, Adds
<1>1. CASE UNCHANGED world BY <1>1
<1>2. CASE Put(r) BY <1>2 DEF Put, MayPut
<1>3. CASE PutFails(r) BY <1>3 DEF PutFails
<1>4. CASE SetRole(r) BY <1>4 DEF SetRole
<1>5. CASE SetDb(r) BY <1>5 DEF SetDb
<1>6. CASE SetSchema(r) BY <1>6 DEF SetSchema
<1> QED
  BY <1>1, <1>2, <1>3, <1>4, <1>5, <1>6
     DEF Step, Begin, ReadPassword, ReadFails, LookRole, LookDb, LookSchema,
         Verify, VerifyFails, End, Abort, Dies

-----------------------------------------------------------------------------
(* The theorems                                                            *)

\* The inductive invariant holds of every reachable state.
THEOREM Invariance == Spec => []IInv
<1>1. Init => IInv
  BY DEF Init, IInv, TypeOK, NoLostPassword, PasswordsPlaced, WorkStays,
         GoodStaysGood, LeftAlone, FailedStays, RerunHeals
<1>2. ASSUME IInv, [Next]_vars PROVE IInv'
  <2>1. ASSUME NEW r \in Runs, Step(r) PROVE IInv'
    BY <1>2, <2>1, TypeStep, PasswordStep, LostStep, WorkStep, GoodStep,
       AloneStep, FailedStep, HealStep DEF IInv
  <2>2. CASE UNCHANGED vars
    BY <1>2, <2>2 DEF IInv, TypeOK, NoLostPassword, PasswordsPlaced, WorkStays,
         GoodStaysGood, Owned, Agree, LeftAlone, FailedStays, RerunHeals
  <2> QED BY <1>2, <2>1, <2>2 DEF Next
<1> QED BY <1>1, <1>2, PTL DEF Spec

\* Types, and past the put a run works with the password that SSM holds.
THEOREM TypeCorrect == Spec => []TypeOK
<1>1. IInv => TypeOK BY DEF IInv
<1> QED BY <1>1, Invariance, PTL

\* A role made by the script never has a password that SSM does not know,
\* wherever runs die and however they overlap (onboard-app-dbs.sh:87-119).
THEOREM NothingLost == Spec => []NoLostPassword
<1>1. IInv => NoLostPassword BY DEF IInv
<1> QED BY <1>1, Invariance, PTL

\* What is reported as good is good and stays good (lines 139-159).
THEOREM ReportsHold == Spec => []GoodStaysGood
<1>1. IInv => GoodStaysGood BY DEF IInv
<1> QED BY <1>1, Invariance, PTL

\* A run that nothing disturbs repairs what earlier ones left (line 17).
THEOREM Healing == Spec => []RerunHeals
<1>1. IInv => RerunHeals BY DEF IInv
<1> QED BY <1>1, Invariance, PTL

\* If Postgres asks for passwords, a login proves what it is there to prove
\* (lines 14-15).
THEOREM ProofsProve == ~ LocalTrust /\ Spec => []GoodMeansProven
<1>1. ~ LocalTrust /\ IInv => GoodMeansProven
  BY DEF IInv, GoodStaysGood, GoodMeansProven
<1>2. ~ LocalTrust => [](~ LocalTrust)
  <2>1. ~ LocalTrust => (~ LocalTrust)' OBVIOUS
  <2> QED BY <2>1, PTL
<1> QED BY <1>1, <1>2, Invariance, PTL

\* Runs only ever add (line 17).
THEOREM OnlyAdds == Spec => Additive
<1>1. ASSUME IInv, [Next]_vars PROVE [Adds]_vars
  <2>1. ASSUME NEW r \in Runs, Step(r) PROVE Adds BY <1>1, <2>1, AddStep DEF IInv
  <2> QED BY <1>1, <2>1 DEF Next
<1> QED BY <1>1, Invariance, PTL DEF Spec, Additive

=============================================================================
