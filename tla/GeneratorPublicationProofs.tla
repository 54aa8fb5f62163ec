--------------------- MODULE GeneratorPublicationProofs ---------------------
(***************************************************************************)
(* Proofs about GeneratorPublication, for any sets of publishers, recipes  *)
(* and bytes and any bounds.                                               *)
(*                                                                         *)
(* The argument: once a publisher has passed stage or load, the bytes it   *)
(* expects are the ones the row declares, and the row never declares       *)
(* others (Expects).  So every upload, even one that lands after its       *)
(* publisher is gone, writes the declared bytes (Stored), and a successful *)
(* check remains true until the object is damaged (Checked).  A revision   *)
(* that is still the observed one means that the set was not completed     *)
(* since (Fresh).                                                          *)
(***************************************************************************)
EXTENDS GeneratorPublication, TLAPS

\* The steps at which a publisher has seen the row.
Seen == {"upload", "verify", "recheck", "cleanup", "complete", "withdraw", "discard"}

\* A row declares its bytes from the moment it exists.
RowsDeclare ==
  \A r \in Recipes :
    /\ (status[r] = "absent") <=> (declared[r] = None)
    /\ r \in listed => declared[r] # None

\* A publisher expects the declared bytes.
Expects ==
  \A p \in Publishers :
    /\ pc[p] = "stage" => output[p] \in Outputs
    /\ pc[p] \in Seen => output[p] \in Outputs /\ declared[recipe[p]] = output[p]

\* What is in the store, or may still arrive there, is what is declared.
Stored ==
  /\ \A r \in Recipes : r \notin damaged => object[r] \in {None, declared[r]}
  /\ \A r \in Recipes, b \in Outputs : <<r, b>> \in late => declared[r] = b

\* What a publisher has verified is still there.
Checked ==
  \A p \in Publishers :
    pc[p] \in {"cleanup", "complete", "discard"} /\ recipe[p] \notin damaged
      => object[recipe[p]] = declared[recipe[p]]

\* The revision tells whether the set became ready since it was observed.
Fresh ==
  \A p \in Publishers :
    pc[p] \in Seen =>
      /\ observed[p] <= revision[recipe[p]]
      /\ observed[p] = revision[recipe[p]] => found[p] = renewals[recipe[p]]

OneReady ==
  \A r, s \in Recipes : status[r] = "ready" /\ status[s] = "ready" => r = s

Inv == RowsDeclare /\ Expects /\ Stored /\ Checked /\ Fresh /\ OneReady /\ ReadyIsExact

-----------------------------------------------------------------------------
LEMMA InitInv == Init => TypeOK /\ Inv
BY PublicationAssumption
DEF Init, TypeOK, Statuses, Inv, RowsDeclare, Expects, Stored, Checked, Fresh, OneReady,
    ReadyIsExact, Seen

LEMMA NextType == TypeOK /\ Inv /\ [Next]_vars => TypeOK'
<1> SUFFICES ASSUME TypeOK, Inv, [Next]_vars PROVE TypeOK'
  OBVIOUS
<1> USE PublicationAssumption DEF TypeOK, Statuses, set, store, locals, Goto, Observe, Fail, Pending
<1>1. ASSUME NEW p \in Publishers, Start(p) PROVE TypeOK'
  BY <1>1 DEF Start, publish_generator_output, reconcile_generator_artifact
<1>2. ASSUME NEW p \in Publishers, stage_or_resume_generator_artifact(p) PROVE TypeOK'
  BY <1>2 DEF stage_or_resume_generator_artifact
<1>3. ASSUME NEW p \in Publishers, generator_artifact_for_reconciliation(p) PROVE TypeOK'
  BY <1>3 DEF generator_artifact_for_reconciliation
<1>4. ASSUME NEW p \in Publishers, put_file_with_headers(p) PROVE TypeOK'
  BY <1>4 DEF put_file_with_headers
<1>5. ASSUME NEW p \in Publishers, upload_error(p) PROVE TypeOK'
  BY <1>5 DEF upload_error, Inv, Expects, Seen
<1>6. ASSUME NEW p \in Publishers, verify_exact_object(p) PROVE TypeOK'
  BY <1>6 DEF verify_exact_object
<1>7. ASSUME NEW p \in Publishers, close(p) PROVE TypeOK'
  BY <1>7 DEF close
<1>8. ASSUME NEW p \in Publishers, fail_generator_artifact(p) PROVE TypeOK'
  BY <1>8 DEF fail_generator_artifact
<1>9. ASSUME NEW p \in Publishers, fail_ready_generator_verification(p) PROVE TypeOK'
  BY <1>9 DEF fail_ready_generator_verification
<1>10. ASSUME NEW p \in Publishers, complete_generator_artifact(p) PROVE TypeOK'
  BY <1>10 DEF complete_generator_artifact
<1>11. ASSUME NEW p \in Publishers, Leave(p) PROVE TypeOK'
  BY <1>11 DEF Leave, Inv, Expects, Seen
<1>12. CASE Others
  <2>1. ASSUME NEW r \in Recipes, NEW b \in Outputs, land(r, b) PROVE TypeOK'
    BY <2>1 DEF land
  <2>2. ASSUME NEW r \in Recipes, damage(r) PROVE TypeOK'
    BY <2>2 DEF damage
  <2>3. ASSUME NEW r \in Recipes,
               read_artifact(r) \/ supersede_artifact_set(r) \/ end_command(r)
        PROVE  TypeOK'
    BY <2>3 DEF read_artifact, supersede_artifact_set, end_command
  <2> QED
    BY <1>12, <2>1, <2>2, <2>3 DEF Others
<1>13. CASE UNCHANGED vars
  BY <1>13 DEF vars
<1> QED
  BY <1>1, <1>2, <1>3, <1>4, <1>5, <1>6, <1>7, <1>8, <1>9, <1>10, <1>11, <1>12, <1>13
  DEF Next, Proceed

LEMMA NextInv == TypeOK /\ Inv /\ [Next]_vars => Inv'
<1> SUFFICES ASSUME TypeOK, Inv, [Next]_vars PROVE Inv'
  OBVIOUS
<1>0. TypeOK'
  BY NextType
<1> USE PublicationAssumption, <1>0
    DEF TypeOK, Statuses, set, store, locals, Goto, Observe, Fail, Pending, Inv,
        Seen
<1>1. ASSUME NEW p \in Publishers, Start(p) PROVE Inv'
  <2> USE <1>1 DEF Start, publish_generator_output, reconcile_generator_artifact
  <2>1. RowsDeclare' /\ OneReady'
    BY DEF RowsDeclare, OneReady, Expects
  <2>2. Expects'
    BY DEF Expects, RowsDeclare
  <2>3. Stored'
    BY DEF Stored, Expects, RowsDeclare
  <2>4. Checked'
    BY DEF Checked, Expects, Stored, RowsDeclare
  <2>5. Fresh'
    BY DEF Fresh
  <2>6. ReadyIsExact'
    BY DEF ReadyIsExact, Checked, Expects
  <2> QED
    BY <2>1, <2>2, <2>3, <2>4, <2>5, <2>6
<1>2. ASSUME NEW p \in Publishers, stage_or_resume_generator_artifact(p) PROVE Inv'
  <2> USE <1>2 DEF stage_or_resume_generator_artifact
  <2>1. RowsDeclare' /\ OneReady'
    BY DEF RowsDeclare, OneReady, Expects
  <2>2. Expects'
    BY DEF Expects, RowsDeclare
  <2>3. Stored'
    BY DEF Stored, Expects, RowsDeclare
  <2>4. Checked'
    BY DEF Checked, Expects, Stored, RowsDeclare
  <2>5. Fresh'
    BY DEF Fresh
  <2>6. ReadyIsExact'
    BY DEF ReadyIsExact, Checked, Expects
  <2> QED
    BY <2>1, <2>2, <2>3, <2>4, <2>5, <2>6
<1>3. ASSUME NEW p \in Publishers, generator_artifact_for_reconciliation(p) PROVE Inv'
  <2> USE <1>3 DEF generator_artifact_for_reconciliation
  <2>1. RowsDeclare' /\ OneReady'
    BY DEF RowsDeclare, OneReady, Expects
  <2>2. Expects'
    BY DEF Expects, RowsDeclare
  <2>3. Stored'
    BY DEF Stored, Expects, RowsDeclare
  <2>4. Checked'
    BY DEF Checked, Expects, Stored, RowsDeclare
  <2>5. Fresh'
    BY DEF Fresh
  <2>6. ReadyIsExact'
    BY DEF ReadyIsExact, Checked, Expects
  <2> QED
    BY <2>1, <2>2, <2>3, <2>4, <2>5, <2>6
<1>4. ASSUME NEW p \in Publishers, put_file_with_headers(p) PROVE Inv'
  <2> USE <1>4 DEF put_file_with_headers
  <2>1. RowsDeclare' /\ OneReady'
    BY DEF RowsDeclare, OneReady, Expects
  <2>2. Expects'
    BY DEF Expects, RowsDeclare
  <2>3. Stored'
    BY DEF Stored, Expects, RowsDeclare
  <2>4. Checked'
    BY DEF Checked, Expects, Stored, RowsDeclare
  <2>5. Fresh'
    BY DEF Fresh
  <2>6. ReadyIsExact'
    BY DEF ReadyIsExact, Checked, Expects
  <2> QED
    BY <2>1, <2>2, <2>3, <2>4, <2>5, <2>6
<1>5. ASSUME NEW p \in Publishers, upload_error(p) PROVE Inv'
  <2> USE <1>5 DEF upload_error
  <2>1. RowsDeclare' /\ OneReady'
    BY DEF RowsDeclare, OneReady, Expects
  <2>2. Expects'
    BY DEF Expects, RowsDeclare
  <2>3. Stored'
    BY DEF Stored, Expects, RowsDeclare
  <2>4. Checked'
    BY DEF Checked, Expects, Stored, RowsDeclare
  <2>5. Fresh'
    BY DEF Fresh
  <2>6. ReadyIsExact'
    BY DEF ReadyIsExact, Checked, Expects
  <2> QED
    BY <2>1, <2>2, <2>3, <2>4, <2>5, <2>6
<1>6. ASSUME NEW p \in Publishers, verify_exact_object(p) PROVE Inv'
  <2> USE <1>6 DEF verify_exact_object
  <2>1. RowsDeclare' /\ OneReady'
    BY DEF RowsDeclare, OneReady, Expects
  <2>2. Expects'
    BY DEF Expects, RowsDeclare
  <2>3. Stored'
    BY DEF Stored, Expects, RowsDeclare
  <2>4. Checked'
    BY DEF Checked, Expects, Stored, RowsDeclare
  <2>5. Fresh'
    BY DEF Fresh
  <2>6. ReadyIsExact'
    BY DEF ReadyIsExact, Checked, Expects
  <2> QED
    BY <2>1, <2>2, <2>3, <2>4, <2>5, <2>6
<1>7. ASSUME NEW p \in Publishers, close(p) PROVE Inv'
  <2> USE <1>7 DEF close
  <2>1. RowsDeclare' /\ OneReady'
    BY DEF RowsDeclare, OneReady, Expects
  <2>2. Expects'
    BY DEF Expects, RowsDeclare
  <2>3. Stored'
    BY DEF Stored, Expects, RowsDeclare
  <2>4. Checked'
    BY DEF Checked, Expects, Stored, RowsDeclare
  <2>5. Fresh'
    BY DEF Fresh
  <2>6. ReadyIsExact'
    BY DEF ReadyIsExact, Checked, Expects
  <2> QED
    BY <2>1, <2>2, <2>3, <2>4, <2>5, <2>6
<1>8. ASSUME NEW p \in Publishers, fail_generator_artifact(p) PROVE Inv'
  <2> USE <1>8 DEF fail_generator_artifact
  <2>1. RowsDeclare' /\ OneReady'
    BY DEF RowsDeclare, OneReady, Expects
  <2>2. Expects'
    BY DEF Expects, RowsDeclare
  <2>3. Stored'
    BY DEF Stored, Expects, RowsDeclare
  <2>4. Checked'
    BY DEF Checked, Expects, Stored, RowsDeclare
  <2>5. Fresh'
    BY DEF Fresh
  <2>6. ReadyIsExact'
    BY DEF ReadyIsExact, Checked, Expects
  <2> QED
    BY <2>1, <2>2, <2>3, <2>4, <2>5, <2>6
<1>9. ASSUME NEW p \in Publishers, fail_ready_generator_verification(p) PROVE Inv'
  <2> USE <1>9 DEF fail_ready_generator_verification
  <2>1. RowsDeclare' /\ OneReady'
    BY DEF RowsDeclare, OneReady, Expects
  <2>2. Expects'
    BY DEF Expects, RowsDeclare
  <2>3. Stored'
    BY DEF Stored, Expects, RowsDeclare
  <2>4. Checked'
    BY DEF Checked, Expects, Stored, RowsDeclare
  <2>5. Fresh'
    BY DEF Fresh
  <2>6. ReadyIsExact'
    BY DEF ReadyIsExact, Checked, Expects
  <2> QED
    BY <2>1, <2>2, <2>3, <2>4, <2>5, <2>6
<1>10. ASSUME NEW p \in Publishers, complete_generator_artifact(p) PROVE Inv'
  <2> USE <1>10 DEF complete_generator_artifact
  <2>1. RowsDeclare' /\ OneReady'
    BY DEF RowsDeclare, OneReady, Expects
  <2>2. Expects'
    BY DEF Expects, RowsDeclare
  <2>3. Stored'
    BY DEF Stored, Expects, RowsDeclare
  <2>4. Checked'
    BY DEF Checked, Expects, Stored, RowsDeclare
  <2>5. Fresh'
    BY DEF Fresh
  <2>6. ReadyIsExact'
    BY DEF ReadyIsExact, Checked, Expects
  <2> QED
    BY <2>1, <2>2, <2>3, <2>4, <2>5, <2>6
<1>11. ASSUME NEW p \in Publishers, Leave(p) PROVE Inv'
  <2> USE <1>11 DEF Leave
  <2>1. RowsDeclare' /\ OneReady'
    BY DEF RowsDeclare, OneReady, Expects
  <2>2. Expects'
    BY DEF Expects, RowsDeclare
  <2>3. Stored'
    BY DEF Stored, Expects, RowsDeclare
  <2>4. Checked'
    BY DEF Checked, Expects, Stored, RowsDeclare
  <2>5. Fresh'
    BY DEF Fresh
  <2>6. ReadyIsExact'
    BY DEF ReadyIsExact, Checked, Expects
  <2> QED
    BY <2>1, <2>2, <2>3, <2>4, <2>5, <2>6
<1>12. ASSUME NEW r \in Recipes, NEW b \in Outputs, land(r, b) PROVE Inv'
  BY <1>12
  DEF land, RowsDeclare, Expects, Stored, Checked, Fresh, OneReady, ReadyIsExact
<1>13. ASSUME NEW r \in Recipes, damage(r) PROVE Inv'
  BY <1>13
  DEF damage, RowsDeclare, Expects, Stored, Checked, Fresh, OneReady, ReadyIsExact
<1>14. ASSUME NEW r \in Recipes, read_artifact(r) PROVE Inv'
  BY <1>14
  DEF read_artifact, RowsDeclare, Expects, Stored, Checked, Fresh, OneReady, ReadyIsExact
<1>15. ASSUME NEW r \in Recipes, supersede_artifact_set(r) PROVE Inv'
  BY <1>15
  DEF supersede_artifact_set, RowsDeclare, Expects, Stored, Checked, Fresh, OneReady, ReadyIsExact
<1>16. ASSUME NEW r \in Recipes, end_command(r) PROVE Inv'
  BY <1>16
  DEF end_command, RowsDeclare, Expects, Stored, Checked, Fresh, OneReady, ReadyIsExact
<1>17. CASE UNCHANGED vars
  BY <1>17
  DEF vars, RowsDeclare, Expects, Stored, Checked, Fresh, OneReady, ReadyIsExact
<1> QED
  BY <1>1, <1>2, <1>3, <1>4, <1>5, <1>6, <1>7, <1>8, <1>9, <1>10, <1>11, <1>12, <1>13, <1>14, <1>15, <1>16, <1>17
  DEF Next, Proceed, Others

-----------------------------------------------------------------------------
LEMMA Invariance == Spec => [](TypeOK /\ Inv)
<1>1. Init => TypeOK /\ Inv
  BY InitInv
<1>2. TypeOK /\ Inv /\ [Next]_vars => (TypeOK /\ Inv)'
  BY NextType, NextInv
<1> QED
  BY <1>1, <1>2, PTL DEF Spec

\* The generator rows of artifact_sets and artifact_files, the store and the
\* locals of publish_generator_output and reconcile_generator_artifact keep
\* their types.
THEOREM TypeCorrect == Spec => []TypeOK
BY Invariance, PTL

\* For any number of publishers, a ready set serves the bytes it declares
\* unless its object was damaged in the store since its last upload.
THEOREM ReadyServesDeclared == Spec => []ReadyIsExact
<1>1. TypeOK /\ Inv => ReadyIsExact
  BY DEF Inv
<1> QED
  BY <1>1, Invariance, PTL

\* stage_or_resume_generator_artifact never replaces a declaration, and
\* nothing but the declared bytes is ever uploaded for a set.
THEOREM EvidenceStays == Spec => EvidenceIsFinal
<1> DEFINE Step ==
      /\ \A r \in Recipes : declared[r] # None => declared'[r] = declared[r]
      /\ \A r \in Recipes : object'[r] \in {object[r], declared[r], None, Corrupt}
<1>1. TypeOK /\ Inv /\ [Next]_vars => [Step]_vars
  <2> SUFFICES ASSUME TypeOK, Inv, Next PROVE Step
    OBVIOUS
  <2> USE DEF TypeOK, set, store, locals, Inv, Seen
  <2>1. ASSUME NEW p \in Publishers, stage_or_resume_generator_artifact(p) PROVE Step
    BY <2>1 DEF stage_or_resume_generator_artifact, RowsDeclare
  <2>2. ASSUME NEW p \in Publishers, put_file_with_headers(p) PROVE Step
    BY <2>2 DEF put_file_with_headers, Expects
  <2>3. ASSUME NEW r \in Recipes, NEW b \in Outputs, land(r, b) PROVE Step
    BY <2>3 DEF land, Stored
  <2>4. ASSUME NEW r \in Recipes, damage(r) PROVE Step
    BY <2>4 DEF damage
  <2>5. CASE UNCHANGED <<declared, object>>
    BY <2>5
  <2> QED
    BY <2>1, <2>2, <2>3, <2>4, <2>5
    DEF Next, Start, Proceed, Others, publish_generator_output,
        reconcile_generator_artifact, generator_artifact_for_reconciliation,
        upload_error, verify_exact_object, close, fail_generator_artifact,
        fail_ready_generator_verification, complete_generator_artifact, Leave,
        read_artifact, supersede_artifact_set, end_command, Fail
<1> QED
  BY <1>1, Invariance, PTL DEF Spec, EvidenceIsFinal

\* fail_ready_generator_verification withdraws only the ready state its caller
\* observed, and fail_generator_artifact none.
THEOREM Withdrawals == Spec => WithdrawsObserved
<1> DEFINE Step ==
      \A r \in Recipes :
        status[r] = "ready" /\ status'[r] = "upload_failed" =>
          \E p \in Publishers :
            /\ pc[p] = "withdraw" /\ pc'[p] = "err"
            /\ recipe[p] = r /\ given[p] = "ready" /\ found[p] = renewals[r]
<1>1. TypeOK /\ Inv /\ [Next]_vars => [Step]_vars
  <2> SUFFICES ASSUME TypeOK, Inv, Next,
                      NEW r \in Recipes, status[r] = "ready",
                      status'[r] = "upload_failed"
               PROVE  \E p \in Publishers :
                        /\ pc[p] = "withdraw" /\ pc'[p] = "err"
                        /\ recipe[p] = r /\ given[p] = "ready"
                        /\ found[p] = renewals[r]
    OBVIOUS
  <2> USE DEF TypeOK, Statuses, set, store, locals, Goto, Fail, Pending
  <2>a. ASSUME NEW p \in Publishers,
               \/ stage_or_resume_generator_artifact(p)
               \/ fail_generator_artifact(p)
               \/ complete_generator_artifact(p)
        PROVE  FALSE
    BY <2>a DEF stage_or_resume_generator_artifact, fail_generator_artifact,
                complete_generator_artifact
  <2>b. ASSUME NEW s \in Recipes, supersede_artifact_set(s) PROVE FALSE
    BY <2>b DEF supersede_artifact_set
  <2>c. ASSUME UNCHANGED status PROVE FALSE
    BY <2>c
  <2>1. PICK p \in Publishers : fail_ready_generator_verification(p)
    BY <2>a, <2>b, <2>c
    DEF Next, Start, Proceed, Others, publish_generator_output,
        reconcile_generator_artifact, generator_artifact_for_reconciliation,
        put_file_with_headers, upload_error, verify_exact_object, close, Leave,
        land, damage, read_artifact, end_command
  <2>2. recipe[p] = r /\ revision[r] = observed[p]
    BY <2>1 DEF fail_ready_generator_verification
  <2>3. found[p] = renewals[r]
    BY <2>1, <2>2 DEF fail_ready_generator_verification, Inv, Fresh, Seen
  <2> QED
    BY <2>1, <2>2, <2>3 DEF fail_ready_generator_verification
<1> QED
  BY <1>1, Invariance, PTL DEF Spec, WithdrawsObserved

-----------------------------------------------------------------------------
\* The publication of an output implements OutputRegister: one step of
\* complete_generator_artifact makes a set current and retires the one before
\* it, and nothing revives a retired set.
THEOREM Refinement == Spec => ImplementsRegister
<1> DEFINE current == {r \in Recipes : status[r] = "ready"}
           retired == {r \in Recipes : status[r] = "superseded"}
<1>1. Init => Register!Init
  BY DEF Init, Register!Init
<1>2. TypeOK /\ Inv /\ [Next]_vars => [Register!Next]_<<current, retired>>
  <2> SUFFICES ASSUME TypeOK, Inv, [Next]_vars
               PROVE  Register!Next \/ (current' = current /\ retired' = retired)
    OBVIOUS
  <2> USE DEF TypeOK, Statuses, set, store, locals, Goto, Fail, Pending
  <2>1. ASSUME NEW p \in Publishers, complete_generator_artifact(p)
        PROVE  Register!Next \/ (current' = current /\ retired' = retired)
    <3>1. CASE status[recipe[p]] \in {"staged", "upload_failed"}
      <4>1. PICK r \in Recipes : r = recipe[p]
        BY <2>1 DEF complete_generator_artifact
      <4>2. Register!Publish(r)
        BY <2>1, <3>1, <4>1 DEF complete_generator_artifact, Register!Publish
      <4> QED
        BY <4>2 DEF Register!Next
    <3>2. CASE status[recipe[p]] \notin {"staged", "upload_failed"}
      BY <2>1, <3>2 DEF complete_generator_artifact
    <3> QED
      BY <3>1, <3>2
  <2>2. ASSUME NEW p \in Publishers, fail_ready_generator_verification(p)
        PROVE  Register!Next \/ (current' = current /\ retired' = retired)
    <3>1. CASE status' # status
      <4>1. PICK r \in Recipes : r = recipe[p]
        BY <2>2 DEF fail_ready_generator_verification
      <4>2. Register!Withdraw(r)
        BY <2>2, <3>1, <4>1 DEF fail_ready_generator_verification, Register!Withdraw
      <4> QED
        BY <4>2 DEF Register!Next
    <3>2. CASE status' = status
      BY <3>2
    <3> QED
      BY <3>1, <3>2
  <2>3. ASSUME NEW p \in Publishers,
               \/ fail_generator_artifact(p)
               \/ stage_or_resume_generator_artifact(p)
        PROVE  current' = current /\ retired' = retired
    BY <2>3 DEF fail_generator_artifact, stage_or_resume_generator_artifact
  <2>4. ASSUME NEW r \in Recipes, supersede_artifact_set(r)
        PROVE  Register!Next \/ (current' = current /\ retired' = retired)
    <3>1. CASE status[r] # "superseded"
      <4>1. Register!Retire(r)
        BY <2>4, <3>1 DEF supersede_artifact_set, Register!Retire
      <4> QED
        BY <4>1 DEF Register!Next
    <3>2. CASE status[r] = "superseded"
      BY <2>4, <3>2 DEF supersede_artifact_set
    <3> QED
      BY <3>1, <3>2
  <2>5. CASE UNCHANGED status
    BY <2>5
  <2> QED
    BY <2>1, <2>2, <2>3, <2>4, <2>5
    DEF Next, Start, Proceed, Others, vars, publish_generator_output,
        reconcile_generator_artifact, generator_artifact_for_reconciliation,
        put_file_with_headers, upload_error, verify_exact_object, close, Leave, land,
        damage, read_artifact, end_command
<1> QED
  BY <1>1, <1>2, Invariance, PTL DEF Spec, ImplementsRegister, Register!Spec

=============================================================================
