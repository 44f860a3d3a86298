---------------------------- MODULE DriverProofs -----------------------------
(***************************************************************************)
(* The properties of Driver for every set of versions.  Along a run the    *)
(* file that the next stage reads is of the version that was read, and a   *)
(* run that ended in another way than with 0 has said so or was killed.    *)
(***************************************************************************)
EXTENDS Driver, TLAPS

\* What each stage relies on.
StageInputs ==
  /\ stage # "no" => status = "none"
  /\ stage \in {"llc", "clang"} => read \in Accepted /\ imm = read
  /\ stage = "clang" => asm = read

\* What the end of do.sh says, and what runTests.py makes of it.
Judged ==
  /\ stage = "no" /\ status = "1" => output
  /\ stage = "no" /\ status = "none" => test = "none"
  /\ test = "executing" => shouldPass /\ ~output
  /\ test \in {"executing", "passed"} => stage = "no"

IInv == TypeOK /\ StageInputs /\ SuccessIsFresh /\ Judged /\ VerdictIsAboutProgram

\* The first state: nothing was made yet.
LEMMA InitInv == Init => IInv
  BY VersionsAssumption
     DEF Init, IInv, TypeOK, Contents, StageInputs, SuccessIsFresh, Judged,
         VerdictIsAboutProgram

\* Every step of do.sh, of runTests.py, and of who edits the program.
LEMMA NextInv == IInv /\ [Next]_vars => IInv'
<1> SUFFICES ASSUME IInv, [Next]_vars PROVE IInv'
  OBVIOUS
<1> USE VersionsAssumption
    DEF IInv, TypeOK, Contents, StageInputs, SuccessIsFresh, Judged,
        VerdictIsAboutProgram, files, tester
<1>1. CASE Edit
  BY <1>1 DEF Edit
<1>2. CASE Run
  BY <1>2 DEF Run, Start
<1>3. CASE LlamaDone
  BY <1>3, ZenonT(40) DEF LlamaDone, Goes
<1>4. CASE LlamaFails
  BY <1>4 DEF LlamaFails, Fails
<1>5. CASE LlcDone
  BY <1>5 DEF LlcDone, Goes
<1>6. CASE LlcFails
  BY <1>6 DEF LlcFails, Fails
<1>7. CASE ClangDone
  BY <1>7 DEF ClangDone, Goes
<1>8. CASE ClangFails
  BY <1>8 DEF ClangFails, Fails
<1>9. CASE Killed
  BY <1>9 DEF Killed
<1>10. CASE Test
  BY <1>10 DEF Test, Start
<1>11. CASE Judge
  BY <1>11 DEF Judge
<1>12. CASE Execute
  BY <1>12 DEF Execute
<1>13. CASE UNCHANGED vars
  BY <1>13 DEF vars
<1> QED
  BY <1>1, <1>2, <1>3, <1>4, <1>5, <1>6, <1>7, <1>8, <1>9, <1>10, <1>11,
     <1>12, <1>13 DEF Next

\* The invariant holds in every state.
THEOREM DriverCorrect == Spec => []IInv
  BY InitInv, NextInv, PTL DEF Spec

\* Files have contents, and every stage is given a whole file.
THEOREM DriverTypes == Spec => []TypeOK
<1>1. IInv => TypeOK
  BY DEF IInv
<1> QED BY DriverCorrect, <1>1, PTL

\* do.sh ends with 0 only if the executable is of the program that it read.
THEOREM SuccessMeansFresh == Spec => []SuccessIsFresh
<1>1. IInv => SuccessIsFresh
  BY DEF IInv
<1> QED BY DriverCorrect, <1>1, PTL

\* A test passes on its own program, or because do.sh was killed.
THEOREM VerdictsHold == Spec => []VerdictIsAboutProgram
<1>1. IInv => VerdictIsAboutProgram
  BY DEF IInv
<1> QED BY DriverCorrect, <1>1, PTL
=============================================================================
