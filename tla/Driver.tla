------------------------------- MODULE Driver --------------------------------
(***************************************************************************)
(* do.sh, which makes an executable of a program in three stages with a    *)
(* file between each two, and runTests.py, which judges a test by what     *)
(* do.sh prints.  Both use the same files from run to run; the program is  *)
(* edited at any time, and a run may be killed: python's system() ignores  *)
(* the interrupt that ends do.sh, and goes on.                             *)
(*                                                                         *)
(* A file is known by the version of the program that it was made from.    *)
(* What llc and clang leave behind when they fail is theirs: the old file, *)
(* none, or a part.                                                        *)
(***************************************************************************)
EXTENDS Naturals

CONSTANTS
  Versions, \* what the program is edited to
  Accepted, \* the versions that the compiler accepts
  Correct,  \* those of them whose output is the one expected
  Absent,   \* no file
  Part      \* a file that was not written to its end

ASSUME VersionsAssumption == Correct \subseteq Accepted /\ Accepted \subseteq Versions

VARIABLES
  source,     \* the program
  imm,        \* the file of IR,
  asm,        \* the assembly,
  out,        \* and the executable
  stage,      \* what do.sh runs, "no" when it does not run
  read,       \* the version that ./Llama reads, or has read last
  output,     \* does do.sh have output?
  status,     \* how it ended: "0", "1" or "killed"
  test,       \* what runTests.py is doing, or its verdict
  shouldPass  \* the test's flag

files == <<imm, asm, out>>
tester == <<test, shouldPass>>
vars == <<source, imm, asm, out, stage, read, output, status, test, shouldPass>>

Contents == Versions \union {Absent, Part}

Edit ==
  /\ source' \in Versions \union {Absent}
  /\ UNCHANGED <<imm, asm, out, stage, read, output, status, test, shouldPass>>

-----------------------------------------------------------------------------
(* do.sh.                                                                  *)

\* The shell opens the source, then empties the file of IR.
Start ==
  /\ stage' = "llama" /\ status' = "none" /\ output' = FALSE
  /\ read' = source
  /\ imm' = IF source = Absent THEN imm ELSE Part
  /\ UNCHANGED <<source, asm, out>>

\* By hand, between the tests.
Run ==
  /\ stage = "no" /\ test \notin {"compiling", "executing"}
  /\ Start
  /\ test' = "none" /\ UNCHANGED shouldPass

\* A stage has succeeded; any of them may print a warning.
Goes(from, to) ==
  /\ stage = from /\ stage' = to
  /\ output' \in {output, TRUE}
  /\ UNCHANGED <<source, read, tester>>

\* Mutant of Fails: do.sh does not look at the status.
FailsUnseen(from) ==
  /\ stage = from
  /\ stage' = (CASE from = "llama" -> "llc" [] from = "llc" -> "clang" [] OTHER -> "no")
  /\ status' = IF from = "clang" THEN "0" ELSE status
  /\ output' \in {output, TRUE}
  /\ UNCHANGED <<source, read, tester>>

\* Mutant of Fails: it does not say so.
FailsSilent(from) ==
  /\ stage = from /\ stage' = "no"
  /\ output' \in {output, TRUE} /\ status' = "1"
  /\ UNCHANGED <<source, read, tester>>

\* A stage has failed: do.sh says so, and ends.
Fails(from) ==
  /\ stage = from /\ stage' = "no"
  /\ output' = TRUE /\ status' = "1"
  /\ UNCHANGED <<source, read, tester>>

LlamaDone ==
  /\ Goes("llama", "llc")
  /\ read \in Accepted /\ imm' = read
  /\ UNCHANGED <<asm, out, status>>

\* For an error in the program, or without; nothing was written before the
\* module was verified.
LlamaFails == Fails("llama") /\ UNCHANGED files

LlcDone ==
  /\ Goes("llc", "clang")
  /\ imm \in Versions /\ asm' = imm
  /\ UNCHANGED <<imm, out, status>>

LlcFails ==
  /\ Fails("llc")
  /\ asm' \in {asm, Absent, Part} /\ UNCHANGED <<imm, out>>

\* Mutant of ClangDone: the old executable is kept.
ClangKeeps ==
  /\ Goes("clang", "no")
  /\ asm \in Versions /\ out' = IF out = Absent THEN asm ELSE out
  /\ status' = "0" /\ UNCHANGED <<imm, asm>>

ClangDone ==
  /\ Goes("clang", "no")
  /\ asm \in Versions /\ out' = asm
  /\ status' = "0" /\ UNCHANGED <<imm, asm>>

ClangFails ==
  /\ Fails("clang")
  /\ out' \in {out, Absent, Part} /\ UNCHANGED <<imm, asm>>

\* do.sh and its stage are interrupted.
Killed ==
  /\ stage # "no" /\ stage' = "no" /\ status' = "killed"
  /\ asm' \in (IF stage = "llc" THEN {asm, Part} ELSE {asm})
  /\ out' \in (IF stage = "clang" THEN {out, Part} ELSE {out})
  /\ UNCHANGED <<source, imm, read, output, tester>>

-----------------------------------------------------------------------------
(* runTests.py.                                                            *)

Test ==
  /\ stage = "no" /\ test \notin {"compiling", "executing"}
  /\ Start
  /\ test' = "compiling" /\ shouldPass' \in BOOLEAN

\* No output is taken for success; the status of do.sh is not looked at.
Judge ==
  /\ test = "compiling" /\ stage = "no"
  /\ test' = IF ~output # shouldPass THEN "failed"
             ELSE IF shouldPass THEN "executing" ELSE "passed"
  /\ UNCHANGED <<source, files, stage, read, output, status, shouldPass>>

\* The executable's output is compared with the one expected.
Execute ==
  /\ test = "executing"
  /\ test' = IF out \in Correct THEN "passed" ELSE "failed"
  /\ UNCHANGED <<source, files, stage, read, output, status, shouldPass>>

-----------------------------------------------------------------------------
Init ==
  /\ source \in Versions /\ imm = Absent /\ asm = Absent /\ out = Absent
  /\ stage = "no" /\ read = Absent /\ output = FALSE /\ status = "none"
  /\ test = "none" /\ shouldPass = TRUE

Next ==
  \/ Edit \/ Run \/ LlamaDone \/ LlamaFails \/ LlcDone \/ LlcFails
  \/ ClangDone \/ ClangFails \/ Killed \/ Test \/ Judge \/ Execute

Spec == Init /\ [][Next]_vars

-----------------------------------------------------------------------------
(* Properties.                                                             *)

\* Files have contents, and a stage gets a whole file: only ./Llama is given
\* what others may have left unfinished.
TypeOK ==
  /\ source \in Versions \union {Absent} /\ read \in Versions \union {Absent}
  /\ imm \in Contents /\ asm \in Contents /\ out \in Contents
  /\ stage \in {"no", "llama", "llc", "clang"}
  /\ (stage = "llc" => imm \in Versions) /\ (stage = "clang" => asm \in Versions)
  /\ output \in BOOLEAN /\ status \in {"none", "0", "1", "killed"}
  /\ test \in {"none", "compiling", "executing", "passed", "failed"}
  /\ shouldPass \in BOOLEAN

\* A run that ends with 0 leaves three files of the program that it read: no
\* file of an earlier run, or of a stage that failed, gets into the executable,
\* whatever was edited or left behind meanwhile.
SuccessIsFresh ==
  stage = "no" /\ status = "0" =>
    read \in Accepted /\ imm = read /\ asm = read /\ out = read

\* What passes a test is the program of this test, unless do.sh was killed: an
\* earlier executable may then pass in its place.  A test that should fail
\* passes only if do.sh had something to say.
VerdictIsAboutProgram ==
  test = "passed" =>
    IF shouldPass THEN (status = "0" /\ read \in Correct) \/ status = "killed"
    ELSE output
=============================================================================
