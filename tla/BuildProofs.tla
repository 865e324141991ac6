----------------------------- MODULE BuildProofs -----------------------------
(* An exit status of 0 means whole output, and the error-code map stays in    *)
(* step, for any set of error codes and any history of invocations.          *)
EXTENDS Build, TLAPS

(* What the gates a phase lies behind have excluded.                         *)
Excluded ==
    [args |-> {}, lex |-> {"args"}, parse |-> {"args", "lex"},
     check |-> {"args", "lex", "parse"}, mono |-> {"args", "lex", "parse", "check"}]

Gated ==
    /\ phase \in Pass => prog.fault \notin Excluded[phase]
    /\ phase \notin Pass \cup {"idle"} => prog.fault \notin Pass

(* What is on disk once code generation is over.                             *)
Emitted ==
    /\ phase = "close" /\ ~null =>
          c = [codes |-> prog.codes, whole |-> prog.fault # "codegen"]
    /\ phase \in {"map", "writeMap"} =>
          prog.fault = "none" /\ (~null => c = WholeFor(prog))
    /\ phase = "writeMap" => ~null /\ prog.codes # NoCodes
    /\ phase = "removeMap" => prog.fault = "codegen" /\ (~null => c = Absent)

(* Gate passes only to the next phase of a program it did not refuse.        *)
LEMMA GateStep ==
    ASSUME TypeOK, Gated, NEW stage \in Pass, Gate(stage)
    PROVE  /\ phase' \in Pass \cup {"idle", "open"} /\ status' \in {0, 1, 137}
           /\ Gated' /\ (phase' = "idle" => status' = 1)
BY DEF TypeOK, Gated, Gate, Exit, Pass, Program, Following, Excluded, invocation

Inv == TypeOK /\ Gated /\ Emitted /\ SuccessIsWhole

(* With no unnoticed write failure the invariant behind SuccessIsWhole is     *)
(* kept by every step, crashes and failed opens included.                    *)
LEMMA InvStep ==
    ASSUME "full" \notin failing, Inv, [Next]_vars
    PROVE  Inv'
<1>w. Written = {TRUE}
  BY DEF Written
<1>a. Absent \notin Artifact /\ NoCodes \notin Codes
  BY BuildAssumption DEF Artifact
<1> USE DEF Inv
<1>1. ASSUME NEW p \in Program, NEW n \in BOOLEAN, Start(p, n)
      PROVE  Inv'
  BY <1>1 DEF Start, TypeOK, Gated, Excluded, Emitted, SuccessIsWhole, Pass, Program
<1>2. ASSUME NEW stage \in Pass, Gate(stage)
      PROVE  Inv'
  <2>1. UNCHANGED <<prog, null, failing, c, map>>
    BY <1>2 DEF Gate, invocation
  <2>2. TypeOK'
    BY <2>1, <1>2, GateStep DEF TypeOK
  <2>3. Emitted' /\ SuccessIsWhole'
    BY <2>1, <1>2, GateStep DEF Emitted, SuccessIsWhole, Pass
  <2> QED
    BY <2>2, <2>3, <1>2, GateStep
<1>3. ASSUME OpenOutput
      PROVE  Inv'
  BY <1>3 DEF OpenOutput, invocation, TypeOK, Gated, Emitted, SuccessIsWhole, Pass, Artifact
<1>4. ASSUME OpenOutputFails
      PROVE  Inv'
  BY <1>4 DEF OpenOutputFails, Exit, invocation, TypeOK, Gated, Emitted, SuccessIsWhole, Pass
<1>5. ASSUME CodegenEmit
      PROVE  Inv'
  <2>1. c' = IF null THEN c ELSE [codes |-> prog.codes, whole |-> prog.fault # "codegen"]
    BY <1>5, <1>w DEF CodegenEmit
  <2>2. prog.codes \in Codes \cup {NoCodes} /\ (prog.fault # "codegen") \in BOOLEAN
    BY DEF TypeOK, Program
  <2>3. c' \in Artifact \cup {Absent}
    BY <2>1, <2>2 DEF TypeOK, Artifact
  <2> QED
    BY <2>1, <2>3, <1>5 DEF CodegenEmit, invocation, TypeOK, Gated, Emitted, SuccessIsWhole, Pass
<1>6. ASSUME AfterEmit
      PROVE  Inv'
  <2>1. prog.fault \in {"codegen", "none"}
    BY <1>6 DEF AfterEmit, TypeOK, Gated, Program, Pass
  <2>2. CASE prog.fault = "codegen"
    <3>1. phase' = "removeMap" /\ c' = (IF null THEN c ELSE Absent)
      BY <1>6, <2>2 DEF AfterEmit
    <3> QED
      BY <1>6, <2>2, <3>1
         DEF AfterEmit, invocation, TypeOK, Gated, Emitted, SuccessIsWhole, Pass
  <2>3. CASE prog.fault = "none"
    <3>1. phase' = "map" /\ UNCHANGED c /\ (prog.fault # "codegen") = TRUE
      BY <1>6, <2>3 DEF AfterEmit
    <3>2. ~null => c = WholeFor(prog)
      BY <1>6, <2>3, <3>1 DEF AfterEmit, Emitted, WholeFor
    <3> QED
      BY <1>6, <2>3, <3>1, <3>2
         DEF AfterEmit, invocation, TypeOK, Gated, Emitted, SuccessIsWhole, Pass, WholeFor
  <2> QED
    BY <2>1, <2>2, <2>3
<1>7. ASSUME RemoveStaleMap
      PROVE  Inv'
  BY <1>7 DEF RemoveStaleMap, Exit, invocation, TypeOK, Gated, Emitted, SuccessIsWhole, Pass
<1>8. ASSUME ErrorCodeMap
      PROVE  Inv'
  <2>1. CASE null \/ prog.codes = NoCodes
    <3>1. phase' = "idle" /\ status' = 0 /\ map' = IF null THEN map ELSE Absent
      BY <1>8, <2>1 DEF ErrorCodeMap, Exit
    <3> QED
      BY <1>8, <2>1, <3>1 DEF ErrorCodeMap, invocation, TypeOK, Gated, Emitted, SuccessIsWhole, Pass
  <2>2. CASE ~null /\ prog.codes # NoCodes
    <3>1. /\ phase' = "writeMap" /\ UNCHANGED status
          /\ map' = [codes |-> NoCodes, whole |-> FALSE]
      BY <1>8, <2>2 DEF ErrorCodeMap
    <3> QED
      BY <1>8, <2>2, <3>1
         DEF ErrorCodeMap, invocation, TypeOK, Gated, Emitted, SuccessIsWhole, Pass, Artifact
  <2> QED
    BY <2>1, <2>2
<1>9. ASSUME OpenMapFails
      PROVE  Inv'
  BY <1>9 DEF OpenMapFails, Exit, invocation, TypeOK, Gated, Emitted, SuccessIsWhole, Pass
<1>10. ASSUME WriteMap
       PROVE  Inv'
  <2>1. map' = WholeFor(prog) /\ map' \in Artifact
    BY <1>10, <1>w DEF WriteMap, WholeFor, TypeOK, Program, Artifact
  <2> QED
    BY <2>1, <1>10 DEF WriteMap, Exit, invocation, TypeOK, Gated, Emitted, SuccessIsWhole, Pass
<1>11. ASSUME Killed
       PROVE  Inv'
  BY <1>11 DEF Killed, Exit, invocation, TypeOK, Gated, Emitted, SuccessIsWhole, Pass
<1>12. CASE UNCHANGED vars
  BY <1>12 DEF vars, invocation, TypeOK, Gated, Emitted, SuccessIsWhole
<1> QED
  BY <1>1, <1>2, <1>3, <1>4, <1>5, <1>6, <1>7, <1>8, <1>9, <1>10, <1>11, <1>12 DEF Next

LEMMA InvInit ==
    ASSUME Init PROVE Inv
BY DEF Init, Inv, TypeOK, Gated, Emitted, SuccessIsWhole, Pass

(* What the system may do stays as it was chosen.                            *)
LEMMA FailingStays ==
    ASSUME [Next]_vars PROVE failing' = failing
BY DEF Next, vars, invocation, Start, Gate, OpenOutput, OpenOutputFails, CodegenEmit, AfterEmit,
       RemoveStaleMap, ErrorCodeMap, OpenMapFails, WriteMap, Killed

(* fcc's exit status 0 is to be believed whatever crashed or failed to open   *)
(* before, as long as a failed write cannot go unnoticed (main.c's gates).   *)
THEOREM ZeroMeansWhole == Spec => []SuccessIsWhole
<1> DEFINE I == "full" \notin failing => Inv
<1>1. Init => I
  BY InvInit
<1>2. I /\ [Next]_vars => I'
  BY InvStep, FailingStays
<1>3. I => SuccessIsWhole
  BY DEF Inv, SuccessIsWhole
<1> HIDE DEF I
<1> QED
  BY <1>1, <1>2, <1>3, PTL DEF Spec

-----------------------------------------------------------------------------
(* Where the map may be out of step: between opening the C file and the map.  *)
StepInv == (null \/ phase \in Pass \cup {"idle", "open"}) => InStep

(* Invocations that are not killed and whose map opens keep the map in step.  *)
LEMMA StepInvStep ==
    ASSUME failing \subseteq {"openC"}, Inv, StepInv, [Next]_vars
    PROVE  StepInv'
<1>w. Written = {TRUE}
  BY DEF Written
<1>a. Absent \notin Artifact
  BY BuildAssumption DEF Artifact
<1>u. ASSUME UNCHANGED <<null, c, map>>, phase \in Pass \cup {"idle", "open"} \/ null
      PROVE  StepInv'
  BY <1>u DEF StepInv, InStep
<1>1. ASSUME NEW p \in Program, NEW n \in BOOLEAN, Start(p, n)
      PROVE  StepInv'
  BY <1>1 DEF Start, StepInv, InStep
<1>2. ASSUME NEW stage \in Pass, Gate(stage)
      PROVE  StepInv'
  BY <1>2, <1>u DEF Gate, invocation
<1>3. ASSUME OpenOutput
      PROVE  StepInv'
  BY <1>3, <1>u DEF OpenOutput, invocation, StepInv, Pass
<1>4. ASSUME OpenOutputFails
      PROVE  StepInv'
  BY <1>4, <1>u DEF OpenOutputFails, invocation
<1>5. ASSUME CodegenEmit
      PROVE  StepInv'
  BY <1>5, <1>u DEF CodegenEmit, invocation, StepInv, Pass
<1>6. ASSUME AfterEmit
      PROVE  StepInv'
  BY <1>6, <1>u DEF AfterEmit, invocation, StepInv, Pass
<1>7. ASSUME RemoveStaleMap
      PROVE  StepInv'
  BY <1>7, <1>u DEF RemoveStaleMap, invocation, StepInv, InStep, Inv, Emitted
<1>8. ASSUME ErrorCodeMap
      PROVE  StepInv'
  <2>1. CASE null
    BY <2>1, <1>8, <1>u DEF ErrorCodeMap, Exit, invocation
  <2>2. CASE ~null /\ prog.codes = NoCodes
    <3>1. c' = WholeFor(prog) /\ map' = Absent /\ c'.codes = NoCodes
      BY <2>2, <1>8 DEF ErrorCodeMap, Inv, Emitted, WholeFor
    <3> QED
      BY <3>1 DEF StepInv, InStep
  <2>3. CASE ~null /\ prog.codes # NoCodes
    BY <2>3, <1>8 DEF ErrorCodeMap, invocation, StepInv, Pass
  <2> QED
    BY <2>1, <2>2, <2>3
<1>9. ASSUME WriteMap
      PROVE  StepInv'
  <2>1. c' = WholeFor(prog) /\ map' = WholeFor(prog) /\ prog.codes # NoCodes
    BY <1>9, <1>w DEF WriteMap, WholeFor, Inv, Emitted
  <2>2. WholeFor(prog) \in Artifact /\ WholeFor(prog).codes = prog.codes
    BY DEF WholeFor, Inv, TypeOK, Program, Artifact
  <2> QED
    BY <2>1, <2>2, <1>a DEF StepInv, InStep
<1>10. ~OpenMapFails /\ ~Killed
  BY DEF OpenMapFails, Killed
<1>11. CASE UNCHANGED vars
  BY <1>11 DEF vars, invocation, StepInv, InStep
<1> QED
  BY <1>1, <1>2, <1>3, <1>4, <1>5, <1>6, <1>7, <1>8, <1>9, <1>10, <1>11 DEF Next

(* The error-code map is the map of the C file beside it as long as the       *)
(* invocations run to their end and every map they open can be opened.       *)
THEOREM MapStaysInStep == Spec => []MapInStep
<1> DEFINE I == failing \subseteq {"openC"} => Inv /\ StepInv
<1>1. Init => I
  BY InvInit DEF Init, StepInv, InStep
<1>2. ASSUME I, [Next]_vars
      PROVE  I'
  <2>1. CASE failing \subseteq {"openC"}
    <3>1. "full" \notin failing /\ Inv /\ StepInv
      BY <1>2, <2>1
    <3> QED
      BY <1>2, <2>1, <3>1, InvStep, StepInvStep
  <2>2. CASE ~(failing \subseteq {"openC"})
    BY <1>2, <2>2, FailingStays
  <2> QED
    BY <2>1, <2>2
<1>3. I => MapInStep
  BY DEF StepInv, MapInStep
<1> HIDE DEF I
<1> QED
  BY <1>1, <1>2, <1>3, PTL DEF Spec
-----------------------------------------------------------------------------
(* Where a partial C file may stand: from its opening to the last gate.       *)
WholeInv == (null \/ phase \notin {"emit", "close"}) => c = Absent \/ c.whole

(* Without lost writes or kills, a C file that is not whole is this           *)
(* invocation's, and the last gate still comes.                              *)
LEMMA WholeInvStep ==
    ASSUME failing \subseteq {"openC", "openMap"}, Inv, WholeInv, [Next]_vars
    PROVE  WholeInv'
<1>u. ASSUME UNCHANGED <<null, c>>, phase \notin {"emit", "close"} \/ null
      PROVE  WholeInv'
  BY <1>u DEF WholeInv
<1>1. ASSUME NEW p \in Program, NEW n \in BOOLEAN, Start(p, n)
      PROVE  WholeInv'
  BY <1>1 DEF Start, WholeInv
<1>2. ASSUME NEW stage \in Pass, Gate(stage)
      PROVE  WholeInv'
  BY <1>2, <1>u DEF Gate, invocation, Pass
<1>3. ASSUME OpenOutput
      PROVE  WholeInv'
  BY <1>3, <1>u DEF OpenOutput, invocation, WholeInv
<1>4. ASSUME OpenOutputFails
      PROVE  WholeInv'
  BY <1>4, <1>u DEF OpenOutputFails, invocation
<1>5. ASSUME CodegenEmit
      PROVE  WholeInv'
  BY <1>5, <1>u DEF CodegenEmit, invocation, WholeInv
<1>6. ASSUME AfterEmit
      PROVE  WholeInv'
  <2>1. CASE prog.fault = "codegen"
    BY <2>1, <1>6, <1>u DEF AfterEmit, invocation, WholeInv
  <2>2. CASE prog.fault # "codegen" /\ ~null
    <3>1. c' = [codes |-> prog.codes, whole |-> prog.fault # "codegen"]
      BY <2>2, <1>6 DEF AfterEmit, Inv, Emitted
    <3>2. c'.whole
      BY <3>1, <2>2
    <3> QED
      BY <3>2 DEF WholeInv
  <2>3. CASE prog.fault # "codegen" /\ null
    BY <2>3, <1>6, <1>u DEF AfterEmit, invocation
  <2> QED
    BY <2>1, <2>2, <2>3
<1>7. ASSUME RemoveStaleMap
      PROVE  WholeInv'
  BY <1>7, <1>u DEF RemoveStaleMap, invocation
<1>8. ASSUME ErrorCodeMap \/ OpenMapFails \/ WriteMap
      PROVE  WholeInv'
  BY <1>8, <1>u DEF ErrorCodeMap, OpenMapFails, WriteMap, invocation
<1>9. ~Killed
  BY DEF Killed
<1>10. CASE UNCHANGED vars
  BY <1>10 DEF vars, invocation, WholeInv
<1> QED
  BY <1>1, <1>2, <1>3, <1>4, <1>5, <1>6, <1>7, <1>8, <1>9, <1>10 DEF Next

(* What stands after an internal error: nothing, unless no file was opened.    *)
GoneInv ==
    phase = "idle" /\ status = 1 /\ prog.fault = "codegen" /\ ~null /\ "openC" \notin failing
    => c = Absent /\ map = Absent

(* Only the last gate ends an invocation with status 1 and a codegen fault.    *)
LEMMA GoneInvStep ==
    ASSUME Inv, GoneInv, [Next]_vars
    PROVE  GoneInv'
<1>1. ASSUME NEW p \in Program, NEW n \in BOOLEAN, Start(p, n)
      PROVE  GoneInv'
  BY <1>1 DEF Start, GoneInv
<1>2. ASSUME NEW stage \in Pass, Gate(stage)
      PROVE  GoneInv'
  BY <1>2 DEF Gate, GoneInv, Following, Pass, invocation
<1>3. ASSUME OpenOutput \/ CodegenEmit \/ AfterEmit
      PROVE  GoneInv'
  BY <1>3 DEF OpenOutput, CodegenEmit, AfterEmit, GoneInv
<1>4. ASSUME OpenOutputFails
      PROVE  GoneInv'
  BY <1>4 DEF OpenOutputFails, GoneInv, invocation
<1>5. ASSUME RemoveStaleMap
      PROVE  GoneInv'
  BY <1>5 DEF RemoveStaleMap, GoneInv, Inv, Emitted, invocation
<1>6. ASSUME ErrorCodeMap \/ OpenMapFails \/ WriteMap
      PROVE  GoneInv'
  BY <1>6 DEF ErrorCodeMap, OpenMapFails, WriteMap, Exit, GoneInv, Inv, Emitted, invocation
<1>7. ASSUME Killed
      PROVE  GoneInv'
  BY <1>7 DEF Killed, Exit, GoneInv
<1>8. CASE UNCHANGED vars
  BY <1>8 DEF vars, invocation, GoneInv
<1> QED
  BY <1>1, <1>2, <1>3, <1>4, <1>5, <1>6, <1>7, <1>8 DEF Next

(* An internal error of the code generator leaves neither C nor map behind:   *)
(* both are removed, or, when the output could not even be opened, the C file *)
(* is the whole one of an earlier invocation (main.c's gate after             *)
(* codegen_emit).                                                            *)
THEOREM ErrorsLeaveNothingBroken == Spec => []NoBrokenOutput
<1> DEFINE I == failing \subseteq {"openC", "openMap"} => Inv /\ WholeInv /\ GoneInv
<1>1. Init => I
  BY InvInit DEF Init, WholeInv, GoneInv
<1>2. ASSUME I, [Next]_vars
      PROVE  I'
  <2>1. CASE failing \subseteq {"openC", "openMap"}
    <3>1. "full" \notin failing /\ Inv /\ WholeInv /\ GoneInv
      BY <1>2, <2>1
    <3> QED
      BY <1>2, <2>1, <3>1, InvStep, WholeInvStep, GoneInvStep
  <2>2. CASE ~(failing \subseteq {"openC", "openMap"})
    BY <1>2, <2>2, FailingStays
  <2> QED
    BY <2>1, <2>2
<1>3. I => NoBrokenOutput
  BY DEF WholeInv, GoneInv, NoBrokenOutput
<1> HIDE DEF I
<1> QED
  BY <1>1, <1>2, <1>3, PTL DEF Spec

(* Both gates: on the systems each speaks of, fcc's status is to be believed. *)
THEOREM StatusIsTrue == Spec => []StatusTellsOutput
<1>1. SuccessIsWhole /\ NoBrokenOutput => StatusTellsOutput
  BY DEF StatusTellsOutput
<1> QED
  BY <1>1, ZeroMeansWhole, ErrorsLeaveNothingBroken, PTL
=============================================================================
