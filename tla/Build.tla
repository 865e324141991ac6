-------------------------------- MODULE Build --------------------------------
(* One fcc invocation after another on the same output path (main.c): the     *)
(* gates between the passes, the C file and the .errcodes map beside it.  A   *)
(* program is the pass that finds an error in it and the error codes it       *)
(* declares; a file on disk is the codes of the program it was written for    *)
(* and whether all of it was written.                                        *)
EXTENDS Naturals, FiniteSets

CONSTANTS
    Codes,           \* what the error-code map of a program can hold
    NoCodes,         \* the program declares no errors
    Absent,          \* no such file
    Failures         \* what the system may do: "openC", "openMap", "full", "kill"

ASSUME BuildAssumption ==
    /\ NoCodes \notin Codes
    /\ Absent \notin [codes : Codes \cup {NoCodes}, whole : BOOLEAN]

Pass == {"args", "lex", "parse", "check", "mono"}

Program == [fault : Pass \cup {"codegen", "none"}, codes : Codes \cup {NoCodes}]

VARIABLES
    prog,        \* the program of this invocation
    null,        \* its output is the null device
    phase,       \* where main is; "idle" between invocations
    status,      \* exit status of the last invocation, 137 if killed
    c, map,      \* the output file and the file with .errcodes in its place
    failing      \* what the system may do in this behaviour, chosen once

invocation == <<prog, null, failing>>
vars == <<invocation, phase, status, c, map>>

Artifact == [codes : Codes \cup {NoCodes}, whole : BOOLEAN]

TypeOK ==
    /\ prog \in Program /\ null \in BOOLEAN /\ failing \subseteq Failures
    /\ phase \in Pass \cup {"idle", "open", "emit", "close", "removeMap", "map", "writeMap"}
    /\ status \in {0, 1, 137}
    /\ c \in Artifact \cup {Absent} /\ map \in Artifact \cup {Absent}

Init ==
    /\ prog \in Program /\ null \in BOOLEAN /\ failing \in SUBSET Failures
    /\ phase = "idle" /\ status = 1
    /\ c = Absent /\ map = Absent

Exit(code) == phase' = "idle" /\ status' = code

(* A write that fails goes unnoticed: no result of stdio is looked at.       *)
Written == IF "full" \in failing THEN BOOLEAN ELSE {TRUE}

-----------------------------------------------------------------------------
Start(p, n) ==
    /\ phase = "idle"
    /\ prog' = p /\ null' = n /\ phase' = "args"
    /\ UNCHANGED <<failing, status, c, map>>

Following == [args |-> "lex", lex |-> "parse", parse |-> "check", check |-> "mono",
              mono |-> "open"]

(* args_parse's refusal, a lexer fatal or an unreadable input, and the gates  *)
(* on the error count after the parser, pass2 and monomorphization.          *)
FaultyGate(stage) ==
    /\ phase = stage
    /\ IF prog.fault = stage /\ stage # "mono"
       THEN Exit(1)
       ELSE phase' = Following[stage] /\ UNCHANGED status
    /\ UNCHANGED <<invocation, c, map>>

Gate(stage) ==
    /\ phase = stage
    /\ IF prog.fault = stage
       THEN Exit(1)
       ELSE phase' = Following[stage] /\ UNCHANGED status
    /\ UNCHANGED <<invocation, c, map>>

(* fopen(output_path, "w+") truncates what was there.                        *)
OpenOutput ==
    /\ phase = "open"
    /\ phase' = "emit"
    /\ c' = IF null THEN c ELSE [codes |-> NoCodes, whole |-> FALSE]
    /\ UNCHANGED <<invocation, status, map>>

OpenOutputFails ==
    /\ phase = "open" /\ "openC" \in failing
    /\ Exit(1)
    /\ UNCHANGED <<invocation, c, map>>

(* codegen_emit and fclose.  An internal error leaves C that must not stay.  *)
CodegenEmit ==
    /\ phase = "emit"
    /\ phase' = "close"
    /\ \E whole \in Written :
          c' = IF null THEN c
               ELSE [codes |-> prog.codes, whole |-> whole /\ prog.fault # "codegen"]
    /\ UNCHANGED <<invocation, status, map>>

(* The last gate: the C file goes, then its map.                             *)
AfterEmit ==
    /\ phase = "close"
    /\ IF prog.fault = "codegen"
       THEN c' = (IF null THEN c ELSE Absent) /\ phase' = "removeMap"
       ELSE phase' = "map" /\ UNCHANGED c
    /\ UNCHANGED <<invocation, status, map>>

RemoveStaleMap ==
    /\ phase = "removeMap"
    /\ map' = IF null THEN map ELSE Absent
    /\ Exit(1)
    /\ UNCHANGED <<invocation, c>>

(* The map of a program without codes is removed; otherwise fopen truncates   *)
(* it and the codes are written.                                             *)
ErrorCodeMap ==
    /\ phase = "map"
    /\ CASE null -> Exit(0) /\ UNCHANGED map
         [] ~null /\ prog.codes = NoCodes -> Exit(0) /\ map' = Absent
         [] ~null /\ prog.codes # NoCodes ->
              /\ phase' = "writeMap"
              /\ map' = [codes |-> NoCodes, whole |-> FALSE]
              /\ UNCHANGED status
    /\ UNCHANGED <<invocation, c>>

OpenMapFails ==
    /\ phase = "map" /\ ~null /\ prog.codes # NoCodes /\ "openMap" \in failing
    /\ Exit(1)
    /\ UNCHANGED <<invocation, c, map>>

WriteMap ==
    /\ phase = "writeMap"
    /\ \E whole \in Written : map' = [codes |-> prog.codes, whole |-> whole]
    /\ Exit(0)
    /\ UNCHANGED <<invocation, c>>

(* The process is killed; what reached the disk stays.                       *)
Killed ==
    /\ phase # "idle" /\ "kill" \in failing
    /\ Exit(137)
    /\ UNCHANGED <<invocation, c, map>>

Next ==
    \/ \E p \in Program, n \in BOOLEAN : Start(p, n)
    \/ \E stage \in Pass : Gate(stage)
    \/ OpenOutput \/ OpenOutputFails \/ CodegenEmit \/ AfterEmit \/ RemoveStaleMap
    \/ ErrorCodeMap \/ OpenMapFails \/ WriteMap \/ Killed

Spec == Init /\ [][Next]_vars

-----------------------------------------------------------------------------
(* Properties                                                                *)

WholeFor(p) == [codes |-> p.codes, whole |-> TRUE]

(* fcc exits 0 only on a program no pass found an error in, with all of its C *)
(* and the map of exactly its codes on disk, whatever an earlier, a failed or *)
(* a killed invocation left there, as long as every write reaches the disk    *)
(* (main.c's gates; fopen's truncation).                                     *)
SuccessIsWhole ==
    phase = "idle" /\ status = 0 /\ "full" \notin failing =>
        /\ prog.fault = "none"
        /\ ~null => /\ c = WholeFor(prog)
                    /\ map = IF prog.codes = NoCodes THEN Absent ELSE WholeFor(prog)

(* "The worst failure is `fcc` exiting 0 with broken output"                  *)
(* (ARCHITECTURE.md): main returning 0 vouches for the C file.               *)
NeverZeroWithBroken ==
    phase = "idle" /\ status = 0 /\ ~null => c # Absent /\ c.whole

(* Whenever a C file stands between invocations, the map beside it is the map *)
(* of that C file, and no map stands without one (main.c: "Keep the           *)
(* error-code map in step with the .c it describes"), as long as invocations  *)
(* run to their end and the maps they open can be opened.                    *)
InStep ==
    IF c = Absent THEN map = Absent
    ELSE map = IF c.codes = NoCodes THEN Absent ELSE c

MapInStep == phase = "idle" /\ failing \subseteq {"openC"} => InStep

(* A code generator error never leaves its C behind (ARCHITECTURE.md: "a      *)
(* compiler bug never leaves broken output behind"), nor the map of a C file   *)
(* that it removed (main.c's gate after codegen_emit); where the output may    *)
(* fail to open, an earlier invocation's whole file may stand.                *)
NoBrokenOutput ==
    /\ phase = "idle" /\ status = 1 /\ prog.fault = "codegen" /\ ~null
    /\ failing \subseteq {"openC", "openMap"}
    => IF "openC" \in failing THEN c = Absent \/ c.whole ELSE c = Absent /\ map = Absent

(* The exit status tells what is on disk, whatever an earlier, a failed or a  *)
(* killed invocation left there: after 0 the whole C file and its map, after  *)
(* an error of the code generator neither (main.c's gates).                  *)
StatusTellsOutput == SuccessIsWhole /\ NoBrokenOutput
=============================================================================
