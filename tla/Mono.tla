-------------------------------- MODULE Mono ---------------------------------
(* Monomorphization (monomorph.c): the table of generic instances, filled by  *)
(* the type checker, then by the worklist over function bodies, then by the   *)
(* fixpoint over field types, and main.c's gates between them.  One step is   *)
(* one call of mono_register or one step of a loop.                           *)
(*                                                                           *)
(* An instance is opaque here.  Refs(prog, x) lists, in the order they are    *)
(* registered, the instances that x's body (a function) or its fields (a      *)
(* type) name once its arguments are substituted.  Broken are the instances    *)
(* whose const argument could not be evaluated and became an error type.      *)
EXTENDS Naturals, Sequences, FiniteSets

CONSTANTS
    Program,             \* the programs considered
    Inst,                \* every instance of every template
    Function,            \* the instances of function templates (DECL_LET)
    Broken,              \* instances at an argument that failed to evaluate
    Seeds(_),            \* program -> the instances pass2 registers, in order
    Refs(_, _),          \* program, instance -> what walking it registers
    Fields(_, _),        \* program, type instance -> the instances its fields name
    Depth(_),            \* type_arg_depth of the deepest argument
    Template(_),         \* template_decl of an instance
    HasConstArg(_),      \* an argument of it is a const (type_is_const_arg)
    Asked(_),            \* program -> the family of instances it asks for
    Rejected(_),         \* binds void, or fails one of its static_asserts
    MAX_DEPTH,           \* MONO_MAX_INSTANTIATION_DEPTH
    MAX_INSTANCES,       \* MONO_MAX_INSTANCES
    MAX_PER_TEMPLATE     \* MONO_MAX_PER_TEMPLATE

ASSUME MonoAssumption ==
    /\ Function \subseteq Inst /\ Broken \subseteq Inst
    /\ MAX_DEPTH \in Nat /\ MAX_INSTANCES \in Nat /\ MAX_PER_TEMPLATE \in Nat
    /\ \A p \in Program : Seeds(p) \in Seq(Inst)
    /\ \A p \in Program : \A x \in {x \in Inst : Depth(x) <= MAX_DEPTH} :
                                      /\ Refs(p, x) \in Seq(Inst)
                                      /\ x \notin Function => Refs(p, x) \in Seq(Inst \ Function)
                                      /\ Fields(p, x) \subseteq
                                            {Refs(p, x)[n] : n \in DOMAIN Refs(p, x)}
    /\ \A x \in Inst : Depth(x) \in Nat
    /\ \A x, y \in Inst \ Broken : Template(x) = Template(y) => HasConstArg(x) = HasConstArg(y)

VARIABLES
    prog,        \* the program, chosen once
    entries,     \* t->entries
    errors,      \* diag_error_count()
    stash,       \* an error kept for const_eval_take_error
    phase,       \* the pass that runs
    i, j,        \* the entry being walked, the next reference of it
    end          \* batch_end (discovery), prev_count (finalization)

walk == <<i, j, end>>
vars == <<prog, entries, errors, stash, phase, walk>>

Table == {entries[n] : n \in 1 .. Len(entries)}

Init ==
    /\ prog \in Program
    /\ entries = <<>> /\ errors = 0 /\ stash = FALSE
    /\ phase = "pass2" /\ i = 1 /\ j = 1 /\ end = 0

-----------------------------------------------------------------------------
(* mono_register                                                             *)

(* How many entries the template of x has. *)
TemplateCount(x) == Cardinality({n \in DOMAIN entries : Template(entries[n]) = Template(x)})

(* The guards against an infinite family of instances. *)
FaultyInfinite(x) == Depth(x) > MAX_DEPTH

Infinite(x) ==
    \/ Depth(x) > MAX_DEPTH
    \/ Len(entries) >= MAX_INSTANCES
    \/ HasConstArg(x) /\ TemplateCount(x) >= MAX_PER_TEMPLATE

(* After an error the table stays as it is; a name already there is no news. *)
FaultyTruncate(x) ==
    IF errors > 0 \/ x \in Table \/ Infinite(x)
    THEN UNCHANGED <<entries, errors>>
    ELSE IF Rejected(x) THEN errors' = errors + 1 /\ UNCHANGED entries
    ELSE entries' = Append(entries, x) /\ UNCHANGED errors

mono_register(x) ==
    IF errors > 0 \/ x \in Table
    THEN UNCHANGED <<entries, errors>>
    ELSE IF Rejected(x) \/ Infinite(x)
    THEN errors' = errors + 1 /\ UNCHANGED entries
    ELSE entries' = Append(entries, x) /\ UNCHANGED errors

(* A reference met on a walk.  One whose argument cannot be evaluated is     *)
(* registered all the same, and its error left in the slot.                  *)
Meet(r) == mono_register(r) /\ stash' = (stash \/ r \in Broken)

mono_drain_const_eval_error ==
    /\ stash' = FALSE
    /\ errors' = IF stash THEN errors + 1 ELSE errors

-----------------------------------------------------------------------------
(* pass2 registers the instances it meets; main.c stops if it found errors. *)
Pass2Register ==
    /\ phase = "pass2" /\ j <= Len(Seeds(prog))
    /\ mono_register(Seeds(prog)[j])
    /\ j' = j + 1
    /\ UNCHANGED <<prog, stash, phase, i, end>>

Pass2Done ==
    /\ phase = "pass2" /\ j > Len(Seeds(prog))
    /\ phase' = IF errors > 0 THEN "stopped" ELSE "discover"
    /\ i' = 1 /\ j' = 1 /\ end' = Len(entries)
    /\ UNCHANGED <<prog, entries, errors, stash>>

(* Both loops walk the entries up to end in order, skipping those of the     *)
(* other kind; what they register lands behind end.                          *)
Walked(x) == phase = "discover" <=> x \in Function

WalkReference ==
    /\ phase \in {"discover", "finalize"} /\ i <= end
    /\ Walked(entries[i]) /\ j <= Len(Refs(prog, entries[i]))
    /\ Meet(Refs(prog, entries[i])[j])
    /\ j' = j + 1
    /\ UNCHANGED <<prog, phase, i, end>>

WalkNext ==
    /\ phase \in {"discover", "finalize"} /\ i <= end
    /\ Walked(entries[i]) => j > Len(Refs(prog, entries[i]))
    /\ i' = i + 1 /\ j' = 1
    /\ UNCHANGED <<prog, entries, errors, stash, phase, end>>

(* mono_discover_transitive takes up the entries added meanwhile, until none *)
(* are.                                                                      *)
FaultyOneBatch ==
    /\ phase = "discover" /\ i > end
    /\ mono_drain_const_eval_error
    /\ phase' = "finalize" /\ i' = 1 /\ j' = 1 /\ end' = Len(entries)
    /\ UNCHANGED <<prog, entries>>

DiscoverBatch ==
    /\ phase = "discover" /\ i > end
    /\ end' = Len(entries)
    /\ \/ Len(entries) > end /\ UNCHANGED <<errors, stash, phase, i, j>>
       \/ /\ Len(entries) <= end
          /\ mono_drain_const_eval_error
          /\ phase' = "finalize" /\ i' = 1 /\ j' = 1
    /\ UNCHANGED <<prog, entries>>

(* mono_finalize_types starts over from the first entry while it finds more. *)
FaultyRestart ==
    /\ phase = "finalize" /\ i > end
    /\ end' = Len(entries) /\ i' = 1 /\ j' = 1
    /\ \/ Len(entries) >= end /\ UNCHANGED <<errors, stash, phase>>
       \/ Len(entries) < end /\ mono_drain_const_eval_error /\ phase' = "check"
    /\ UNCHANGED <<prog, entries>>

FinalizeRound ==
    /\ phase = "finalize" /\ i > end
    /\ end' = Len(entries) /\ i' = 1 /\ j' = 1
    /\ \/ Len(entries) > end /\ UNCHANGED <<errors, stash, phase>>
       \/ Len(entries) <= end /\ mono_drain_const_eval_error /\ phase' = "check"
    /\ UNCHANGED <<prog, entries>>

(* The completeness backstop, then main.c's gate in front of codegen. *)
Dangling == \E x \in Table \ Function : ~(Fields(prog, x) \subseteq Table)

check_dangling_instance ==
    /\ phase = "check"
    /\ errors' = IF errors = 0 /\ Dangling THEN 1 ELSE errors
    /\ phase' = IF errors' > 0 THEN "stopped" ELSE "codegen"
    /\ UNCHANGED <<prog, entries, stash, walk>>

Next ==
    \/ Pass2Register \/ Pass2Done
    \/ WalkReference \/ WalkNext \/ DiscoverBatch \/ FinalizeRound
    \/ check_dangling_instance

Spec == Init /\ [][Next]_vars

(* The compiler is one thread that runs until it returns. *)
FairSpec == Spec /\ WF_vars(Next)
-----------------------------------------------------------------------------
(* Properties                                                                *)

RefSet(p, x) == {Refs(p, x)[n] : n \in DOMAIN Refs(p, x)}

SeedSet(p) == {Seeds(p)[n] : n \in DOMAIN Seeds(p)}

TypeOK ==
    /\ prog \in Program
    /\ entries \in Seq(Inst)
    /\ errors \in Nat /\ stash \in BOOLEAN
    /\ phase \in {"pass2", "discover", "finalize", "check", "codegen", "stopped"}
    /\ i \in Nat \ {0} /\ j \in Nat \ {0} /\ end \in 0 .. Len(entries)

(* One C symbol is defined once, within the limits (mono_register's guards):  *)
(* no two entries are the same instance, and none nests deeper than allowed.  *)
TableBounded ==
    /\ \A m, n \in DOMAIN entries : entries[m] = entries[n] => m = n
    /\ \A n \in DOMAIN entries : Depth(entries[n]) <= MAX_DEPTH
    /\ Len(entries) <= MAX_INSTANCES

(* "an incomplete table is never handed to codegen": it holds every instance  *)
(* a seed, a body or a field in it names, and no instance at an argument that *)
(* failed to evaluate (pass2 reports its own seeds' failures).                *)
CodegenClosed ==
    phase = "codegen" =>
        /\ SeedSet(prog) \cup UNION {RefSet(prog, x) : x \in Table} \subseteq Table
        /\ Table \cap Broken \subseteq SeedSet(prog)

(* A set that holds a program's seeds and what its members name.  Nothing is  *)
(* asked of an instance that nests too deep: it is never walked.             *)
Asks(p, S) ==
    /\ SeedSet(p) \subseteq S
    /\ \A x \in S : Depth(x) <= MAX_DEPTH => RefSet(p, x) \subseteq S

(* A family the limits allow, with nothing wrong in it.                      *)
Fits(S) ==
    /\ IsFiniteSet(S) /\ Cardinality(S) <= MAX_INSTANCES
    /\ \A x \in S : Depth(x) <= MAX_DEPTH /\ ~Rejected(x) /\ x \notin Broken
    /\ \A x \in S : HasConstArg(x) =>
          Cardinality({y \in S : Template(y) = Template(x)}) <= MAX_PER_TEMPLATE

(* A program is refused only when the family of instances it asks for is too  *)
(* deep, too large or holds a bad one, and accepted with all of it and nothing *)
(* else: mono_register's guards never cut a family that fits, in whatever     *)
(* order its members are met (pass2 reports its own seeds' failures).         *)
VerdictRight ==
    /\ phase = "stopped" => ~Fits(Asked(prog))
    /\ phase = "codegen" =>
          /\ Table = Asked(prog)
          /\ SeedSet(prog) \cap Broken = {} => Fits(Asked(prog))

(* The completeness backstop never finds anything: whichever way discovery    *)
(* was cut short, an error was reported before (check_dangling_instance).     *)
BackstopSilent == [][check_dangling_instance => errors' = errors]_vars

(* Discovery and finalization converge, also for infinite families: the       *)
(* guards bound what they add.                                                *)
Termination == <>(phase \in {"codegen", "stopped"})

(* The table is what the abstract closure builds: nothing is registered that  *)
(* nothing names, and only a closed table passes (mono_discover_transitive,   *)
(* mono_finalize_types).                                                      *)
Closure == INSTANCE MonoClosure WITH
    Met     <- SeedSet,
    Needs   <- RefSet,
    table   <- Table,
    verdict <- CASE phase = "codegen" -> "accepted"
                 [] phase = "stopped" -> "rejected"
                 [] OTHER -> "open"

ImplementsClosure == Closure!CSpec
=============================================================================
