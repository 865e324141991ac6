------------------------------- MODULE MCMono --------------------------------
(* Monomorphization over all programs of a few sites: two generic functions   *)
(* and two generic types.                                                    *)
EXTENDS Mono, MonoTypes

CONSTANTS BodySites, FieldSites, SeedSites

S(to, word, open, step) == [to |-> to, word |-> word, open |-> open, step |-> step]

(* Calls that keep, grow or fix their argument; const arguments that stay,   *)
(* grow, or divide by it; types that only a body names.                      *)
FunctionBodySites ==
    { S("g", <<>>, TRUE, "same"),  S("f", <<"opt">>, TRUE, "zero"),
      S("g", <<"box">>, FALSE, "inc"), S("g", <<>>, FALSE, "div"),
      S("type", <<"node", "opt">>, TRUE, "zero") }

TypeFieldSites ==
    { S("type", <<>>, TRUE, "zero"), S("type", <<"opt", "node">>, TRUE, "zero"),
      S("type", <<"box", "box">>, TRUE, "zero") }

MainSites ==
    { S("f", <<>>, FALSE, "zero"), S("g", <<"node">>, FALSE, "inc"),
      S("type", <<"box", "node">>, FALSE, "zero") }

Upto(Sites, n) == UNION {[1 .. k -> Sites] : k \in 0 .. n}

Programs == [main : Upto(SeedSites, 1) \ {<<>>},
             f : Upto(BodySites, 1) \cup {<<a, S("type", <<"node", "opt">>, TRUE, "zero")>> :
                                              a \in BodySites},
             g : Upto(BodySites, 1),
             box : Upto(FieldSites, 1), node : Upto(FieldSites, 1)]

Nowhere == [tmpl |-> "main", arg |-> <<>>, const |-> 0]

BodyOf(p, x) == CASE x.tmpl = "f" -> p.f [] x.tmpl = "g" -> p.g
                  [] x.tmpl = "box" -> p.box [] x.tmpl = "node" -> p.node

RefsAt == [s \in BodySites \cup FieldSites \cup SeedSites, x \in Instance \cup {Nowhere} |->
              SiteRefs(s, x)]

Listed(sites, x) ==
    CASE Len(sites) = 0 -> <<>>
      [] Len(sites) = 1 -> RefsAt[sites[1], x]
      [] Len(sites) = 2 -> RefsAt[sites[1], x] \o RefsAt[sites[2], x]

ProgramSeeds(p) == Listed(p.main, Nowhere)

(* Beyond MAX_DEPTH registration has failed, and what it would find is moot. *)
FieldRefs(p, x) ==
    IF x.tmpl \in Aggregate /\ Depth(x) <= MAX_DEPTH THEN Listed(BodyOf(p, x), x) ELSE <<>>

ProgramRefs(p, x) ==
    LET named == Listed(BodyOf(p, x), x)
    IN  IF x.tmpl \in Callee THEN NamedByNode(named, [k \in DOMAIN named |-> FieldRefs(p, named[k])])
        ELSE named

ProgramFields(p, x) ==
    IF x.tmpl \in Callee THEN {}
    ELSE UNION {FieldInstance(type_substitute(s, x)) : s \in Range(BodyOf(p, x))}

FunctionInst == Instance \ TypeInst

InstDepth(x) == WordDepth(x.arg)

DeclOf(x) == x.tmpl

(* An argument that failed to evaluate is no const any more. *)
TakesConst(x) == x.tmpl \in ConstGeneric /\ x.const # ErrConst

(* A box of an option is refused by its static_assert. *)
EvalFailed == {x \in Instance : x.const = ErrConst}

AssertFails(x) == x.tmpl = "box" /\ x.arg = <<"opt", "opt">>

(* The reference: everything reachable, as the smallest set holding the seeds *)
(* and closed under references, explored only as far as the guards allow.    *)
RECURSIVE Reached(_, _)
Reached(p, set) ==
    LET next == set \cup UNION {RefSet(p, x) : x \in {x \in set : Depth(x) <= MAX_DEPTH}}
    IN  IF next = set THEN set ELSE Reached(p, next)

ReachedFromSeeds(p) == Reached(p, SeedSet(p))
=============================================================================
