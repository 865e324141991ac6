------------------------------ MODULE LspUnits ------------------------------
(* How the language server (lsp.c) turns an open document into a compilation *)
(* unit: canonical paths, the nearest lsp.rsp, the unit's key, and the       *)
(* sources one analysis of the unit merges.  Everything here is a function   *)
(* of the disk, the response files and the open documents.                   *)
(*                                                                           *)
(* A path is a spelling; Target gives the spelling realpath() resolves it to *)
(* while the file exists.  Directories exist throughout and are named        *)
(* canonically; Chain[d] lists d and its ancestors, nearest first.  A text   *)
(* is an opaque value: the front end is the set LexFails of texts whose      *)
(* lexing aborts and the operator SemErrors from the merged sources to the   *)
(* errors the parser and the two passes report about them.                   *)
EXTENDS Naturals, Sequences, FiniteSets

CONSTANTS
    Path,        \* spellings of .fc files: editor paths, lsp.rsp inputs
    Target,      \* [Path -> Path]: the canonical spelling
    Link,        \* the spellings that are symbolic links in their directory
    Dir,         \* canonical directories
    DirOf,       \* [Path -> Dir]: the directory a spelling names the file in
    Chain,       \* [Dir -> Seq(Dir)]: the directory and its ancestors
    Text,        \* document contents
    LexFails,    \* the texts that abort the lexer
    SemErrors(_, _), \* the errors, as [file, msg] records, of a primary source and
                 \* the set of all sources it is merged with
    SemMsg,      \* the messages of those errors
    FeedPath,    \* the stdlib files loaded at startup
    Absent,      \* no such file
    Broken,      \* an lsp.rsp that args_expand or args_parse rejects
    NoKey        \* a document's unit_key before its first flush

ASSUME PathAssumption ==
    /\ Target \in [Path -> Path]
    /\ \A p \in Path : Target[Target[p]] = Target[p]
    /\ Link \subseteq Path
    /\ DirOf \in [Path -> Dir]
    /\ Chain \in [Dir -> Seq(Dir)]
    /\ LexFails \subseteq Text
    /\ FeedPath \subseteq Path
    /\ Absent \notin Text
    /\ NoKey \notin {"R", "D", "U"} \X Dir

VARIABLES
    disk,        \* canonical file -> its saved text, or Absent
    rsp,         \* directory -> its lsp.rsp: Absent, Broken, or a set of paths
    feed         \* S->stdlib: the stdlib sources read at startup

File == {p \in Path : Target[p] = p}

(* What an lsp.rsp can be: missing, unusable, or a list of inputs. *)
RspContent == {Absent, Broken} \cup SUBSET Path

(* The names a directory listing or an editor can give a file. *)
DocPath == File \cup Link

Source == [via : Path, file : Path, text : Text]

(* realpath(), or the spelling itself while nothing is there. *)
canon_path(p) == IF disk[Target[p]] # Absent THEN Target[p] ELSE p

Readable(p) == disk[Target[p]] # Absent

(* The directory of the nearest lsp.rsp at or above d, if there is one. *)
RspAbove(d) ==
    LET above == {n \in DOMAIN Chain[d] : rsp[Chain[d][n]] # Absent}
    IN  {Chain[d][n] : n \in {m \in above : \A l \in above : m <= l}}

(* The listed inputs by canonical path; a broken file lists none. *)
rsp_input_paths(r) == IF rsp[r] = Broken THEN {} ELSE {canon_path(q) : q \in rsp[r]}

rsp_claims_doc(r, p) == rsp[r] = Broken \/ canon_path(p) \in rsp_input_paths(r)

Key == {"R", "D", "U"} \X Dir

unit_key(p) ==
    LET above == RspAbove(DirOf[p])
        claims == {r \in above : rsp_claims_doc(r, p)}
    IN  IF claims # {} THEN <<"R", CHOOSE r \in claims : TRUE>>
        ELSE <<IF above # {} THEN "U" ELSE "D", DirOf[p]>>

-----------------------------------------------------------------------------
(* Documents: the store is a set of records that carry their array index.    *)

Doc == [pos : Nat, path : Path, real : Path, text : Text, dirty : BOOLEAN,
        key : Key \cup {NoKey}]

Only(S) == CHOOSE x \in S : TRUE

(* The document of a set that comes first in the array, if there is one. *)
First(D) == IF D = {} THEN {} ELSE {CHOOSE d \in D : \A e \in D : d.pos <= e.pos}

(* The open document a path names, if any: the exact spelling, else the      *)
(* first whose cached canonical path agrees.                                 *)
store_find_by_path(ds, p) ==
    LET exact == {d \in ds : d.path = p}
    IN  IF exact # {} THEN First(exact)
        ELSE First({d \in ds : d.real = canon_path(p)})

(* A faulty gather: the saved file wins over the live buffer. *)
FaultyDiskFirst(open, p) ==
    IF Readable(p) THEN {[via |-> p, file |-> p, text |-> disk[Target[p]]]}
    ELSE {[via |-> p, file |-> d.path, text |-> d.text] : d \in open}

(* One unit member: the live buffer, else the saved file, else nothing. *)
add_member_source(open, p) ==
    IF open # {} THEN {[via |-> p, file |-> d.path, text |-> d.text] : d \in open}
    ELSE IF Readable(p) THEN {[via |-> p, file |-> p, text |-> disk[Target[p]]]}
    ELSE {}

gather_rsp_sources(ds, doc, r) ==
    UNION {add_member_source(store_find_by_path(ds, canon_path(q)) \ {doc}, q) :
           q \in {q \in rsp[r] : canon_path(q) # canon_path(doc.path)}}

(* readdir of the document's directory, minus the document's own spelling. *)
collect_sibling_fc(p) ==
    {q \in Path : /\ DirOf[q] = DirOf[p] /\ q # p
                  /\ q \in Link \/ (q \in File /\ Readable(q))}

SiblingSources(ds, doc) ==
    UNION {add_member_source(store_find_by_path(ds, q), q) :
           q \in {q \in collect_sibling_fc(doc.path) :
                     store_find_by_path(ds, q) # {doc}}}

(* The siblings, then each stdlib source that is no copy of what is there.   *)
gather_heuristic_sources(ds, doc) ==
    LET sibs == SiblingSources(ds, doc)
        havePath == {canon_path(doc.path)} \cup {canon_path(s.file) : s \in sibs}
        haveText == {doc.text} \cup {s.text : s \in sibs}
    IN  sibs \cup {f \in feed : /\ canon_path(f.file) \notin havePath
                                /\ f.text \notin haveText}

-----------------------------------------------------------------------------
(* What analyze() makes of a primary source and the extra ones.  A lexer     *)
(* abort reports one source and nothing else; if that source is not the      *)
(* primary one, the primary document is told why its overlays are stale.     *)
analyze(prim, extra) ==
    LET srcs  == {prim} \cup extra
        fails == {s \in srcs : s.text \in LexFails}
        first == IF prim \in fails THEN prim ELSE Only(fails)
    IN  IF fails = {}
        THEN [srcs |-> srcs, typed |-> TRUE, diags |-> SemErrors(prim, srcs)]
        ELSE [srcs |-> srcs, typed |-> FALSE,
              diags |-> {[file |-> first.file, msg |-> "lex"]} \cup
                        (IF first.file = prim.file THEN {}
                         ELSE {[file |-> prim.file, msg |-> "incomplete"]})]

Bearers(ds, k) == {d \in ds : d.key = k}

primary_doc_for(ds, k) == First(Bearers(ds, k))

unit_find(us, k) == {u \in us : u.key = k}

RspBroken(k, above) == k[1] # "U" /\ \E r \in above : rsp[r] = Broken

(* Every source but the primary document: what the lsp.rsp lists, or for an   *)
(* unlisted document, a broken lsp.rsp and none at all, the heuristic unit.   *)
ExtraSources(ds, k, doc, above) ==
    IF k[1] = "U" \/ RspBroken(k, above) \/ above = {}
    THEN gather_heuristic_sources(ds, doc)
    ELSE UNION {gather_rsp_sources(ds, doc, r) : r \in above}

(* The file-level diagnostics the server adds to an analysis. *)
Notes(ds, k, doc, above) ==
    {[file |-> d.path, msg |-> "unlisted"] :
        d \in {d \in Bearers(ds, k) : k[1] = "U" /\ above # {}}} \cup
    {[file |-> d.path, msg |-> "rspIgnored"] : d \in {d \in {doc} : RspBroken(k, above)}}

(* The entry an analysis ran leaves for unit k; us are the units so far. *)
EntryAfter(ds, us, k, doc, above, ran) ==
    [key         |-> k,
     files       |-> {canon_path(doc.path)} \cup {canon_path(s.file) : s \in ran.srcs},
     notReported |-> IF k[1] = "U" THEN UNION {rsp_input_paths(r) : r \in above} ELSE {},
     result      |-> [ran EXCEPT !.diags = @ \cup Notes(ds, k, doc, above)],
     lastGood    |-> IF ran.typed THEN ran.srcs
                     ELSE UNION {u.lastGood : u \in unit_find(us, k)}]

(* One analysis of the unit with key k over the open documents ds: the set   *)
(* of its new entry (none when no document bears the key).                   *)
analyze_unit(ds, us, k) ==
    UNION {LET above == RspAbove(DirOf[doc.path])
               prim  == [via |-> doc.path, file |-> doc.path, text |-> doc.text]
           IN  {EntryAfter(ds, us, k, doc, above, ran) :
                   ran \in {analyze(prim, extra) :
                               extra \in {ExtraSources(ds, k, doc, above)}}} :
           doc \in primary_doc_for(ds, k)}
=============================================================================
