--------------------------- MODULE LspServerProofs --------------------------
(* Theorems about LspServer, for every workspace, front end and bound.       *)
EXTENDS LspServer, TLAPS, WellFoundedInduction

-----------------------------------------------------------------------------
(* Publishing keeps pub_uris equal to the set of URIs with squiggles.        *)

(* One publish cycle, from any documents and units. *)
LEMMA PublishTracks ==
    ASSUME SquigglesTracked, NEW ds, NEW us, publish_project_diagnostics(ds, us)
    PROVE  SquigglesTracked'
<1>1. PICK agg, fs, now : /\ fs = Emitted(ds, agg)
                         /\ Notify(ds, us, agg, fs, now)
  BY DEF publish_project_diagnostics
<1>2. PICK last \in [now -> fs] :
          shown' = [u \in Path |->
                IF u \in now THEN {d.msg : d \in {e \in agg : e.file = last[u]}}
                ELSE IF u \in pub \/ \E d \in ds : d.path = u THEN {}
                ELSE shown[u]]
  BY <1>1 DEF Notify
<1>3. pub' = now
  BY <1>1 DEF Notify
<1> SUFFICES ASSUME NEW u \in Path
             PROVE  shown'[u] # {} <=> u \in pub'
  BY DEF SquigglesTracked
<1>5. CASE u \in now
  <2>1. last[u] \in fs
    BY <1>5
  <2>2. PICK d \in agg : d.file = last[u]
    BY <1>1, <2>1 DEF Emitted
  <2>3. d.msg \in shown'[u]
    BY <1>2, <1>5, <2>2
  <2> QED BY <2>3, <1>3, <1>5
<1>6. CASE u \notin now
  BY <1>2, <1>3, <1>6 DEF SquigglesTracked
<1> QED BY <1>5, <1>6

LEMMA FlushTracks ==
    ASSUME SquigglesTracked, NEW ds, flush_dirty(ds)
    PROVE  SquigglesTracked'
<1>1. CASE UNCHANGED <<units, editor>>
  BY <1>1 DEF SquigglesTracked, editor
<1>2. CASE \E d \in {Refreshed(ds)} : \E us \in {Reanalyzed(d, StaleKeys(d))} :
              publish_project_diagnostics(d, us)
  BY <1>2, PublishTracks
<1> QED BY <1>1, <1>2 DEF flush_dirty

(* Closing the last document clears the URIs published and its own. *)
LEMMA CloseTracks ==
    ASSUME SquigglesTracked, NEW p, handle_did_close(p)
    PROVE  SquigglesTracked'
<1>1. CASE UNCHANGED <<docs, count, units, editor>>
  BY <1>1 DEF SquigglesTracked, editor
<1>2. CASE \E doc \in Opened(p) : flush_dirty(AllDirty(SwapRemove(docs, count, doc)))
  BY <1>2, FlushTracks
<1>3. CASE /\ pub' = {}
           /\ shown' = [u \in Path |-> IF u \in pub \cup {p} THEN {} ELSE shown[u]]
  BY <1>3 DEF SquigglesTracked
<1> QED BY <1>1, <1>2, <1>3 DEF handle_did_close

(* What the editor shows is what pub_uris remembers (publish, last close).   *)
THEOREM SquigglesAreTracked == Spec => []SquigglesTracked
<1>1. Init => SquigglesTracked
  BY DEF Init, LspInit, SquigglesTracked
<1>2. SquigglesTracked /\ [Next]_vars => SquigglesTracked'
  <2> SUFFICES ASSUME SquigglesTracked, [Next]_vars PROVE SquigglesTracked'
    OBVIOUS
  <2>1. CASE UNCHANGED editor
    BY <2>1 DEF SquigglesTracked, editor
  <2>2. CASE Read
    <3>1. dispatch(Head(inbox)) /\ Head(inbox).op # "malformed"
      BY <2>2 DEF Read
    <3> USE DEF server
    <3>2. ASSUME NEW p, NEW t, handle_did_open(p, t) \/ handle_did_change(p, t)
          PROVE  UNCHANGED editor
      BY <3>2 DEF handle_did_open, handle_did_change
    <3>3. ASSUME handle_exit \/ Ignore PROVE UNCHANGED editor
      BY <3>3 DEF handle_exit, Ignore
    <3>4. ASSUME NEW p, handle_query(p) \/ handle_shutdown \/ handle_other_request
          PROVE  SquigglesTracked'
      BY <3>4, FlushTracks DEF handle_query, handle_shutdown, handle_other_request
    <3> QED BY <3>1, <3>2, <3>3, <3>4, <2>1, CloseTracks DEF dispatch
  <2>3. CASE Poll
    BY <2>1, <2>3, FlushTracks DEF Poll
  <2> QED BY <2>1, <2>2, <2>3
          DEF Next, Server, ReadMalformed, ReadEof, Send, CloseInput, SaveFile, SaveRsp,
              vars, server
<1> QED BY <1>1, <1>2, PTL DEF Spec
-----------------------------------------------------------------------------
(* Type correctness, for a front end whose errors name files.                *)

FrontEndTyped ==
    \A prim \in Source, srcs \in SUBSET Source : SemErrors(prim, srcs) \subseteq Diag

Workspace ==
    /\ disk \in [File -> Text \cup {Absent}]
    /\ rsp \in [Dir -> RspContent]
    /\ feed \subseteq Source

USE DEF File, DocPath

LEMMA CanonType ==
    ASSUME NEW p \in Path
    PROVE  canon_path(p) \in Path
BY PathAssumption DEF canon_path

LEMMA DiskType ==
    ASSUME Workspace, NEW p \in Path, Readable(p)
    PROVE  disk[Target[p]] \in Text
BY PathAssumption DEF Workspace, Readable

LEMMA RspAboveType ==
    ASSUME NEW d \in Dir
    PROVE  RspAbove(d) \subseteq Dir
BY PathAssumption DEF RspAbove

LEMMA RspInputType ==
    ASSUME Workspace, NEW r \in Dir, rsp[r] # Absent
    PROVE  rsp_input_paths(r) \subseteq Path
<1>1. rsp[r] = Broken \/ rsp[r] \subseteq Path
  BY DEF Workspace, RspContent
<1> QED BY <1>1, CanonType DEF rsp_input_paths

LEMMA AbovePresent ==
    ASSUME NEW d, NEW r \in RspAbove(d)
    PROVE  rsp[r] # Absent
BY DEF RspAbove

LEMMA UnitKeyType ==
    ASSUME NEW p \in Path
    PROVE  unit_key(p) \in Key
<1>1. DirOf[p] \in Dir
  BY PathAssumption
<1>2. RspAbove(DirOf[p]) \subseteq Dir
  BY <1>1, RspAboveType
<1> DEFINE claims == {r \in RspAbove(DirOf[p]) : rsp_claims_doc(r, p)}
<1>3. CASE claims # {}
  <2>1. unit_key(p) = <<"R", CHOOSE r \in claims : TRUE>>
    BY <1>3 DEF unit_key
  <2>2. PICK r \in Dir : unit_key(p) = <<"R", r>>
    BY <1>2, <1>3, <2>1
  <2> QED BY <2>2 DEF Key
<1>4. CASE claims = {}
  BY <1>1, <1>4 DEF unit_key, Key
<1> QED BY <1>3, <1>4

LEMMA NatMin ==
    ASSUME NEW T, T \subseteq Nat, T # {}
    PROVE  \E x \in T : \A y \in T : x <= y
<1>1. PICK x \in T : \A y \in T : ~(<<y, x>> \in OpToRel(<, Nat))
  BY NatLessThanWellFounded, WFMin
<1>2. ASSUME NEW y \in T PROVE x <= y
  <2>1. ~(<<y, x>> \in OpToRel(<, Nat))
    BY <1>1
  <2>2. ~(y < x)
    BY <2>1 DEF OpToRel
  <2> QED BY <2>2
<1> QED BY <1>2

(* Of documents in an array there is a first. *)
LEMMA FirstType ==
    ASSUME NEW D, D \subseteq Doc
    PROVE  First(D) \subseteq D
<1>1. CASE D # {}
  <2>1. /\ {d.pos : d \in D} \subseteq Nat
        /\ {d.pos : d \in D} # {}
    BY <1>1 DEF Doc
  <2>2. PICK x \in {d.pos : d \in D} : \A y \in {d.pos : d \in D} : x <= y
    BY <2>1, NatMin
  <2>3. \E d \in D : \A e \in D : d.pos <= e.pos
    BY <2>2
  <2> QED BY <1>1, <2>3 DEF First
<1>2. CASE D = {}
  BY <1>2 DEF First
<1> QED BY <1>1, <1>2

(* What a path names among the open documents is one of them. *)
LEMMA FindType ==
    ASSUME NEW ds, ds \subseteq Doc, NEW p
    PROVE  store_find_by_path(ds, p) \subseteq ds
<1>1. First({d \in ds : d.path = p}) \subseteq ds
  BY FirstType
<1>2. First({d \in ds : d.real = canon_path(p)}) \subseteq ds
  BY FirstType
<1> QED BY <1>1, <1>2 DEF store_find_by_path

LEMMA MemberType ==
    ASSUME Workspace, NEW open, open \subseteq Doc, NEW p \in Path
    PROVE  add_member_source(open, p) \subseteq Source
<1>1. CASE open # {}
  BY <1>1 DEF add_member_source, Source, Doc
<1>2. CASE open = {} /\ Readable(p)
  BY <1>2, DiskType DEF add_member_source, Source
<1>3. CASE open = {} /\ ~Readable(p)
  BY <1>3 DEF add_member_source
<1> QED BY <1>1, <1>2, <1>3

LEMMA ExtraType ==
    ASSUME Workspace, NEW ds, ds \subseteq Doc, NEW doc \in ds, NEW k,
           NEW above, \A r \in above : r \in Dir /\ rsp[r] # Absent
    PROVE  ExtraSources(ds, k, doc, above) \subseteq Source
<1>1. SiblingSources(ds, doc) \subseteq Source
  <2> SUFFICES ASSUME NEW q \in Path
               PROVE  add_member_source(store_find_by_path(ds, q), q) \subseteq Source
    BY DEF SiblingSources, collect_sibling_fc
  <2> QED BY MemberType, FindType
<1>2. gather_heuristic_sources(ds, doc) \subseteq Source
  BY <1>1 DEF gather_heuristic_sources, Workspace
<1>3. ASSUME NEW r \in above, rsp[r] # Broken
      PROVE  gather_rsp_sources(ds, doc, r) \subseteq Source
  <2>1. rsp[r] \subseteq Path
    BY <1>3 DEF Workspace, RspContent
  <2> SUFFICES ASSUME NEW q \in rsp[r]
               PROVE  add_member_source(store_find_by_path(ds, canon_path(q)) \ {doc}, q)
                         \subseteq Source
    BY DEF gather_rsp_sources
  <2>2. store_find_by_path(ds, canon_path(q)) \ {doc} \subseteq Doc
    BY FindType
  <2> QED BY <2>1, <2>2, MemberType
<1>4. CASE k[1] = "U" \/ RspBroken(k, above) \/ above = {}
  BY <1>2, <1>4 DEF ExtraSources
<1>5. CASE ~(k[1] = "U" \/ RspBroken(k, above) \/ above = {})
  BY <1>3, <1>5 DEF ExtraSources, RspBroken
<1> QED BY <1>4, <1>5

AnalysisType == [srcs : SUBSET Source, typed : BOOLEAN, diags : SUBSET Diag]

LEMMA AnalyzeType ==
    ASSUME FrontEndTyped, NEW prim \in Source, NEW extra \in SUBSET Source
    PROVE  analyze(prim, extra) \in AnalysisType
<1> DEFINE srcs  == {prim} \cup extra
           fails == {s \in srcs : s.text \in LexFails}
           first == IF prim \in fails THEN prim ELSE Only(fails)
<1>1. CASE fails = {}
  <2>1. analyze(prim, extra) = [srcs |-> srcs, typed |-> TRUE, diags |-> SemErrors(prim, srcs)]
    BY <1>1 DEF analyze
  <2>2. SemErrors(prim, srcs) \subseteq Diag
    BY DEF FrontEndTyped
  <2> QED BY <2>1, <2>2 DEF AnalysisType
<1>2. CASE fails # {}
  <2> DEFINE ds == {[file |-> first.file, msg |-> "lex"]} \cup
                   (IF first.file = prim.file THEN {}
                    ELSE {[file |-> prim.file, msg |-> "incomplete"]})
  <2>1. analyze(prim, extra) = [srcs |-> srcs, typed |-> FALSE, diags |-> ds]
    BY <1>2 DEF analyze
  <2>2. first \in Source
    BY <1>2 DEF Only
  <2>3. first.file \in Path /\ prim.file \in Path
    BY <2>2 DEF Source
  <2>4. ds \subseteq Diag
    BY <2>3 DEF Diag, DiagMsg
  <2> HIDE DEF ds, first, fails
  <2> QED BY <2>1, <2>4 DEF AnalysisType
<1> QED BY <1>1, <1>2

LEMMA EntryType ==
    ASSUME FrontEndTyped, Workspace, NEW ds, ds \subseteq Doc, NEW us, us \subseteq UnitEntry,
           NEW k \in Key, NEW e \in analyze_unit(ds, us, k)
    PROVE  e \in UnitEntry /\ e.key = k
<1>1. PICK doc \in primary_doc_for(ds, k) :
         LET above == RspAbove(DirOf[doc.path])
             prim  == [via |-> doc.path, file |-> doc.path, text |-> doc.text]
         IN  e \in {EntryAfter(ds, us, k, doc, above, ran) :
                       ran \in {analyze(prim, extra) :
                                   extra \in {ExtraSources(ds, k, doc, above)}}}
  BY DEF analyze_unit
<1> DEFINE above == RspAbove(DirOf[doc.path])
           prim  == [via |-> doc.path, file |-> doc.path, text |-> doc.text]
           extra == ExtraSources(ds, k, doc, above)
           ran   == analyze(prim, extra)
<1>2. e = EntryAfter(ds, us, k, doc, above, ran)
  BY <1>1
<1>3. doc \in ds /\ doc \in Doc
  BY FirstType DEF primary_doc_for, Bearers
<1>4. prim \in Source
  BY <1>3 DEF Source, Doc
<1>5. above \subseteq Dir /\ \A r \in above : rsp[r] # Absent
  BY <1>3, RspAboveType, AbovePresent, PathAssumption DEF Doc
<1>6. extra \subseteq Source
  BY <1>3, <1>5, ExtraType
<1>7. ran \in AnalysisType
  BY <1>4, <1>6, AnalyzeType
<1>8. Notes(ds, k, doc, above) \subseteq Diag
  BY <1>3 DEF Notes, Bearers, Diag, DiagMsg, Doc
<1> HIDE DEF above, prim, extra, ran
<1>9. {canon_path(doc.path)} \cup {canon_path(s.file) : s \in ran.srcs} \subseteq Path
  BY <1>3, <1>7, CanonType DEF AnalysisType, Doc, Source
<1>10. UNION {rsp_input_paths(r) : r \in above} \subseteq Path
  BY <1>5, RspInputType
<1>11. UNION {u.lastGood : u \in unit_find(us, k)} \subseteq Source
  BY DEF unit_find, UnitEntry, SourceSet
<1>12. [ran EXCEPT !.diags = @ \cup Notes(ds, k, doc, above)] \in AnalysisType
  BY <1>7, <1>8 DEF AnalysisType
<1>13. (IF ran.typed THEN ran.srcs ELSE UNION {u.lastGood : u \in unit_find(us, k)})
          \in SUBSET Source
  BY <1>7, <1>11 DEF AnalysisType
<1>14. (IF k[1] = "U" THEN UNION {rsp_input_paths(r) : r \in above} ELSE {}) \in SUBSET Path
  BY <1>10
<1> QED BY <1>2, <1>9, <1>12, <1>13, <1>14 DEF EntryAfter, UnitEntry, SourceSet, AnalysisType

LEMMA ReanalyzedType ==
    ASSUME FrontEndTyped, Workspace, units \subseteq UnitEntry,
           NEW ds, ds \subseteq Doc, NEW stale, stale \subseteq Key
    PROVE  Reanalyzed(ds, stale) \subseteq UnitEntry
BY EntryType DEF Reanalyzed

(* Rewriting documents one by one, each keeping its place and its path,      *)
(* keeps the array an array.                                                 *)
LEMMA StoreMap ==
    ASSUME NEW ds, NEW n, StoreOK(ds, n), NEW g,
           \A d \in ds : g[d] \in Doc /\ g[d].pos = d.pos /\ g[d].path = d.path
    PROVE  StoreOK({g[d] : d \in ds}, n)
<1> DEFINE es == {g[d] : d \in ds}
<1>1. {e.pos : e \in es} = {d.pos : d \in ds}
  OBVIOUS
<1>2. ASSUME NEW e \in es, NEW f \in es, e.pos = f.pos \/ e.path = f.path PROVE e = f
  <2>1. PICK d \in ds : e = g[d]
    OBVIOUS
  <2>2. PICK d2 \in ds : f = g[d2]
    OBVIOUS
  <2>3. d.pos = d2.pos \/ d.path = d2.path
    BY <1>2, <2>1, <2>2
  <2>4. d = d2
    BY <2>3 DEF StoreOK
  <2> QED BY <2>1, <2>2, <2>4
<1>3. es \subseteq Doc
  OBVIOUS
<1> HIDE DEF es
<1>4. StoreOK(es, n)
  BY <1>1, <1>2, <1>3 DEF StoreOK
<1> QED BY <1>4 DEF es

LEMMA RefreshedStore ==
    ASSUME NEW ds, NEW n, StoreOK(ds, n)
    PROVE  StoreOK(Refreshed(ds), n)
<1> DEFINE g == [d \in ds |-> [d EXCEPT !.dirty = @ \/ unit_key(d.path) # d.key,
                                        !.key = unit_key(d.path),
                                        !.real = canon_path(d.path)]]
<1>1. ASSUME NEW d \in ds
      PROVE  g[d] \in Doc /\ g[d].pos = d.pos /\ g[d].path = d.path
  <2>1. d \in Doc
    BY DEF StoreOK
  <2> DEFINE b == d.dirty \/ unit_key(d.path) # d.key
  <2>2. b \in BOOLEAN
    OBVIOUS
  <2>3. g[d] = [d EXCEPT !.dirty = b, !.key = unit_key(d.path), !.real = canon_path(d.path)]
    OBVIOUS
  <2> HIDE DEF b, g
  <2> QED BY <2>1, <2>2, <2>3, UnitKeyType, CanonType DEF Doc
<1>2. Refreshed(ds) = {g[d] : d \in ds}
  BY DEF Refreshed
<1> HIDE DEF g
<1> QED BY <1>1, <1>2, StoreMap

LEMMA FlagStore ==
    ASSUME NEW ds, NEW n, StoreOK(ds, n), NEW b \in BOOLEAN
    PROVE  StoreOK({[d EXCEPT !.dirty = b] : d \in ds}, n)
<1> DEFINE g == [d \in ds |-> [d EXCEPT !.dirty = b]]
<1>1. ASSUME NEW d \in ds
      PROVE  g[d] \in Doc /\ g[d].pos = d.pos /\ g[d].path = d.path
  BY DEF StoreOK, Doc
<1>2. {[d EXCEPT !.dirty = b] : d \in ds} = {g[d] : d \in ds}
  OBVIOUS
<1> HIDE DEF g
<1> QED BY <1>1, <1>2, StoreMap

LEMMA EditedStore ==
    ASSUME StoreOK(docs, count), NEW p, NEW t \in Text
    PROVE  StoreOK(Edited(p, t), count)
<1> DEFINE g == [d \in docs |-> IF d.path = p THEN [d EXCEPT !.text = t, !.dirty = TRUE] ELSE d]
<1>1. ASSUME NEW d \in docs
      PROVE  g[d] \in Doc /\ g[d].pos = d.pos /\ g[d].path = d.path
  BY DEF StoreOK, Doc
<1>2. Edited(p, t) = {g[d] : d \in docs}
  BY DEF Edited
<1> HIDE DEF g
<1> QED BY <1>1, <1>2, StoreMap

(* Closing a document moves the last one into its place. *)
LEMMA RemovedStore ==
    ASSUME NEW ds, NEW n, StoreOK(ds, n), NEW doc \in ds
    PROVE  StoreOK(SwapRemove(ds, n, doc), n - 1)
<1> DEFINE move(d) == [d EXCEPT !.pos = IF @ = n - 1 THEN doc.pos ELSE @]
           es == SwapRemove(ds, n, doc)
<1>1. /\ ds \subseteq Doc /\ n \in Nat /\ doc.pos \in 0 .. (n - 1)
      /\ \A d \in ds : d.pos \in 0 .. (n - 1)
      /\ \A d, e \in ds : d.pos = e.pos \/ d.path = e.path => d = e
  BY DEF StoreOK
<1>2. ASSUME NEW d \in ds \ {doc}
      PROVE  /\ move(d) \in Doc /\ move(d).path = d.path
             /\ move(d).pos = IF d.pos = n - 1 THEN doc.pos ELSE d.pos
             /\ move(d).pos \in 0 .. (n - 2)
  <2>1. d \in Doc /\ doc \in Doc /\ d.pos # doc.pos
    BY <1>1
  <2>2. move(d).pos = IF d.pos = n - 1 THEN doc.pos ELSE d.pos
    BY <2>1 DEF Doc
  <2>3. move(d).pos \in 0 .. (n - 2)
    BY <1>1, <2>1, <2>2 DEF Doc
  <2> QED BY <2>1, <2>2, <2>3 DEF Doc
<1>3. es = {move(d) : d \in ds \ {doc}}
  BY DEF SwapRemove
<1> HIDE DEF move, es
<1>4. ASSUME NEW i \in 0 .. (n - 2)
      PROVE  \E d \in ds \ {doc} : move(d).pos = i
  <2>1. PICK d \in ds : d.pos = i
    BY <1>1 DEF StoreOK
  <2>2. CASE i # doc.pos
    BY <1>1, <1>2, <2>1, <2>2
  <2>3. CASE i = doc.pos
    <3>1. PICK l \in ds : l.pos = n - 1
      BY <1>1 DEF StoreOK
    <3> QED BY <1>1, <1>2, <2>3, <3>1
  <2> QED BY <2>2, <2>3
<1>5. {e.pos : e \in es} = 0 .. (n - 2)
  BY <1>2, <1>3, <1>4
<1>6. ASSUME NEW d \in ds \ {doc}, NEW e \in ds \ {doc},
             move(d).pos = move(e).pos \/ move(d).path = move(e).path
      PROVE  d = e
  BY <1>1, <1>2, <1>6
<1>7. es \subseteq Doc /\ n - 1 \in Nat /\ 0 .. ((n - 1) - 1) = 0 .. (n - 2)
  BY <1>1, <1>2, <1>3
<1>8. \A e, f \in es : e.pos = f.pos \/ e.path = f.path => e = f
  BY <1>3, <1>6
<1> QED BY <1>5, <1>7, <1>8 DEF StoreOK, es

EditorOK == pub \subseteq Path /\ shown \in [Path -> SUBSET DiagMsg]

LEMMA PublishType ==
    ASSUME EditorOK, NEW ds, ds \subseteq Doc, NEW us, us \subseteq UnitEntry,
           publish_project_diagnostics(ds, us)
    PROVE  EditorOK'
<1>1. PICK agg, fs, now : /\ agg = Aggregate(ds, us)
                         /\ fs = Emitted(ds, agg)
                         /\ now = {uri_for_path(ds, f) : f \in fs}
                         /\ Notify(ds, us, agg, fs, now)
  BY DEF publish_project_diagnostics
<1>2. agg \subseteq Diag
  BY <1>1 DEF Aggregate, Reported, UnitEntry
<1>3. fs \subseteq Path
  BY <1>1, <1>2 DEF Emitted, Diag
<1>4. ASSUME NEW f \in fs PROVE uri_for_path(ds, f) \in Path
  <2>1. store_find_by_path(ds, f) \subseteq Doc
    BY FindType
  <2>2. CASE store_find_by_path(ds, f) # {}
    BY <2>1, <2>2 DEF uri_for_path, Only, Doc
  <2>3. CASE store_find_by_path(ds, f) = {}
    BY <1>3, <2>3, CanonType DEF uri_for_path
  <2> QED BY <2>2, <2>3
<1>5. pub' \subseteq Path
  BY <1>1, <1>4 DEF Notify
<1>6. PICK last \in [now -> fs] :
          shown' = [u \in Path |->
                IF u \in now THEN {d.msg : d \in {e \in agg : e.file = last[u]}}
                ELSE IF u \in pub \/ \E d \in ds : d.path = u THEN {}
                ELSE shown[u]]
  BY <1>1 DEF Notify
<1>7. ASSUME NEW u \in Path
      PROVE  (IF u \in now THEN {d.msg : d \in {e \in agg : e.file = last[u]}}
              ELSE IF u \in pub \/ \E d \in ds : d.path = u THEN {}
              ELSE shown[u]) \in SUBSET DiagMsg
  <2>1. {d.msg : d \in {e \in agg : e.file = last[u]}} \subseteq DiagMsg
    BY <1>2 DEF Diag
  <2> QED BY <2>1 DEF EditorOK
<1>8. shown' \in [Path -> SUBSET DiagMsg]
  BY <1>6, <1>7
<1> QED BY <1>5, <1>8 DEF EditorOK

LEMMA FlushType ==
    ASSUME FrontEndTyped, Workspace, EditorOK, units \subseteq UnitEntry,
           NEW ds, NEW n, StoreOK(ds, n), flush_dirty(ds)
    PROVE  StoreOK(docs', n) /\ units' \subseteq UnitEntry /\ EditorOK'
<1>1. CASE Dirty(ds) = {}
  BY <1>1 DEF flush_dirty, EditorOK, editor
<1>2. CASE Dirty(ds) # {}
  <2> DEFINE es == Refreshed(ds)
             us == Reanalyzed(es, StaleKeys(es))
  <2>1. /\ docs' = Cleaned(es) /\ units' = us
        /\ publish_project_diagnostics(es, us)
    BY <1>2 DEF flush_dirty
  <2>2. StoreOK(es, n)
    BY RefreshedStore
  <2>3. es \subseteq Doc
    BY <2>2 DEF StoreOK
  <2>4. \A e \in es : e.key \in Key
    <3> SUFFICES ASSUME NEW d \in ds PROVE unit_key(d.path) \in Key
      <4>1. \A d \in ds : d \in Doc
        BY DEF StoreOK
      <4> QED BY <4>1 DEF Refreshed, Doc
    <3> QED BY UnitKeyType DEF StoreOK, Doc
  <2>5. StaleKeys(es) \subseteq Key
    BY <2>4 DEF StaleKeys, Dirty, UnitEntry
  <2>6. us \subseteq UnitEntry
    BY <2>3, <2>5, ReanalyzedType
  <2>7. StoreOK(Cleaned(es), n)
    BY <2>2, FlagStore DEF Cleaned
  <2>8. EditorOK'
    BY <2>1, <2>3, <2>6, PublishType
  <2> HIDE DEF es, us
  <2> QED BY <2>1, <2>6, <2>7, <2>8
<1> QED BY <1>1, <1>2

(* Type correctness of the server, for every workspace and front end.        *)
THEOREM TypeCorrect ==
    ASSUME FrontEndTyped
    PROVE  Spec => []TypeOK
<1> USE DEF Workspace, EditorOK
<1>1. Init => TypeOK
  <2> SUFFICES ASSUME Init PROVE TypeOK
    OBVIOUS
  <2>1. Workspace
    <3>1. disk \in [File -> Text \cup {Absent}] /\ rsp \in [Dir -> RspContent]
      BY WorldAssumption DEF Init
    <3>2. feed \subseteq Source
      BY <3>1, PathAssumption DEF Init, Source, Readable
    <3> QED BY <3>1, <3>2
  <2>2. StoreOK({}, 0)
    BY DEF StoreOK
  <2>3. /\ StoreOK(docs, count) /\ units \subseteq UnitEntry
        /\ EditorOK
    BY <2>2 DEF Init, LspInit
  <2>4. /\ inbox \in Seq(Msg) /\ pc \in {"read", "poll", "exited"}
        /\ shutdown \in BOOLEAN /\ eof \in BOOLEAN
    <3>1. inbox = <<>> /\ pc = "read" /\ shutdown = FALSE /\ eof = FALSE
      BY DEF Init, LspInit
    <3>2. <<>> \in Seq(Msg)
      <4> HIDE DEF Workspace, EditorOK
      <4> QED OBVIOUS
    <3> QED BY <3>1, <3>2
  <2> QED BY <2>1, <2>3, <2>4 DEF TypeOK
<1>2. TypeOK /\ [Next]_vars => TypeOK'
  <2> SUFFICES ASSUME TypeOK, [Next]_vars PROVE TypeOK'
    OBVIOUS
  <2>0. /\ Workspace /\ EditorOK /\ units \subseteq UnitEntry /\ StoreOK(docs, count)
        /\ docs \subseteq Doc
    BY DEF TypeOK, StoreOK
  <2>1. CASE Read
    <3> DEFINE m == Head(inbox)
    <3>1. m \in Msg /\ Tail(inbox) \in Seq(Msg)
      BY <2>1 DEF Read, TypeOK
    <3>2. dispatch(m) /\ inbox' = Tail(inbox) /\ pc' \in {"poll", "exited"}
             /\ UNCHANGED <<world, feed, eof>>
      BY <2>1 DEF Read
    <3>3. ASSUME NEW p, NEW t, handle_did_open(p, t), p \in Path, t \in Text
          PROVE  /\ StoreOK(docs', count') /\ units' \subseteq UnitEntry
                 /\ EditorOK' /\ shutdown' \in BOOLEAN
      <4>1. CASE Opened(p) # {}
        BY <2>0, <3>3, <4>1, EditedStore DEF handle_did_open, editor, TypeOK
      <4>2. CASE Opened(p) = {}
        <5> DEFINE new == [pos |-> count, path |-> p, real |-> canon_path(p),
                           text |-> t, dirty |-> TRUE, key |-> NoKey]
        <5>1. docs' = docs \cup {new} /\ count' = count + 1
          BY <3>3, <4>2 DEF handle_did_open
        <5>2. new \in Doc
          BY <2>0, <3>3, CanonType DEF Doc, StoreOK
        <5>3. /\ \A d \in docs : d.path # p /\ d.pos # count
              /\ count \in Nat
          BY <2>0, <4>2 DEF Opened, StoreOK
        <5>4. new.pos = count /\ new.path = p
          OBVIOUS
        <5> HIDE DEF new
        <5>5. {d.pos : d \in docs \cup {new}} = (0 .. (count - 1)) \cup {count}
          BY <2>0, <5>4 DEF StoreOK
        <5>6. (0 .. (count - 1)) \cup {count} = 0 .. ((count + 1) - 1)
          BY <5>3
        <5>7. ASSUME NEW d \in docs \cup {new}, NEW e \in docs \cup {new},
                     d.pos = e.pos \/ d.path = e.path
              PROVE  d = e
          BY <2>0, <5>3, <5>4, <5>7 DEF StoreOK
        <5>8. StoreOK(docs \cup {new}, count + 1)
          <6>1. count + 1 \in Nat
            BY <5>3
          <6>2. docs \cup {new} \subseteq Doc
            BY <2>0, <5>2
          <6> QED BY <5>5, <5>6, <5>7, <6>1, <6>2 DEF StoreOK
        <5> QED BY <2>0, <3>3, <5>1, <5>8 DEF handle_did_open, editor, TypeOK
      <4> QED BY <4>1, <4>2
    <3>4. ASSUME NEW p, NEW t, handle_did_change(p, t), t \in Text
          PROVE  /\ StoreOK(docs', count') /\ units' \subseteq UnitEntry
                 /\ EditorOK' /\ shutdown' \in BOOLEAN
      BY <2>0, <3>4, EditedStore DEF handle_did_change, editor, TypeOK
    <3>5. ASSUME NEW p, handle_did_close(p)
          PROVE  /\ StoreOK(docs', count') /\ units' \subseteq UnitEntry
                 /\ EditorOK' /\ shutdown' \in BOOLEAN
      <4>1. CASE UNCHANGED <<docs, count, units, editor>>
        BY <2>0, <3>5, <4>1 DEF handle_did_close, editor, TypeOK
      <4>2. ASSUME NEW doc \in Opened(p), count' = count - 1,
                   flush_dirty(AllDirty(SwapRemove(docs, count, doc)))
            PROVE  /\ StoreOK(docs', count') /\ units' \subseteq UnitEntry
                   /\ EditorOK' /\ shutdown' \in BOOLEAN
        <5>1. StoreOK(SwapRemove(docs, count, doc), count - 1)
          BY <2>0, RemovedStore DEF Opened
        <5>2. StoreOK(AllDirty(SwapRemove(docs, count, doc)), count - 1)
          BY <5>1, FlagStore DEF AllDirty
        <5> QED BY <2>0, <3>5, <4>2, <5>2, FlushType DEF handle_did_close, TypeOK
      <4>3. CASE /\ count' = 0 /\ docs' = {} /\ units' = {} /\ pub' = {}
                 /\ shown' = [u \in Path |-> IF u \in pub \cup {p} THEN {} ELSE shown[u]]
        <5>1. StoreOK({}, 0)
          BY DEF StoreOK
        <5> QED BY <2>0, <3>5, <4>3, <5>1 DEF handle_did_close, TypeOK
      <4> QED BY <3>5, <4>1, <4>2, <4>3 DEF handle_did_close
    <3>6. ASSUME flush_dirty(docs), UNCHANGED count
          PROVE  /\ StoreOK(docs', count') /\ units' \subseteq UnitEntry /\ EditorOK'
      BY <2>0, <3>6, FlushType
    <3>7. ASSUME NEW p, handle_query(p) \/ handle_shutdown \/ handle_other_request
          PROVE  /\ StoreOK(docs', count') /\ units' \subseteq UnitEntry
                 /\ EditorOK' /\ shutdown' \in BOOLEAN
      BY <3>6, <3>7 DEF handle_query, handle_shutdown, handle_other_request, TypeOK
    <3>8. ASSUME handle_exit \/ Ignore
          PROVE  /\ StoreOK(docs', count') /\ units' \subseteq UnitEntry
                 /\ EditorOK' /\ shutdown' \in BOOLEAN
      BY <2>0, <3>8 DEF handle_exit, Ignore, editor, TypeOK
    <3>9. /\ m.op = "open" => m.path \in Path /\ m.text \in Text
          /\ m.op = "change" => m.text \in Text
      BY <3>1, WorldAssumption, PathAssumption DEF Msg
    <3> HIDE DEF m
    <3>10. /\ StoreOK(docs', count') /\ units' \subseteq UnitEntry
           /\ EditorOK' /\ shutdown' \in BOOLEAN
      BY <3>2, <3>3, <3>4, <3>5, <3>7, <3>8, <3>9 DEF dispatch
    <3> QED BY <3>1, <3>2, <3>10 DEF TypeOK, world
  <2>2. CASE ReadMalformed
    BY <2>2 DEF ReadMalformed, TypeOK, server, editor, world
  <2>3. CASE ReadEof
    BY <2>3 DEF ReadEof, TypeOK, editor, world
  <2>4. CASE Poll
    BY <2>0, <2>4, FlushType DEF Poll, TypeOK, editor, world
  <2>5. CASE Send
    BY <2>5 DEF Send, TypeOK, server, editor, world
  <2>6. CASE CloseInput \/ UNCHANGED vars
    BY <2>6 DEF CloseInput, TypeOK, vars, server, editor, world
  <2>7. CASE SaveFile
    BY <2>7 DEF SaveFile, TypeOK, server, editor
  <2>8. CASE SaveRsp
    BY <2>8, WorldAssumption DEF SaveRsp, TypeOK, server, editor
  <2> QED BY <2>1, <2>2, <2>3, <2>4, <2>5, <2>6, <2>7, <2>8 DEF Next, Server
<1> QED BY <1>1, <1>2, PTL DEF Spec
-----------------------------------------------------------------------------
(* Units live exactly as long as the documents that bear their key.          *)

(* One analysis of a borne key leaves exactly one key: that one. *)
LEMMA AnalyzeKeys ==
    ASSUME NEW ds, NEW us, NEW k, Bearers(ds, k) # {}
    PROVE  {u.key : u \in analyze_unit(ds, us, k)} = {k}
<1>1. PICK doc : primary_doc_for(ds, k) = {doc}
  BY DEF primary_doc_for, First
<1> DEFINE above == RspAbove(DirOf[doc.path])
           prim  == [via |-> doc.path, file |-> doc.path, text |-> doc.text]
           ran   == analyze(prim, ExtraSources(ds, k, doc, above))
<1>2. EntryAfter(ds, us, k, doc, above, ran) \in analyze_unit(ds, us, k)
  BY <1>1 DEF analyze_unit
<1> HIDE DEF ran
<1>3. ASSUME NEW u \in analyze_unit(ds, us, k) PROVE u.key = k
  <2>1. PICK d, r : u = EntryAfter(ds, us, k, d, RspAbove(DirOf[d.path]), r)
    BY DEF analyze_unit
  <2> QED BY <2>1 DEF EntryAfter
<1> QED BY <1>2, <1>3 DEF EntryAfter

LEMMA AnalyzeUnborne ==
    ASSUME NEW ds, NEW us, NEW k, Bearers(ds, k) = {}
    PROVE  analyze_unit(ds, us, k) = {}
BY DEF analyze_unit, primary_doc_for, First

(* A flush keeps the units and the keys of the documents together when every *)
(* document it takes for clean already has a unit.                           *)
LEMMA FlushBorne ==
    ASSUME Workspace, NEW ds, NEW n, StoreOK(ds, n), Dirty(ds) # {}, flush_dirty(ds),
           \A d \in ds \ Dirty(ds) : d.key # NoKey => \E u \in units : u.key = d.key
    PROVE  UnitsBorne'
<1> DEFINE es == Refreshed(ds)
           stale == StaleKeys(es)
<1>1. docs' = Cleaned(es) /\ units' = Reanalyzed(es, stale)
  BY DEF flush_dirty
<1>0. \A d \in ds : d \in Doc
  BY DEF StoreOK
<1>2. {d.key : d \in docs'} = {e.key : e \in es}
  <2>1. es \subseteq Doc
    BY RefreshedStore DEF StoreOK
  <2> HIDE DEF es
  <2>2. \A e \in es : [e EXCEPT !.dirty = FALSE].key = e.key
    BY <2>1 DEF Doc
  <2>3. docs' = {[e EXCEPT !.dirty = FALSE] : e \in es}
    BY <1>1 DEF Cleaned
  <2>4. ASSUME NEW d \in docs' PROVE \E e \in es : e.key = d.key
    BY <2>2, <2>3
  <2>5. ASSUME NEW e \in es PROVE \E d \in docs' : d.key = e.key
    <3>1. [e EXCEPT !.dirty = FALSE] \in docs'
      BY <2>3
    <3> QED BY <2>2, <3>1
  <2> QED BY <2>4, <2>5
<1>3. ASSUME NEW e \in es PROVE e.key \in Key /\ e.key # NoKey
  <2>1. PICK d \in ds : e.key = unit_key(d.path)
    BY <1>0 DEF Refreshed, Doc
  <2>2. d.path \in Path
    BY DEF StoreOK, Doc
  <2> QED BY <2>1, <2>2, UnitKeyType, PathAssumption DEF Key
<1>4. ASSUME NEW u \in units' PROVE \E e \in es : e.key = u.key
  <2>1. CASE u \in {v \in units : Bearers(es, v.key) # {} /\ v.key \notin stale}
    BY <2>1 DEF Bearers
  <2>2. CASE u \in UNION {analyze_unit(es, units, k) : k \in stale}
    <3>1. PICK k \in stale : u \in analyze_unit(es, units, k)
      BY <2>2
    <3>2. Bearers(es, k) # {}
      BY <3>1, AnalyzeUnborne
    <3>3. u.key = k
      BY <3>1, <3>2, AnalyzeKeys
    <3> QED BY <3>2, <3>3 DEF Bearers
  <2> QED BY <1>1, <2>1, <2>2 DEF Reanalyzed
<1>5. ASSUME NEW e \in es PROVE \E u \in units' : u.key = e.key
  <2>0. Bearers(es, e.key) # {}
    BY DEF Bearers
  <2>1. CASE e.key \in stale
    <3>1. PICK u \in analyze_unit(es, units, e.key) : u.key = e.key
      BY <2>0, AnalyzeKeys
    <3> QED BY <1>1, <2>1, <3>1 DEF Reanalyzed
  <2>2. CASE e.key \notin stale
    <3>1. ~e.dirty
      BY <2>2 DEF StaleKeys, Dirty
    <3>2. PICK d \in ds : e = [d EXCEPT !.dirty = @ \/ unit_key(d.path) # d.key,
                                        !.key = unit_key(d.path),
                                        !.real = canon_path(d.path)]
      BY DEF Refreshed
    <3>3. d \in Doc
      BY DEF StoreOK
    <3>4. e.key = unit_key(d.path) /\ e.dirty = (d.dirty \/ unit_key(d.path) # d.key)
      BY <3>2, <3>3 DEF Doc
    <3>5. d \notin Dirty(ds) /\ d.key = e.key
      BY <3>1, <3>4 DEF Dirty
    <3>6. PICK u \in units : u.key = e.key
      BY <1>3, <3>5
    <3> QED BY <1>1, <2>0, <2>2, <3>6 DEF Reanalyzed
  <2> QED BY <2>1, <2>2
<1> QED
  <2>1. {u.key : u \in units'} = {e.key : e \in es}
    BY <1>4, <1>5
  <2> QED BY <1>2, <1>3, <2>1 DEF UnitsBorne

(* The messages that change neither a key nor a unit. *)
LEMMA EditBorne ==
    ASSUME UnitsBorne, UNCHANGED units,
           {d.key : d \in docs'} \ {NoKey} = {d.key : d \in docs} \ {NoKey}
    PROVE  UnitsBorne'
BY DEF UnitsBorne

LEMMA RunBorne ==
    ASSUME TypeOK, UnitsBorne, flush_dirty(docs)
    PROVE  UnitsBorne'
<1>1. CASE Dirty(docs) = {}
  BY <1>1 DEF flush_dirty, UnitsBorne
<1>2. CASE Dirty(docs) # {}
  <2>1. \A d \in docs \ Dirty(docs) : d.key # NoKey => \E u \in units : u.key = d.key
    BY DEF UnitsBorne
  <2> QED BY <1>2, <2>1, FlushBorne DEF TypeOK, Workspace
<1> QED BY <1>1, <1>2

LEMMA CloseBorne ==
    ASSUME TypeOK, UnitsBorne, NEW p, handle_did_close(p)
    PROVE  UnitsBorne'
<1>1. CASE UNCHANGED <<docs, count, units, editor>>
  BY <1>1 DEF UnitsBorne
<1>2. CASE docs' = {} /\ units' = {}
  BY <1>2 DEF UnitsBorne
<1>3. ASSUME NEW doc \in Opened(p), count' = count - 1, count' > 0,
             flush_dirty(AllDirty(SwapRemove(docs, count, doc)))
      PROVE  UnitsBorne'
  <2> DEFINE es == SwapRemove(docs, count, doc)
  <2>1. StoreOK(es, count - 1)
    BY RemovedStore DEF Opened, TypeOK
  <2>2. StoreOK(AllDirty(es), count - 1)
    BY <2>1, FlagStore DEF AllDirty
  <2>3. es # {}
    <3>1. 0 \in {d.pos : d \in es}
      BY <1>3, <2>1 DEF StoreOK
    <3> HIDE DEF es
    <3> QED BY <3>1
  <2> HIDE DEF es
  <2>4. \A d \in AllDirty(es) : d.dirty
    BY <2>1 DEF AllDirty, StoreOK, Doc
  <2>5. AllDirty(es) # {}
    BY <2>3 DEF AllDirty
  <2>6. Dirty(AllDirty(es)) # {} /\ AllDirty(es) \ Dirty(AllDirty(es)) = {}
    BY <2>4, <2>5 DEF Dirty
  <2> QED BY <1>3, <2>2, <2>6, FlushBorne DEF TypeOK, Workspace, es
<1> QED BY <1>1, <1>2, <1>3 DEF handle_did_close

(* No unit outlives its documents and no document a flush has seen is        *)
(* without one (unit_prune, flush_dirty, the last close).                    *)
THEOREM UnitsAreBorne ==
    ASSUME FrontEndTyped
    PROVE  Spec => []UnitsBorne
<1>1. Init => UnitsBorne
  BY DEF Init, LspInit, UnitsBorne
<1>2. TypeOK /\ UnitsBorne /\ [Next]_vars => UnitsBorne'
  <2> SUFFICES ASSUME TypeOK, UnitsBorne, [Next]_vars PROVE UnitsBorne'
    OBVIOUS
  <2>1. CASE UNCHANGED <<docs, units>>
    BY <2>1 DEF UnitsBorne
  <2>2. CASE Read
    <3>1. dispatch(Head(inbox)) /\ Head(inbox).op # "malformed"
      BY <2>2 DEF Read
    <3>2. ASSUME NEW p, NEW t, handle_did_open(p, t) \/ handle_did_change(p, t)
          PROVE  UnitsBorne'
      <4>0. \A d \in docs : d \in Doc
        BY DEF TypeOK, StoreOK
      <4>1. UNCHANGED units
        BY <3>2 DEF handle_did_open, handle_did_change
      <4>2. {d.key : d \in Edited(p, t)} = {d.key : d \in docs}
        <5>1. \A d \in docs : [d EXCEPT !.text = t, !.dirty = TRUE].key = d.key
          BY <4>0 DEF Doc
        <5> QED BY <5>1 DEF Edited
      <4>3. CASE docs' = Edited(p, t)
        BY <4>1, <4>2, <4>3, EditBorne
      <4>4. ASSUME NEW new, new.key = NoKey, docs' = docs \cup {new}
            PROVE  UnitsBorne'
        BY <4>1, <4>4, EditBorne
      <4> QED BY <3>2, <4>3, <4>4 DEF handle_did_open, handle_did_change
    <3>3. ASSUME handle_exit \/ Ignore PROVE UnitsBorne'
      BY <2>1, <3>3 DEF handle_exit, Ignore
    <3>4. ASSUME NEW p, handle_query(p) \/ handle_shutdown \/ handle_other_request
          PROVE  UnitsBorne'
      BY <3>4, RunBorne DEF handle_query, handle_shutdown, handle_other_request
    <3> QED BY <3>1, <3>2, <3>3, <3>4, CloseBorne DEF dispatch
  <2>3. CASE Poll
    BY <2>1, <2>3, RunBorne DEF Poll
  <2> QED BY <2>1, <2>2, <2>3
          DEF Next, Server, ReadMalformed, ReadEof, Send, CloseInput, SaveFile, SaveRsp,
              vars, server
<1>3. Spec => []TypeOK
  BY TypeCorrect
<1> QED BY <1>1, <1>2, <1>3, PTL DEF Spec
-----------------------------------------------------------------------------
(* A drained queue means nothing is left to analyze.                         *)

LEMMA FlushCleans ==
    ASSUME TypeOK, flush_dirty(docs)
    PROVE  AllClean'
<1>1. CASE Dirty(docs) = {}
  BY <1>1 DEF flush_dirty, AllClean
<1>2. CASE Dirty(docs) # {}
  <2>1. docs' = Cleaned(Refreshed(docs))
    BY <1>2 DEF flush_dirty
  <2>2. Refreshed(docs) \subseteq Doc
    BY RefreshedStore DEF TypeOK, Workspace, StoreOK
  <2>3. \A d \in Cleaned(Refreshed(docs)) : ~d.dirty
    BY <2>2 DEF Cleaned, Doc
  <2> QED BY <2>1, <2>3 DEF AllClean, Dirty
<1> QED BY <1>1, <1>2

NoneMalformed == \A n \in 1 .. Len(inbox) : inbox[n].op # "malformed"

(* For an editor that sends only well-formed messages the loop never blocks  *)
(* on an empty queue with an edit it has not analyzed (lsp_main's poll).      *)
THEOREM IdleServerIsClean ==
    ASSUME FrontEndTyped, "malformed" \notin Kinds
    PROVE  Spec => []IdleIsClean
<1> DEFINE Inv == NoneMalformed /\ IdleIsClean
<1>1. Init => Inv
  BY DEF Init, LspInit, NoneMalformed, IdleIsClean, AllClean, Dirty
<1>2. TypeOK /\ Inv /\ [Next]_vars => Inv'
  <2> SUFFICES ASSUME TypeOK, Inv, [Next]_vars PROVE Inv'
    OBVIOUS
  <2>0. inbox \in Seq(Msg)
    BY DEF TypeOK
  <2>1. CASE UNCHANGED <<inbox, docs, pc, eof>>
    BY <2>1 DEF NoneMalformed, IdleIsClean, AllClean
  <2>2. CASE Read
    <3>1. inbox # <<>> /\ inbox' = Tail(inbox) /\ pc' # "read"
      BY <2>2 DEF Read
    <3> QED BY <2>0, <3>1 DEF NoneMalformed, IdleIsClean
  <2>3. CASE ReadMalformed
    BY <2>0, <2>3 DEF ReadMalformed, NoneMalformed
  <2>4. CASE ReadEof
    BY <2>4 DEF ReadEof, NoneMalformed, IdleIsClean
  <2>5. CASE Poll
    <3>1. inbox' = inbox /\ eof' = eof
      BY <2>5 DEF Poll
    <3>2. CASE input_pending
      BY <3>1, <3>2 DEF input_pending, NoneMalformed, IdleIsClean
    <3>3. CASE ~input_pending
      <4>1. AllClean'
        BY <2>5, <3>3, FlushCleans DEF Poll
      <4> QED BY <3>1, <4>1 DEF NoneMalformed, IdleIsClean
    <3> QED BY <3>2, <3>3
  <2>6. CASE Send
    <3>1. PICK m \in Msg : m.op \in Kinds /\ inbox' = Append(inbox, m)
      BY <2>6 DEF Send
    <3>2. m.op # "malformed"
      BY <3>1
    <3>3. Len(inbox') = Len(inbox) + 1
          /\ \A n \in 1 .. Len(inbox') : inbox'[n] = IF n = Len(inbox) + 1 THEN m ELSE inbox[n]
      BY <2>0, <3>1
    <3>4. NoneMalformed'
      BY <2>0, <3>2, <3>3 DEF NoneMalformed
    <3>5. inbox' # <<>>
      BY <2>0, <3>3
    <3> QED BY <3>4, <3>5 DEF IdleIsClean
  <2>7. CASE CloseInput
    BY <2>7 DEF CloseInput, NoneMalformed, IdleIsClean
  <2>8. CASE SaveFile \/ SaveRsp \/ UNCHANGED vars
    BY <2>1, <2>8 DEF SaveFile, SaveRsp, vars, server
  <2> QED BY <2>2, <2>3, <2>4, <2>5, <2>6, <2>7, <2>8 DEF Next, Server
<1>3. Spec => []TypeOK
  BY TypeCorrect
<1> HIDE DEF Inv
<1>4. Inv => IdleIsClean
  BY DEF Inv
<1> QED BY <1>1, <1>2, <1>3, <1>4, PTL DEF Spec
=============================================================================
