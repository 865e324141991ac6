--------------------------- MODULE LspUnitsProofs ---------------------------
(* Theorems about LspServer's analyses, for every workspace, front end and    *)
(* bound: what they say of the texts as they are, and, while no other program *)
(* writes to the disk, that what the stale units leave out needs no second    *)
(* analysis.                                                                  *)
EXTENDS LspServerProofs

-----------------------------------------------------------------------------
(* One analysis                                                              *)

(* Documents opened under the canonical name of their file, and none of them *)
(* a file of the stdlib feed, which keeps its text of the startup.           *)
Canonical  == EditPath \subseteq File
FeedClosed == \A f \in FeedPath : Target[f] \notin EditPath

CanonicalDocs(ds) == \A d \in ds : d.path \in EditPath /\ d.real = d.path

LEMMA CanonFile ==
    ASSUME NEW p \in File
    PROVE  p \in Path /\ canon_path(p) = p
BY DEF canon_path, File

LEMMA CanonTwice ==
    ASSUME NEW p \in Path
    PROVE  canon_path(canon_path(p)) = canon_path(p)
BY PathAssumption DEF canon_path

LEMMA FirstOnly ==
    ASSUME NEW D, D \subseteq Doc, \A d, e \in D : d = e
    PROVE  First(D) = D
BY DEF First, Doc

(* Among canonical documents a path names the one open under its canonical   *)
(* name, if there is one.                                                    *)
LEMMA FindCanonical ==
    ASSUME Canonical, NEW ds, NEW n, StoreOK(ds, n), CanonicalDocs(ds), NEW q \in Path
    PROVE  store_find_by_path(ds, q) = {d \in ds : d.path = canon_path(q)}
<1> DEFINE exact == {d \in ds : d.path = q}
           same  == {d \in ds : d.path = canon_path(q)}
<1>1. /\ exact \subseteq Doc /\ same \subseteq Doc
      /\ \A d, e \in exact : d = e
      /\ \A d, e \in same : d = e
  BY DEF StoreOK
<1>2. First(exact) = exact /\ First(same) = same
  BY <1>1, FirstOnly
<1>3. {d \in ds : d.real = canon_path(q)} = same
  BY DEF CanonicalDocs
<1>4. CASE exact # {}
  <2>1. q \in File
    BY <1>4 DEF CanonicalDocs, Canonical
  <2>2. canon_path(q) = q
    BY <2>1, CanonFile
  <2> QED BY <1>2, <1>4, <2>2 DEF store_find_by_path
<1>5. CASE exact = {}
  BY <1>2, <1>3, <1>5 DEF store_find_by_path
<1> QED BY <1>4, <1>5

(* A source says what the open document of its file says, and else, as long  *)
(* as nobody wrote to the disk, what is saved there.                         *)
CurrentSource(s, ds) ==
    /\ \A d \in ds : d.path = canon_path(s.file) => s.text = d.text
    /\ wrote = 0 /\ (\A d \in ds : d.path # canon_path(s.file)) => s.text = disk[Target[s.file]]

FeedOK == \A f \in feed : f.file \in FeedPath /\ (wrote = 0 => f.text = disk[Target[f.file]])

LEMMA MemberCurrent ==
    ASSUME NEW ds, NEW n, StoreOK(ds, n), Canonical, CanonicalDocs(ds), NEW q \in Path,
           NEW s \in add_member_source({d \in ds : d.path = canon_path(q)}, q)
    PROVE  CurrentSource(s, ds)
<1> DEFINE open == {d \in ds : d.path = canon_path(q)}
<1>1. CASE open # {}
  <2>1. PICK d \in open : s = [via |-> q, file |-> d.path, text |-> d.text]
    BY <1>1 DEF add_member_source
  <2>2. s.file = d.path /\ s.text = d.text /\ canon_path(s.file) = d.path
    BY <2>1, CanonFile DEF CanonicalDocs, Canonical
  <2>3. \A e \in ds : e.path = d.path => e = d
    BY DEF StoreOK
  <2> QED BY <2>2, <2>3 DEF CurrentSource
<1>2. CASE open = {}
  <2>1. s.file = q /\ s.text = disk[Target[q]]
    BY <1>2 DEF add_member_source
  <2> QED BY <1>2, <2>1 DEF CurrentSource
<1> QED BY <1>1, <1>2

LEMMA ExtraCurrent ==
    ASSUME Canonical, FeedClosed, Workspace, FeedOK,
           NEW ds, NEW n, StoreOK(ds, n), CanonicalDocs(ds), NEW doc \in ds, NEW k,
           NEW above, \A r \in above : r \in Dir /\ rsp[r] # Absent,
           NEW s \in ExtraSources(ds, k, doc, above)
    PROVE  CurrentSource(s, ds)
<1>1. ASSUME s \in SiblingSources(ds, doc) PROVE CurrentSource(s, ds)
  <2>1. PICK q \in Path : s \in add_member_source(store_find_by_path(ds, q), q)
    BY <1>1 DEF SiblingSources, collect_sibling_fc
  <2> QED BY <2>1, FindCanonical, MemberCurrent
<1>2. ASSUME s \in feed PROVE CurrentSource(s, ds)
  <2>1. s.file \in FeedPath /\ s.file \in Path /\ (wrote = 0 => s.text = disk[Target[s.file]])
    BY <1>2 DEF FeedOK, Workspace, Source
  <2>2. Target[s.file] \notin EditPath /\ s.file \notin EditPath
    BY <2>1 DEF FeedClosed, Canonical, File
  <2>3. canon_path(s.file) \notin EditPath
    BY <2>2 DEF canon_path
  <2> QED BY <2>1, <2>3 DEF CurrentSource, CanonicalDocs
<1>3. ASSUME NEW r \in above, rsp[r] # Broken, s \in gather_rsp_sources(ds, doc, r)
      PROVE  CurrentSource(s, ds)
  <2>1. rsp[r] \subseteq Path
    BY <1>3 DEF Workspace, RspContent
  <2>2. PICK q \in rsp[r] :
           /\ canon_path(q) # canon_path(doc.path)
           /\ s \in add_member_source(store_find_by_path(ds, canon_path(q)) \ {doc}, q)
    BY <1>3 DEF gather_rsp_sources
  <2>3. store_find_by_path(ds, canon_path(q)) = {d \in ds : d.path = canon_path(q)}
    BY <2>1, CanonType, CanonTwice, FindCanonical
  <2>4. doc.path # canon_path(q)
    BY <2>2, CanonFile DEF CanonicalDocs, Canonical
  <2>5. store_find_by_path(ds, canon_path(q)) \ {doc} = {d \in ds : d.path = canon_path(q)}
    BY <2>3, <2>4
  <2> QED BY <2>1, <2>2, <2>5, MemberCurrent
<1>4. CASE k[1] = "U" \/ RspBroken(k, above) \/ above = {}
  BY <1>1, <1>2, <1>4 DEF ExtraSources, gather_heuristic_sources
<1>5. CASE ~(k[1] = "U" \/ RspBroken(k, above) \/ above = {})
  BY <1>3, <1>5 DEF ExtraSources, RspBroken
<1> QED BY <1>4, <1>5

(* Whatever the front end makes of them, an analysis keeps its sources.      *)
LEMMA AnalyzeShape ==
    ASSUME NEW prim, NEW extra
    PROVE  \E b \in BOOLEAN : \E D :
               analyze(prim, extra) = [srcs |-> {prim} \cup extra, typed |-> b, diags |-> D]
BY DEF analyze

(* The entry of a unit, from the document that comes first among its bearers.*)
Prim(doc) == [via |-> doc.path, file |-> doc.path, text |-> doc.text]
Extra(ds, k, doc) == ExtraSources(ds, k, doc, RspAbove(DirOf[doc.path]))
Entry(ds, us, k, doc) ==
    EntryAfter(ds, us, k, doc, RspAbove(DirOf[doc.path]), analyze(Prim(doc), Extra(ds, k, doc)))

LEMMA EntryShape ==
    ASSUME NEW ds, NEW us, NEW k, NEW doc
    PROVE  LET e == Entry(ds, us, k, doc)
           IN  /\ e.key = k
               /\ e.result.srcs = {Prim(doc)} \cup Extra(ds, k, doc)
               /\ e.files = {canon_path(doc.path)} \cup {canon_path(s.file) : s \in e.result.srcs}
<1> DEFINE ran == analyze(Prim(doc), Extra(ds, k, doc))
           e == Entry(ds, us, k, doc)
<1>1. PICK b, D : /\ b \in BOOLEAN
                  /\ ran = [srcs |-> {Prim(doc)} \cup Extra(ds, k, doc), typed |-> b, diags |-> D]
  BY AnalyzeShape
<1> DEFINE notes == Notes(ds, k, doc, RspAbove(DirOf[doc.path]))
<1>2. e.result = [ran EXCEPT !.diags = @ \cup notes] /\ e.key = k
      /\ e.files = {canon_path(doc.path)} \cup {canon_path(s.file) : s \in ran.srcs}
  BY DEF Entry, EntryAfter
<1> HIDE DEF notes, ran, e
<1>3. [ran EXCEPT !.diags = @ \cup notes].srcs = ran.srcs
  BY <1>1
<1> QED BY <1>1, <1>2, <1>3 DEF e

LEMMA AnalyzeUnit ==
    ASSUME NEW ds, NEW us, NEW k
    PROVE  analyze_unit(ds, us, k) = {Entry(ds, us, k, doc) : doc \in primary_doc_for(ds, k)}
BY DEF analyze_unit, Entry, Prim, Extra

LEMMA PrimaryDoc ==
    ASSUME NEW ds, ds \subseteq Doc, NEW k, NEW doc \in primary_doc_for(ds, k)
    PROVE  /\ primary_doc_for(ds, k) = {doc}
           /\ doc \in ds /\ doc \in Doc /\ doc.key = k
<1>1. Bearers(ds, k) \subseteq Doc
  BY DEF Bearers
<1>2. First(Bearers(ds, k)) \subseteq Bearers(ds, k)
  BY <1>1, FirstType
<1> QED BY <1>2 DEF primary_doc_for, First, Bearers

(* An analysis knows the files of its sources and has their current texts.   *)
LEMMA EntryCurrent ==
    ASSUME Canonical, FeedClosed, Workspace, FeedOK,
           NEW ds, NEW n, StoreOK(ds, n), CanonicalDocs(ds), NEW us, NEW k,
           NEW e \in analyze_unit(ds, us, k), NEW s \in e.result.srcs
    PROVE  e.key = k /\ canon_path(s.file) \in e.files /\ CurrentSource(s, ds)
<1>1. PICK doc \in primary_doc_for(ds, k) : e = Entry(ds, us, k, doc)
  BY AnalyzeUnit
<1>2. doc \in ds /\ doc \in Doc
  BY PrimaryDoc DEF StoreOK
<1>3. /\ e.key = k /\ s \in {Prim(doc)} \cup Extra(ds, k, doc)
      /\ canon_path(s.file) \in e.files
  BY <1>1, EntryShape
<1>4. CASE s = Prim(doc)
  <2>1. s.file = doc.path /\ s.text = doc.text /\ canon_path(doc.path) = doc.path
    BY <1>2, <1>4, CanonFile DEF Prim, CanonicalDocs, Canonical
  <2> QED BY <1>2, <1>3, <2>1 DEF CurrentSource, StoreOK
<1>5. CASE s \in Extra(ds, k, doc)
  <2>1. DirOf[doc.path] \in Dir
    BY <1>2, PathAssumption DEF Doc
  <2>2. \A r \in RspAbove(DirOf[doc.path]) : r \in Dir /\ rsp[r] # Absent
    BY <2>1, RspAboveType, AbovePresent
  <2> QED BY <1>2, <1>3, <1>5, <2>2, ExtraCurrent DEF Extra
<1> QED BY <1>3, <1>4, <1>5

-----------------------------------------------------------------------------
(* A flush brings every unit up to date                                      *)

(* What is known of the units between flushes: a source that is canonical,   *)
(* or any while nobody wrote to the disk, is among the unit's files and has  *)
(* the text of a clean document, or the saved one if none is open.           *)
Tracked(s) == s.file \in File \/ wrote = 0

FreshSource(s, ds) ==
    /\ \A d \in ds : ~d.dirty /\ d.path = canon_path(s.file) => s.text = d.text
    /\ wrote = 0 /\ (\A d \in ds : d.path # canon_path(s.file)) => s.text = disk[Target[s.file]]

Fresh(us, ds) ==
    \A u \in us :
        /\ u.result.srcs # {}
        /\ \A s \in u.result.srcs : Tracked(s) => canon_path(s.file) \in u.files /\ FreshSource(s, ds)

(* The same with the dirty documents, which is what a flush makes of it.     *)
Current(us, ds) ==
    \A u \in us :
        /\ u.result.srcs # {}
        /\ \A s \in u.result.srcs : Tracked(s) => canon_path(s.file) \in u.files /\ CurrentSource(s, ds)

UniqueKeys == \A u, v \in units : u.key = v.key => u = v

RangesOK == wrote = 0 => \A r \in ranges : r.analyzed = r.mapped

LEMMA RefreshedDoc ==
    ASSUME NEW ds, ds \subseteq Doc
    PROVE  /\ \A e \in Refreshed(ds) : \E d \in ds :
                 /\ e.pos = d.pos /\ e.path = d.path /\ e.text = d.text
                 /\ e.real = canon_path(d.path) /\ e.key = unit_key(d.path)
                 /\ e.dirty <=> d.dirty \/ unit_key(d.path) # d.key
           /\ \A d \in ds : \E e \in Refreshed(ds) :
                 /\ e.pos = d.pos /\ e.path = d.path /\ e.text = d.text
                 /\ e.real = canon_path(d.path) /\ e.key = unit_key(d.path)
                 /\ e.dirty <=> d.dirty \/ unit_key(d.path) # d.key
<1> DEFINE b(d) == d.dirty \/ unit_key(d.path) # d.key
           g(d) == [d EXCEPT !.dirty = b(d), !.key = unit_key(d.path), !.real = canon_path(d.path)]
<1>1. Refreshed(ds) = {g(d) : d \in ds}
  BY DEF Refreshed
<1>2. ASSUME NEW d \in ds
      PROVE  /\ g(d).pos = d.pos /\ g(d).path = d.path /\ g(d).text = d.text
             /\ g(d).real = canon_path(d.path) /\ g(d).key = unit_key(d.path)
             /\ g(d).dirty = b(d)
  <2> HIDE DEF b
  <2> QED BY DEF Doc
<1>3. \A d \in ds : b(d) <=> d.dirty \/ unit_key(d.path) # d.key
  OBVIOUS
<1> HIDE DEF g, b
<1> QED BY <1>1, <1>2, <1>3

LEMMA CleanedDoc ==
    ASSUME NEW ds, ds \subseteq Doc
    PROVE  /\ \A e \in Cleaned(ds) : \E d \in ds :
                 /\ e.pos = d.pos /\ e.path = d.path /\ e.text = d.text
                 /\ e.real = d.real /\ e.key = d.key /\ ~e.dirty
           /\ \A d \in ds : \E e \in Cleaned(ds) :
                 /\ e.pos = d.pos /\ e.path = d.path /\ e.text = d.text
                 /\ e.real = d.real /\ e.key = d.key /\ ~e.dirty
<1> DEFINE g(d) == [d EXCEPT !.dirty = FALSE]
<1>1. Cleaned(ds) = {g(d) : d \in ds}
  BY DEF Cleaned
<1>2. ASSUME NEW d \in ds
      PROVE  /\ g(d).pos = d.pos /\ g(d).path = d.path /\ g(d).text = d.text
             /\ g(d).real = d.real /\ g(d).key = d.key /\ ~g(d).dirty
  BY DEF Doc
<1> HIDE DEF g
<1> QED BY <1>1, <1>2

(* The units after a flush: those no dirty document touches, and new ones.   *)
LEMMA ReanalyzedCurrent ==
    ASSUME Canonical, FeedClosed, Workspace, FeedOK,
           NEW ds, NEW n, StoreOK(ds, n), CanonicalDocs(ds),
           Fresh(units, ds) \/ Dirty(ds) = ds
    PROVE  LET es == Refreshed(ds) IN
           CanonicalDocs(es) /\ Current(Reanalyzed(es, StaleKeys(es)), es)
<1> DEFINE es == Refreshed(ds)
           us == Reanalyzed(es, StaleKeys(es))
<1>1. ds \subseteq Doc /\ StoreOK(es, n)
  BY RefreshedStore DEF StoreOK
<1>2. CanonicalDocs(es)
  <2>1. \A d \in ds : canon_path(d.path) = d.path
    BY CanonFile DEF CanonicalDocs, Canonical
  <2> QED BY <1>1, <2>1, RefreshedDoc DEF CanonicalDocs
<1> HIDE DEF es
<1>3. ASSUME NEW k, NEW u \in analyze_unit(es, units, k)
      PROVE  /\ u.result.srcs # {}
             /\ \A s \in u.result.srcs : canon_path(s.file) \in u.files /\ CurrentSource(s, es)
  <2>1. PICK doc \in primary_doc_for(es, k) : u = Entry(es, units, k, doc)
    BY AnalyzeUnit
  <2>2. u.result.srcs # {}
    BY <2>1, EntryShape
  <2> QED BY <1>1, <1>2, <2>2, EntryCurrent
<1>4. ASSUME NEW u \in units, Bearers(es, u.key) # {}, u.key \notin StaleKeys(es),
             u.result.srcs # {},
             NEW s \in u.result.srcs, canon_path(s.file) \in u.files, FreshSource(s, ds)
      PROVE  CurrentSource(s, es)
  <2>1. ASSUME NEW e \in es, e.path = canon_path(s.file)
        PROVE  s.text = e.text
    <3>1. e.real = e.path
      BY <1>2 DEF CanonicalDocs
    <3>2. ~e.dirty
      BY <1>4, <2>1, <3>1 DEF StaleKeys, Dirty
    <3>3. PICK d \in ds : d.path = e.path /\ d.text = e.text /\ ~d.dirty
      BY <1>1, <3>2, RefreshedDoc DEF es
    <3> QED BY <1>4, <2>1, <3>3 DEF FreshSource
  <2>2. ASSUME \A e \in es : e.path # canon_path(s.file)
        PROVE  \A d \in ds : d.path # canon_path(s.file)
    BY <1>1, <2>2, RefreshedDoc DEF es
  <2> QED BY <1>4, <2>1, <2>2 DEF CurrentSource, FreshSource
<1>5. ASSUME NEW u \in units, Bearers(es, u.key) # {}, u.key \notin StaleKeys(es)
      PROVE  /\ u.result.srcs # {}
             /\ \A s \in u.result.srcs : Tracked(s) => canon_path(s.file) \in u.files /\ CurrentSource(s, es)
  <2>1. PICK e \in es : e.key = u.key
    BY <1>5 DEF Bearers
  <2>2. ~e.dirty
    BY <1>5, <2>1 DEF StaleKeys, Dirty
  <2>3. PICK d \in ds : ~d.dirty
    BY <1>1, <2>2, RefreshedDoc DEF es
  <2>4. Fresh(units, ds)
    BY <2>3 DEF Dirty
  <2> QED BY <1>4, <1>5, <2>4 DEF Fresh
<1>6. Current(us, es)
  BY <1>3, <1>5 DEF Current, Reanalyzed
<1> QED BY <1>2, <1>6 DEF es

LEMMA ReanalyzedUnique ==
    ASSUME UniqueKeys, NEW ds, ds \subseteq Doc, NEW stale,
           NEW u \in Reanalyzed(ds, stale), NEW v \in Reanalyzed(ds, stale), u.key = v.key
    PROVE  u = v
<1>1. ASSUME NEW k, NEW w \in analyze_unit(ds, units, k)
      PROVE  w.key = k /\ analyze_unit(ds, units, k) = {w}
  <2>1. PICK doc \in primary_doc_for(ds, k) : w = Entry(ds, units, k, doc)
    BY AnalyzeUnit
  <2>2. primary_doc_for(ds, k) = {doc}
    BY PrimaryDoc
  <2> QED BY <2>1, <2>2, AnalyzeUnit, EntryShape
<1> QED BY <1>1 DEF Reanalyzed, UniqueKeys

(* Where nothing was written, ranges are mapped on the texts analyzed.       *)
LEMMA RangesCurrent ==
    ASSUME Canonical, wrote = 0, NEW ds, NEW n, StoreOK(ds, n), CanonicalDocs(ds),
           NEW us, us \subseteq UnitEntry, Current(us, ds), NEW fs,
           NEW r \in RangesOf(ds, us, fs)
    PROVE  r.analyzed = r.mapped
<1>a. PICK u \in us : \E s \in u.result.srcs :
          r = [file |-> s.file, analyzed |-> s.text, mapped |-> MappedText(ds, s.file)]
  BY DEF RangesOf
<1>1. PICK s \in u.result.srcs :
          r = [file |-> s.file, analyzed |-> s.text, mapped |-> MappedText(ds, s.file)]
  BY <1>a
<1>2. s.file \in Path
  BY DEF UnitEntry, SourceSet, Source
<1>3. CurrentSource(s, ds)
  BY DEF Current, Tracked
<1>4. store_find_by_path(ds, s.file) = {d \in ds : d.path = canon_path(s.file)}
  BY <1>2, FindCanonical
<1>5. CASE {d \in ds : d.path = canon_path(s.file)} # {}
  BY <1>1, <1>3, <1>4, <1>5 DEF MappedText, Only, CurrentSource
<1>6. CASE {d \in ds : d.path = canon_path(s.file)} = {}
  BY <1>1, <1>3, <1>4, <1>6 DEF MappedText, CurrentSource
<1> QED BY <1>5, <1>6

World == <<disk, rsp, feed, wrote>>

LEMMA FlushFresh ==
    ASSUME Canonical, FeedClosed, Workspace, FeedOK, UniqueKeys, RangesOK, units' \subseteq UnitEntry,
           NEW ds, NEW n, StoreOK(ds, n), CanonicalDocs(ds),
           Fresh(units, ds) \/ (Dirty(ds) = ds /\ ds # {}),
           flush_dirty(ds), UNCHANGED World
    PROVE  CanonicalDocs(docs') /\ UniqueKeys' /\ Fresh(units, docs)' /\ RangesOK'
<1> USE DEF World
<1>0. Fresh(units, docs)' = Fresh(units', docs')
  BY DEF Fresh, FreshSource, Tracked, canon_path
<1>1. CASE Dirty(ds) = {}
  <2>1. docs' = ds /\ UNCHANGED <<units, ranges>> /\ Fresh(units, ds)
    BY <1>1 DEF flush_dirty, editor
  <2> QED BY <1>0, <2>1 DEF UniqueKeys, RangesOK
<1>2. CASE Dirty(ds) # {}
  <2> DEFINE es == Refreshed(ds)
             us == Reanalyzed(es, StaleKeys(es))
  <2>1. /\ docs' = Cleaned(es) /\ units' = us
        /\ publish_project_diagnostics(es, us)
    BY <1>2 DEF flush_dirty
  <2>2. StoreOK(es, n) /\ es \subseteq Doc
    BY RefreshedStore DEF StoreOK
  <2>3. CanonicalDocs(es) /\ Current(us, es)
    BY ReanalyzedCurrent
  <2>4. UniqueKeys'
    BY <2>1, <2>2, ReanalyzedUnique DEF UniqueKeys
  <2>5. PICK fs : ranges' = RangesOf(es, us, fs)
    BY <2>1 DEF publish_project_diagnostics, Notify
  <2> HIDE DEF es, us
  <2>6. CanonicalDocs(docs')
    BY <2>1, <2>2, <2>3, CleanedDoc DEF CanonicalDocs
  <2>7. RangesOK'
    BY <2>1, <2>2, <2>3, <2>5, RangesCurrent DEF RangesOK
  <2>8. ASSUME NEW s, CurrentSource(s, es) PROVE FreshSource(s, docs')
    <3>1. \A d \in docs' : \E e \in es : e.path = d.path /\ e.text = d.text
      BY <2>1, <2>2, CleanedDoc
    <3>2. \A e \in es : \E d \in docs' : e.path = d.path
      BY <2>1, <2>2, CleanedDoc
    <3> QED BY <2>8, <3>1, <3>2 DEF CurrentSource, FreshSource
  <2>9. Fresh(units', docs')
    BY <2>1, <2>3, <2>8 DEF Current, Fresh
  <2> QED BY <1>0, <2>4, <2>6, <2>7, <2>9
<1> QED BY <1>1, <1>2

-----------------------------------------------------------------------------
(* Answers come from the current texts                                       *)

QueryOK ==
    reply.op = "query" =>
        /\ AllClean
        /\ \A doc \in Opened(reply.path), u \in units :
              u.key = doc.key /\ u.result.typed => reply.srcs = u.result.srcs

FreshInv ==
    /\ wrote \in Nat
    /\ CanonicalDocs(docs) /\ FeedOK
    /\ UniqueKeys /\ Fresh(units, docs) /\ RangesOK
    /\ QueryOK

(* Opening or editing a document adds or dirties it and removes none.        *)
LEMMA EditFresh ==
    ASSUME Fresh(units, docs), NEW ds,
           \A e \in ds : e \in docs \/ e.dirty,
           \A d \in docs : \E e \in ds : e.path = d.path
    PROVE  Fresh(units, ds)
BY DEF Fresh, FreshSource

LEMMA EditStep ==
    ASSUME Canonical, TypeOK, FreshInv, NEW p \in EditPath, NEW t,
           handle_did_open(p, t) \/ handle_did_change(p, t), UNCHANGED World
    PROVE  FreshInv'
<1> USE DEF World
<1>1. /\ UNCHANGED <<units, ranges>> /\ reply'.op # "query"
      /\ docs \subseteq Doc
  BY DEF handle_did_open, handle_did_change, editor, NoReply, TypeOK, StoreOK
<1> DEFINE new == [pos |-> count, path |-> p, real |-> canon_path(p), text |-> t, dirty |-> TRUE, key |-> NoKey]
<1>2. docs' = Edited(p, t) \/ docs' = docs \cup {new}
  BY DEF handle_did_open, handle_did_change
<1>3. ASSUME NEW d \in docs, NEW e, e = [d EXCEPT !.text = t, !.dirty = TRUE]
      PROVE  e.path = d.path /\ e.real = d.real /\ e.dirty
  BY <1>1, <1>3 DEF Doc
<1>4. CASE docs' = Edited(p, t)
  <2>1. \A e \in docs' : e \in docs \/ (e.dirty /\ \E d \in docs : e.path = d.path /\ e.real = d.real)
    BY <1>3, <1>4 DEF Edited
  <2>2. ASSUME NEW d \in docs PROVE \E e \in docs' : e.path = d.path
    <3>1. CASE d.path = p
      <4>1. [d EXCEPT !.text = t, !.dirty = TRUE] \in docs'
        BY <1>4, <3>1 DEF Edited
      <4> QED BY <4>1, <1>3
    <3>2. CASE d.path # p
      BY <1>4, <3>2 DEF Edited
    <3> QED BY <3>1, <3>2
  <2>3. Fresh(units, docs')
    BY <2>1, <2>2, EditFresh DEF FreshInv
  <2>4. CanonicalDocs(docs')
    BY <2>1 DEF FreshInv, CanonicalDocs
  <2> QED BY <1>1, <2>3, <2>4
          DEF FreshInv, FeedOK, UniqueKeys, RangesOK, QueryOK, Fresh, FreshSource, Tracked, canon_path
<1>5. CASE docs' = docs \cup {new}
  <2>1. new.dirty /\ new.path = p /\ new.real = p
    BY CanonFile DEF Canonical
  <2> HIDE DEF new
  <2>2. Fresh(units, docs')
    BY <1>5, <2>1, EditFresh DEF FreshInv
  <2>3. CanonicalDocs(docs')
    BY <1>5, <2>1 DEF FreshInv, CanonicalDocs
  <2> QED BY <1>1, <2>2, <2>3
          DEF FreshInv, FeedOK, UniqueKeys, RangesOK, QueryOK, Fresh, FreshSource, Tracked, canon_path
<1> QED BY <1>2, <1>4, <1>5

LEMMA FlushStep ==
    ASSUME Canonical, FeedClosed, TypeOK, TypeOK', FreshInv, flush_dirty(docs), UNCHANGED World
    PROVE  /\ AllClean'
           /\ QueryOK' => FreshInv'
<1>1. AllClean'
  BY FlushCleans
<1>2. Workspace /\ StoreOK(docs, count) /\ units' \subseteq UnitEntry
  BY DEF TypeOK, Workspace
<1>3. CanonicalDocs(docs') /\ UniqueKeys' /\ Fresh(units, docs)' /\ RangesOK'
  BY <1>2, FlushFresh DEF FreshInv
<1> QED BY <1>1, <1>3 DEF FreshInv, FeedOK, World

(* The answer is the current analysis of the document's unit.                *)
LEMMA QueryStep ==
    ASSUME Canonical, FeedClosed, TypeOK, TypeOK', FreshInv, NEW p, handle_query(p), UNCHANGED World
    PROVE  FreshInv'
<1>1. flush_dirty(docs)
  BY DEF handle_query
<1>2. UniqueKeys'
  <2>1. Workspace /\ StoreOK(docs, count) /\ units' \subseteq UnitEntry
    BY DEF TypeOK, Workspace
  <2> QED BY <1>1, <2>1, FlushFresh DEF FreshInv
<1>3. reply'.path = p
      /\ reply'.srcs = UNION {query_result(units', d) : d \in {d \in docs' : d.path = p}}
  BY DEF handle_query
<1>4. ASSUME NEW doc \in docs', doc.path = p, NEW u \in units', u.key = doc.key, u.result.typed
      PROVE  reply'.srcs = u.result.srcs
  <2>1. {d \in docs' : d.path = p} = {doc}
    BY <1>4 DEF TypeOK, StoreOK
  <2>2. unit_find(units', doc.key) = {u}
    BY <1>2, <1>4 DEF unit_find, UniqueKeys
  <2>3. query_result(units', doc) = u.result.srcs
    BY <1>4, <2>2 DEF query_result
  <2> QED BY <1>3, <2>1, <2>3
<1>5. QueryOK'
  BY <1>1, <1>3, <1>4, FlushStep DEF QueryOK, Opened
<1> QED BY <1>1, <1>5, FlushStep

(* Closing re-analyzes everything that stays open.                           *)
LEMMA CloseStep ==
    ASSUME Canonical, FeedClosed, TypeOK, TypeOK', FreshInv, NEW p, handle_did_close(p), UNCHANGED World
    PROVE  FreshInv'
<1> USE DEF World
<1>0. reply'.op # "query"
  BY DEF handle_did_close, NoReply
<1>1. CASE UNCHANGED <<docs, count, units, editor>>
  BY <1>0, <1>1 DEF FreshInv, CanonicalDocs, FeedOK, UniqueKeys, RangesOK, QueryOK, Fresh, FreshSource,
                    Tracked, canon_path, editor
<1>2. ASSUME NEW doc \in Opened(p), count' = count - 1, count' > 0,
             flush_dirty(AllDirty(SwapRemove(docs, count, doc)))
      PROVE  FreshInv'
  <2> DEFINE left == SwapRemove(docs, count, doc)
             ds   == AllDirty(left)
  <2>1. StoreOK(left, count - 1)
    BY RemovedStore DEF TypeOK, Opened
  <2>2. StoreOK(ds, count - 1)
    BY <2>1, FlagStore DEF AllDirty
  <2>3. \A d \in ds : \E e \in left : d.path = e.path /\ d.real = e.real /\ d.dirty
    BY <2>1 DEF StoreOK, AllDirty, Doc
  <2>4. \A e \in left : \E d \in docs : d.path = e.path /\ d.real = e.real
    BY DEF SwapRemove, TypeOK, StoreOK, Doc
  <2>5. CanonicalDocs(ds) /\ Dirty(ds) = ds
    BY <2>3, <2>4 DEF FreshInv, CanonicalDocs, Dirty
  <2>6. ds # {}
    <3>1. count \in Nat /\ 0 \in 0 .. (count - 1) - 1
      BY <1>2 DEF TypeOK, StoreOK
    <3>2. {d.pos : d \in ds} = 0 .. (count - 1) - 1
      BY <2>2 DEF StoreOK
    <3> QED BY <3>1, <3>2
  <2>7. Workspace /\ units' \subseteq UnitEntry
    BY DEF TypeOK, Workspace
  <2> HIDE DEF left, ds
  <2>8. CanonicalDocs(docs') /\ UniqueKeys' /\ Fresh(units, docs)' /\ RangesOK'
    BY <1>2, <2>2, <2>5, <2>6, <2>7, FlushFresh DEF FreshInv, ds, left
  <2> QED BY <1>0, <2>8 DEF FreshInv, FeedOK, QueryOK
<1>3. CASE docs' = {} /\ units' = {} /\ ranges' = {}
  BY <1>0, <1>3 DEF FreshInv, CanonicalDocs, FeedOK, UniqueKeys, RangesOK, QueryOK, Fresh
<1> QED BY <1>1, <1>2, <1>3 DEF handle_did_close

(* A request is answered from an analysis of the current texts, and ranges    *)
(* are mapped on what was analyzed, for documents opened under their          *)
(* canonical names that are no stdlib sources (handle_query, query_result,    *)
(* flush_dirty's rule for which units are stale, emit_diagnostics).          *)
THEOREM AnswersAreCurrent ==
    ASSUME FrontEndTyped, Canonical, FeedClosed
    PROVE  Spec => []AnswersCurrent
<1>1. Init => FreshInv
  BY DEF Init, LspInit, FreshInv, CanonicalDocs, FeedOK, UniqueKeys, Fresh, RangesOK, QueryOK, NoReply
<1>2. TypeOK /\ TypeOK' /\ FreshInv /\ [Next]_vars => FreshInv'
  <2> SUFFICES ASSUME TypeOK, TypeOK', FreshInv, [Next]_vars PROVE FreshInv'
    OBVIOUS
  <2>1. CASE UNCHANGED <<docs, units, ranges, World, reply>>
    BY <2>1 DEF World, FreshInv, CanonicalDocs, FeedOK, UniqueKeys, RangesOK, QueryOK, Fresh, FreshSource,
                Tracked, canon_path, AllClean, Opened
  <2>2. CASE Read
    <3>1. /\ dispatch(Head(inbox)) /\ UNCHANGED World
          /\ Head(inbox) \in Msg
      BY <2>2 DEF Read, World, world, TypeOK
    <3>2. ASSUME Head(inbox).op \in {"open", "change"}
          PROVE  Head(inbox).path \in EditPath
      BY <3>1, <3>2 DEF Msg
    <3>3. ASSUME handle_shutdown \/ handle_other_request
          PROVE  FreshInv'
      <4>1. flush_dirty(docs) /\ reply'.op # "query"
        BY <3>3 DEF handle_shutdown, handle_other_request, NoReply
      <4> QED BY <3>1, <4>1, FlushStep DEF QueryOK
    <3>4. ASSUME handle_exit \/ Ignore PROVE FreshInv'
      <4>1. UNCHANGED <<docs, units, ranges>> /\ reply'.op # "query"
        BY <3>4 DEF handle_exit, Ignore, editor, NoReply
      <4> QED BY <3>1, <4>1 DEF World, FreshInv, CanonicalDocs, FeedOK, UniqueKeys, RangesOK, QueryOK,
                                Fresh, FreshSource, Tracked, canon_path
    <3> QED BY <3>1, <3>2, <3>3, <3>4, EditStep, QueryStep, CloseStep DEF dispatch
  <2>3. CASE Poll
    <3>1. UNCHANGED World /\ reply' = reply
      BY <2>3 DEF Poll, World, world
    <3>2. CASE UNCHANGED <<docs, units, editor>>
      BY <2>1, <3>1, <3>2 DEF editor
    <3>3. CASE flush_dirty(docs)
      <4>1. CASE reply.op = "query"
        <5>1. Dirty(docs) = {}
          BY <4>1 DEF FreshInv, QueryOK, AllClean
        <5> QED BY <2>1, <3>1, <3>3, <5>1 DEF flush_dirty, editor
      <4>2. CASE reply.op # "query"
        BY <3>1, <3>3, <4>2, FlushStep DEF QueryOK
      <4> QED BY <4>1, <4>2
    <3> QED BY <2>3, <3>2, <3>3 DEF Poll
  <2>4. CASE SaveFile \/ SaveRsp
    <3>1. /\ UNCHANGED <<docs, units, ranges, reply, feed>>
          /\ wrote' \in Nat /\ wrote' # 0
      BY <2>4 DEF SaveFile, SaveRsp, server, editor, FreshInv
    <3>2. ASSUME NEW s, s.file \in File, canon_path(s.file) = s.file
          PROVE  Tracked(s) /\ canon_path(s.file)' = s.file
      BY <3>2 DEF Tracked, canon_path, File
    <3>3. Fresh(units, docs)'
      BY <3>1, <3>2, CanonFile DEF FreshInv, Fresh, FreshSource, Tracked
    <3> QED BY <3>1, <3>3 DEF FreshInv, CanonicalDocs, FeedOK, UniqueKeys, RangesOK, QueryOK, AllClean, Opened
  <2> QED BY <2>1, <2>2, <2>3, <2>4
          DEF Next, Server, ReadMalformed, ReadEof, Send, CloseInput, vars, server, editor, world, World
<1>3. TypeOK /\ FreshInv => AnswersCurrent
  <2> SUFFICES ASSUME TypeOK, FreshInv, reply.op = "query",
                      NEW doc \in Opened(reply.path), NEW u \in units,
                      u.key = doc.key, u.result.typed
               PROVE  /\ reply.srcs # {}
                      /\ \A s \in reply.srcs, d \in docs : s.file = d.path => s.text = d.text
    BY DEF AnswersCurrent, FreshInv, RangesOK
  <2>1. reply.srcs = u.result.srcs /\ AllClean
    BY DEF FreshInv, QueryOK
  <2>2. ASSUME NEW s \in u.result.srcs, NEW d \in docs, s.file = d.path
        PROVE  s.text = d.text
    <3>1. s.file \in File /\ canon_path(s.file) = d.path
      BY <2>2, CanonFile DEF FreshInv, CanonicalDocs, Canonical
    <3>2. ~d.dirty
      BY <2>1 DEF AllClean, Dirty
    <3> QED BY <3>1, <3>2 DEF FreshInv, Fresh, FreshSource, Tracked
  <2> QED BY <2>1, <2>2 DEF FreshInv, Fresh
<1>4. Spec => []TypeOK
  BY TypeCorrect
<1> QED BY <1>1, <1>2, <1>3, <1>4, PTL DEF Spec

-----------------------------------------------------------------------------
(* While only the editor works on the files.                                 *)

(* No one but the editor works on the files, and all it opens are saved.     *)
Quiet    == MaxDisk = 0
Existing == \A p \in EditPath : InitDisk[Target[p]] # Absent

QuietWorld == disk = InitDisk /\ rsp = InitRsp /\ wrote = 0

-----------------------------------------------------------------------------
(* What an analysis depends on                                               *)

(* A document's unit is the one its path keys, once a flush has keyed it,    *)
(* and its cached canonical path is true.                                    *)
RealDocs(ds)  == \A d \in ds : d.path \in EditPath /\ d.real = canon_path(d.path)
KnownDocs(ds) == \A d \in ds : d.key = unit_key(d.path) \/ (d.key = NoKey /\ d.dirty)

Result(ds, k, doc) ==
    [analyze(Prim(doc), Extra(ds, k, doc)) EXCEPT
        !.diags = @ \cup Notes(ds, k, doc, RspAbove(DirOf[doc.path]))]

Files(ds, k, doc) ==
    {canon_path(doc.path)} \cup
    {canon_path(s.file) : s \in {Prim(doc)} \cup Extra(ds, k, doc)}

(* The units so far leave no trace but last_good in a new entry.             *)
LEMMA EntryParts ==
    ASSUME NEW ds, NEW us, NEW k, NEW doc
    PROVE  /\ Entry(ds, us, k, doc).result = Result(ds, k, doc)
           /\ Entry(ds, us, k, doc).files = Files(ds, k, doc)
           /\ Entry(ds, us, k, doc).key = k
<1> DEFINE ran == analyze(Prim(doc), Extra(ds, k, doc))
           notes == Notes(ds, k, doc, RspAbove(DirOf[doc.path]))
<1>1. PICK b, D : /\ b \in BOOLEAN
                  /\ ran = [srcs |-> {Prim(doc)} \cup Extra(ds, k, doc), typed |-> b, diags |-> D]
  BY AnalyzeShape
<1>2. /\ Entry(ds, us, k, doc).result = [ran EXCEPT !.diags = @ \cup notes]
      /\ Entry(ds, us, k, doc).files = {canon_path(doc.path)} \cup {canon_path(s.file) : s \in ran.srcs}
      /\ Entry(ds, us, k, doc).key = k
  BY DEF Entry, EntryAfter
<1>3. ran.srcs = {Prim(doc)} \cup Extra(ds, k, doc)
  BY <1>1
<1> QED BY <1>2, <1>3 DEF Result, Files

(* The members of a unit are found by their canonical paths.                 *)
LEMMA FindReal ==
    ASSUME NEW ds, ds \subseteq Doc, RealDocs(ds), NEW q \in Path,
           NEW d \in store_find_by_path(ds, q)
    PROVE  d \in ds /\ canon_path(d.path) = canon_path(q)
<1>1. First({e \in ds : e.path = q}) \subseteq {e \in ds : e.path = q}
  BY FirstType
<1>2. First({e \in ds : e.real = canon_path(q)}) \subseteq {e \in ds : e.real = canon_path(q)}
  BY FirstType
<1> QED BY <1>1, <1>2 DEF store_find_by_path, RealDocs

LEMMA MemberFile ==
    ASSUME NEW open, NEW q \in Path, \A d \in open : canon_path(d.path) = canon_path(q)
    PROVE  /\ \A s \in add_member_source(open, q) : canon_path(s.file) = canon_path(q)
           /\ Readable(q) => add_member_source(open, q) # {}
<1>1. CASE open # {}
  <2>1. add_member_source(open, q) = {[via |-> q, file |-> d.path, text |-> d.text] : d \in open}
    BY <1>1 DEF add_member_source
  <2>2. PICK d \in open : TRUE
    BY <1>1
  <2>3. [via |-> q, file |-> d.path, text |-> d.text] \in add_member_source(open, q)
    BY <2>1
  <2> QED BY <2>1, <2>3
<1>2. CASE open = {} /\ Readable(q)
  <2>1. add_member_source(open, q) = {[via |-> q, file |-> q, text |-> disk[Target[q]]]}
    BY <1>2 DEF add_member_source
  <2> QED BY <2>1
<1>3. CASE open = {} /\ ~Readable(q)
  BY <1>3 DEF add_member_source
<1> QED BY <1>1, <1>2, <1>3

(* Documents that agree but for those of one file c.                         *)
LEMMA FindElsewhere ==
    ASSUME NEW ds, NEW es, RealDocs(ds), RealDocs(es), NEW c,
           {d \in ds : d.real # c} = {d \in es : d.real # c},
           NEW q \in Path, canon_path(q) # c
    PROVE  store_find_by_path(ds, q) = store_find_by_path(es, q)
<1>1. {d \in ds : d.path = q} = {d \in es : d.path = q}
  BY DEF RealDocs
<1>2. {d \in ds : d.real = canon_path(q)} = {d \in es : d.real = canon_path(q)}
  OBVIOUS
<1> QED BY <1>1, <1>2 DEF store_find_by_path

(* An analysis that did not meet the file c does not see its documents.      *)
LEMMA AnalysisElsewhere ==
    ASSUME Workspace, NEW ds, ds \subseteq Doc, NEW es, RealDocs(ds), RealDocs(es), NEW c,
           \A q \in Path : canon_path(q) = c => Readable(q),
           {d \in ds : d.real # c} = {d \in es : d.real # c},
           NEW k, Bearers(ds, k) = Bearers(es, k),
           NEW doc \in ds, c \notin Files(ds, k, doc)
    PROVE  Result(ds, k, doc) = Result(es, k, doc) /\ Files(ds, k, doc) = Files(es, k, doc)
<1> DEFINE above == RspAbove(DirOf[doc.path])
<1>0. DirOf[doc.path] \in Dir /\ above \subseteq Dir /\ doc.path \in Path
  BY RspAboveType, PathAssumption DEF Doc
<1>1. canon_path(doc.path) # c /\ \A s \in Extra(ds, k, doc) : canon_path(s.file) # c
  BY DEF Files
<1>2. CASE k[1] = "U" \/ RspBroken(k, above) \/ above = {}
  <2>1. Extra(ds, k, doc) = gather_heuristic_sources(ds, doc)
        /\ Extra(es, k, doc) = gather_heuristic_sources(es, doc)
    BY <1>2 DEF Extra, ExtraSources
  <2>2. SiblingSources(ds, doc) \subseteq Extra(ds, k, doc)
    BY <2>1 DEF gather_heuristic_sources
  <2>3. ASSUME NEW q \in collect_sibling_fc(doc.path)
        PROVE  canon_path(q) # c
    <3>1. q \in Path
      BY <2>3 DEF collect_sibling_fc
    <3>2. CASE store_find_by_path(ds, q) = {doc}
      BY <1>1, <3>1, <3>2, FindReal
    <3>3. CASE store_find_by_path(ds, q) # {doc}
      <4>1. add_member_source(store_find_by_path(ds, q), q) \subseteq Extra(ds, k, doc)
        BY <2>2, <2>3, <3>1, <3>3 DEF SiblingSources
      <4> QED BY <1>1, <3>1, <4>1, FindReal, MemberFile
    <3> QED BY <3>2, <3>3
  <2>4. \A q \in collect_sibling_fc(doc.path) :
           store_find_by_path(ds, q) = store_find_by_path(es, q)
    BY <2>3, FindElsewhere DEF collect_sibling_fc
  <2>5. SiblingSources(ds, doc) = SiblingSources(es, doc)
    BY <2>4 DEF SiblingSources
  <2>6. gather_heuristic_sources(ds, doc) = gather_heuristic_sources(es, doc)
    BY <2>5 DEF gather_heuristic_sources
  <2> QED BY <2>1, <2>6 DEF Result, Files, Notes
<1>3. CASE ~(k[1] = "U" \/ RspBroken(k, above) \/ above = {})
  <2>1. Extra(ds, k, doc) = UNION {gather_rsp_sources(ds, doc, r) : r \in above}
        /\ Extra(es, k, doc) = UNION {gather_rsp_sources(es, doc, r) : r \in above}
    BY <1>3 DEF Extra, ExtraSources
  <2>2. ASSUME NEW r \in above
        PROVE  gather_rsp_sources(ds, doc, r) = gather_rsp_sources(es, doc, r)
    <3>1. rsp[r] \subseteq Path
      BY <1>0, <1>3, <2>2, AbovePresent DEF RspBroken, Workspace, RspContent
    <3>2. ASSUME NEW q \in rsp[r], canon_path(q) # canon_path(doc.path)
          PROVE  store_find_by_path(ds, canon_path(q)) = store_find_by_path(es, canon_path(q))
      <4>1. q \in Path /\ canon_path(q) \in Path /\ canon_path(canon_path(q)) = canon_path(q)
        BY <3>1, CanonType, CanonTwice
      <4> DEFINE srcs == add_member_source(store_find_by_path(ds, canon_path(q)) \ {doc}, q)
      <4>2. srcs \subseteq Extra(ds, k, doc)
        <5>1. srcs \subseteq gather_rsp_sources(ds, doc, r)
          BY <3>2 DEF gather_rsp_sources
        <5> QED BY <2>1, <2>2, <5>1
      <4>3. canon_path(q) # c
        BY <1>1, <4>1, <4>2, FindReal, MemberFile
      <4> QED BY <4>1, <4>3, FindElsewhere
    <3> QED BY <3>2 DEF gather_rsp_sources
  <2>3. Extra(ds, k, doc) = Extra(es, k, doc)
    BY <2>1, <2>2
  <2> QED BY <2>3 DEF Result, Files, Notes
<1> QED BY <1>2, <1>3

-----------------------------------------------------------------------------
(* Cleaning the documents changes no analysis                                *)

Clean(d) == [d EXCEPT !.dirty = FALSE]

LEMMA CleanDoc ==
    ASSUME NEW d \in Doc
    PROVE  /\ Clean(d) \in Doc /\ Clean(d).pos = d.pos /\ Clean(d).path = d.path
           /\ Clean(d).real = d.real /\ Clean(d).text = d.text /\ Clean(d).key = d.key
BY DEF Clean, Doc

LEMMA CleanOne ==
    ASSUME NEW ds, NEW n, StoreOK(ds, n), NEW d \in ds, NEW e \in ds, Clean(d) = Clean(e)
    PROVE  d = e
<1>1. d \in Doc /\ e \in Doc
  BY DEF StoreOK
<1>2. d.pos = e.pos
  BY <1>1, CleanDoc
<1> QED BY <1>2 DEF StoreOK

LEMMA FirstLeast ==
    ASSUME NEW D, D \subseteq Doc, D # {}
    PROVE  \E d \in D : First(D) = {d} /\ \A e \in D : d.pos <= e.pos
<1>1. /\ {d.pos : d \in D} \subseteq Nat
      /\ {d.pos : d \in D} # {}
  BY DEF Doc
<1>2. PICK x \in {d.pos : d \in D} : \A y \in {d.pos : d \in D} : x <= y
  BY <1>1, NatMin
<1>3. \E d \in D : \A e \in D : d.pos <= e.pos
  BY <1>2
<1> QED BY <1>3 DEF First

LEMMA FirstCleaned ==
    ASSUME NEW ds, NEW n, StoreOK(ds, n), NEW D, D \subseteq ds
    PROVE  First(Cleaned(D)) = Cleaned(First(D))
<1>0. D \subseteq Doc /\ Cleaned(D) = {Clean(d) : d \in D}
  BY DEF StoreOK, Cleaned, Clean
<1>1. CASE D = {}
  BY <1>1 DEF First, Cleaned
<1>2. CASE D # {}
  <2>1. PICK d \in D : First(D) = {d} /\ \A e \in D : d.pos <= e.pos
    BY <1>0, <1>2, FirstLeast
  <2>2. Cleaned(D) \subseteq Doc /\ Cleaned(D) # {}
    BY <1>0, <1>2, CleanDoc
  <2>3. PICK c \in Cleaned(D) : First(Cleaned(D)) = {c} /\ \A e \in Cleaned(D) : c.pos <= e.pos
    BY <2>2, FirstLeast
  <2>4. PICK e \in D : c = Clean(e)
    BY <1>0, <2>3
  <2>5. d.pos <= e.pos /\ c.pos <= Clean(d).pos
    BY <1>0, <2>1, <2>3, <2>4
  <2>6. d.pos \in Nat /\ e.pos \in Nat /\ c.pos = e.pos /\ Clean(d).pos = d.pos
    <3>1. d \in Doc /\ e \in Doc
      BY <1>0
    <3> QED BY <2>4, <3>1, CleanDoc DEF Doc
  <2>7. d.pos = e.pos
    BY <2>5, <2>6
  <2>8. d = e
    BY <2>7 DEF StoreOK
  <2> QED BY <2>1, <2>3, <2>4, <2>8 DEF Cleaned, Clean
<1> QED BY <1>1, <1>2

LEMMA FindCleaned ==
    ASSUME NEW ds, NEW n, StoreOK(ds, n), NEW q
    PROVE  store_find_by_path(Cleaned(ds), q) = Cleaned(store_find_by_path(ds, q))
<1>0. Cleaned(ds) = {Clean(d) : d \in ds} /\ ds \subseteq Doc
  BY DEF Cleaned, Clean, StoreOK
<1> DEFINE exact(D) == {d \in D : d.path = q}
           same(D)  == {d \in D : d.real = canon_path(q)}
<1>1. exact(Cleaned(ds)) = {Clean(d) : d \in exact(ds)}
  BY <1>0, CleanDoc
<1>2. same(Cleaned(ds)) = {Clean(d) : d \in same(ds)}
  BY <1>0, CleanDoc
<1>3. exact(Cleaned(ds)) = Cleaned(exact(ds)) /\ same(Cleaned(ds)) = Cleaned(same(ds))
  BY <1>1, <1>2 DEF Cleaned, Clean
<1>4. exact(Cleaned(ds)) # {} <=> exact(ds) # {}
  BY <1>1
<1>5. First(exact(Cleaned(ds))) = Cleaned(First(exact(ds))) /\ First(same(Cleaned(ds))) = Cleaned(First(same(ds)))
  BY <1>3, FirstCleaned
<1> QED BY <1>4, <1>5 DEF store_find_by_path

LEMMA MemberCleaned ==
    ASSUME NEW D, D \subseteq Doc, NEW q
    PROVE  add_member_source(Cleaned(D), q) = add_member_source(D, q)
<1>1. Cleaned(D) = {Clean(d) : d \in D}
  BY DEF Cleaned, Clean
<1>2. {[via |-> q, file |-> d.path, text |-> d.text] : d \in Cleaned(D)}
         = {[via |-> q, file |-> d.path, text |-> d.text] : d \in D}
  BY <1>1, CleanDoc
<1>3. Cleaned(D) = {} <=> D = {}
  BY <1>1
<1> QED BY <1>2, <1>3 DEF add_member_source

LEMMA CleanedAnalysis ==
    ASSUME NEW ds, NEW n, StoreOK(ds, n), NEW k, NEW doc \in ds
    PROVE  /\ Result(Cleaned(ds), k, Clean(doc)) = Result(ds, k, doc)
           /\ Files(Cleaned(ds), k, Clean(doc)) = Files(ds, k, doc)
<1> DEFINE cs == Cleaned(ds)
           c  == Clean(doc)
<1>0. ds \subseteq Doc /\ doc \in Doc /\ cs = {Clean(d) : d \in ds}
  BY DEF StoreOK, Cleaned, Clean
<1>1. c.path = doc.path /\ c.text = doc.text
  BY <1>0, CleanDoc
<1>2. ASSUME NEW q
      PROVE  /\ store_find_by_path(cs, q) = Cleaned(store_find_by_path(ds, q))
             /\ store_find_by_path(ds, q) \subseteq ds
  BY <1>0, FindCleaned, FindType
<1>3. ASSUME NEW D, D \subseteq ds
      PROVE  Cleaned(D) \ {c} = Cleaned(D \ {doc}) /\ (Cleaned(D) = {c} <=> D = {doc})
  <2>1. Cleaned(D) = {Clean(d) : d \in D} /\ Cleaned(D \ {doc}) = {Clean(d) : d \in D \ {doc}}
    BY DEF Cleaned, Clean
  <2>2. \A d \in D : Clean(d) = c <=> d = doc
    BY <1>3, CleanOne
  <2>3. doc \in D => Clean(doc) \in Cleaned(D) /\ Clean(doc) = c
    BY <2>1
  <2> HIDE DEF c
  <2>4. Cleaned(D) \ {c} = Cleaned(D \ {doc})
    BY <2>1, <2>2
  <2>5. ASSUME Cleaned(D) = {c} PROVE D = {doc}
    <3>1. \A d \in D : d = doc
      BY <2>1, <2>2, <2>5
    <3>2. D # {}
      BY <2>1, <2>5
    <3> QED BY <3>1, <3>2
  <2>6. D = {doc} => Cleaned(D) = {c}
    BY <2>1, <2>3
  <2> QED BY <2>4, <2>5, <2>6
<1>4. SiblingSources(cs, c) = SiblingSources(ds, doc)
  <2>1. ASSUME NEW q
        PROVE  /\ add_member_source(store_find_by_path(cs, q), q) = add_member_source(store_find_by_path(ds, q), q)
               /\ store_find_by_path(cs, q) = {c} <=> store_find_by_path(ds, q) = {doc}
    <3>1. store_find_by_path(ds, q) \subseteq Doc
      BY <1>0, <1>2
    <3>2. add_member_source(Cleaned(store_find_by_path(ds, q)), q) = add_member_source(store_find_by_path(ds, q), q)
      BY <3>1, MemberCleaned
    <3> QED BY <1>2, <1>3, <3>2
  <2> HIDE DEF c, cs
  <2> QED BY <1>1, <2>1 DEF SiblingSources
<1>5. gather_heuristic_sources(cs, c) = gather_heuristic_sources(ds, doc)
  BY <1>1, <1>4 DEF gather_heuristic_sources
<1>6. ASSUME NEW r PROVE gather_rsp_sources(cs, c, r) = gather_rsp_sources(ds, doc, r)
  <2>1. ASSUME NEW q
        PROVE  add_member_source(store_find_by_path(cs, canon_path(q)) \ {c}, q)
                  = add_member_source(store_find_by_path(ds, canon_path(q)) \ {doc}, q)
    <3> DEFINE D == store_find_by_path(ds, canon_path(q))
    <3>1. D \subseteq ds /\ store_find_by_path(cs, canon_path(q)) = Cleaned(D)
      BY <1>2
    <3>2. Cleaned(D) \ {c} = Cleaned(D \ {doc}) /\ D \ {doc} \subseteq Doc
      BY <1>0, <1>3, <3>1
    <3> HIDE DEF D
    <3>3. add_member_source(Cleaned(D \ {doc}), q) = add_member_source(D \ {doc}, q)
      BY <3>2, MemberCleaned
    <3> QED BY <3>1, <3>2, <3>3 DEF D
  <2> HIDE DEF c, cs
  <2> QED BY <1>1, <2>1 DEF gather_rsp_sources
<1>7. Prim(c) = Prim(doc) /\ Extra(cs, k, c) = Extra(ds, k, doc)
  <2> HIDE DEF c, cs
  <2> QED BY <1>1, <1>5, <1>6 DEF Prim, Extra, ExtraSources
<1>8. Notes(cs, k, c, RspAbove(DirOf[c.path])) = Notes(ds, k, doc, RspAbove(DirOf[doc.path]))
  <2>1. Bearers(cs, k) = {Clean(d) : d \in Bearers(ds, k)}
    BY <1>0, CleanDoc DEF Bearers
  <2>2. \A d \in Bearers(ds, k) : Clean(d).path = d.path
    BY <1>0, CleanDoc DEF Bearers
  <2> HIDE DEF c, cs
  <2> QED BY <1>1, <2>1, <2>2 DEF Notes
<1> HIDE DEF c, cs
<1> QED BY <1>1, <1>7, <1>8 DEF Result, Files, c, cs

LEMMA CleanedPrimary ==
    ASSUME NEW ds, NEW n, StoreOK(ds, n), NEW k
    PROVE  primary_doc_for(Cleaned(ds), k) = {Clean(d) : d \in primary_doc_for(ds, k)}
<1>1. Cleaned(ds) = {Clean(d) : d \in ds} /\ ds \subseteq Doc
  BY DEF Cleaned, Clean, StoreOK
<1>2. Bearers(Cleaned(ds), k) = {Clean(d) : d \in Bearers(ds, k)}
  BY <1>1, CleanDoc DEF Bearers
<1>3. Bearers(Cleaned(ds), k) = Cleaned(Bearers(ds, k)) /\ Bearers(ds, k) \subseteq ds
  BY <1>2 DEF Cleaned, Clean, Bearers
<1>4. First(Bearers(Cleaned(ds), k)) = Cleaned(First(Bearers(ds, k)))
  BY <1>3, FirstCleaned
<1> QED BY <1>4 DEF primary_doc_for, Cleaned, Clean

-----------------------------------------------------------------------------
(* Units between flushes                                                     *)

(* StaleKeys, of any units. *)
StaleIn(us, es) ==
    {d.key : d \in Dirty(es)} \cup
    {u.key : u \in {u \in us : \E d \in Dirty(es) : d.real \in u.files}}

(* A unit the next flush leaves alone is as a new analysis would make it.    *)
Settled(us, ds) ==
    \A es : es = Refreshed(ds) =>
        \A u \in us : u.key \notin StaleIn(us, es) =>
            \E doc \in primary_doc_for(es, u.key) :
                u.result = Result(es, u.key, doc) /\ u.files = Files(es, u.key, doc)

LEMMA ResultStill ==
    ASSUME UNCHANGED World, NEW ds, NEW k, NEW doc
    PROVE  Result(ds, k, doc)' = Result(ds, k, doc) /\ Files(ds, k, doc)' = Files(ds, k, doc)
BY DEF World, Bearers, Result,
       Files, Prim, Extra, Notes, RspBroken, ExtraSources, gather_rsp_sources, gather_heuristic_sources,
       SiblingSources, collect_sibling_fc, store_find_by_path, add_member_source, RspAbove, Readable, canon_path

LEMMA DocsStill ==
    ASSUME UNCHANGED World
    PROVE  /\ RealDocs(docs)' <=> RealDocs(docs')
           /\ KnownDocs(docs)' <=> KnownDocs(docs')
           /\ Refreshed(docs)' = Refreshed(docs')
<1>1. RealDocs(docs)' <=> RealDocs(docs')
  BY DEF World, canon_path, RealDocs
<1>2. KnownDocs(docs)' <=> KnownDocs(docs')
  BY DEF World, canon_path, unit_key, rsp_claims_doc, rsp_input_paths, RspAbove, KnownDocs
<1>3. Refreshed(docs)' = Refreshed(docs')
  BY DEF World, canon_path, unit_key, rsp_claims_doc, rsp_input_paths, RspAbove, Refreshed
<1> QED BY <1>1, <1>2, <1>3

LEMMA SettledStill ==
    ASSUME UNCHANGED World
    PROVE  Settled(units, docs)' <=> Settled(units', docs')
<1>1. Settled(units, docs)' <=>
          \A es : es = Refreshed(docs)' =>
             \A u \in units' : u.key \notin StaleIn(units, es)' =>
                \E doc \in primary_doc_for(es, u.key) :
                   u.result = Result(es, u.key, doc)' /\ u.files = Files(es, u.key, doc)'
  BY DEF Settled, primary_doc_for, Bearers
<1>2. \A es : StaleIn(units, es)' = StaleIn(units', es)
  BY DEF StaleIn, Dirty
<1> QED BY <1>1, <1>2, DocsStill, ResultStill DEF Settled

(* Refreshing known documents only gives them their keys.                    *)
LEMMA RefreshedKnown ==
    ASSUME NEW ds, ds \subseteq Doc, RealDocs(ds), KnownDocs(ds)
    PROVE  LET es == Refreshed(ds)
           IN  /\ RealDocs(es) /\ \A e \in es : e.key = unit_key(e.path)
               /\ \A e \in es : \E d \in ds : e.path = d.path /\ e.text = d.text /\ (e.dirty <=> d.dirty)
               /\ \A d \in ds : \E e \in es : e.path = d.path /\ e.text = d.text /\ (e.dirty <=> d.dirty)
<1>1. \A d \in ds : d.dirty \/ unit_key(d.path) # d.key <=> d.dirty
  BY DEF KnownDocs
<1> QED BY <1>1, RefreshedDoc DEF RealDocs

LEMMA RefreshedClean ==
    ASSUME NEW ds, ds \subseteq Doc, RealDocs(ds), KnownDocs(ds), Dirty(ds) = {}
    PROVE  Refreshed(ds) = ds
<1> DEFINE g(d) == [d EXCEPT !.dirty = @ \/ unit_key(d.path) # d.key, !.key = unit_key(d.path),
                             !.real = canon_path(d.path)]
<1>1. ASSUME NEW d \in ds PROVE g(d) = d
  <2>1. d \in Doc /\ d.dirty = FALSE /\ d.key = unit_key(d.path) /\ d.real = canon_path(d.path)
    BY DEF Dirty, KnownDocs, RealDocs, Doc
  <2>2. g(d) = [d EXCEPT !.dirty = FALSE, !.key = d.key, !.real = d.real]
    BY <2>1
  <2> HIDE DEF g
  <2> QED BY <2>1, <2>2 DEF Doc
<1>2. Refreshed(ds) = {g(d) : d \in ds}
  BY DEF Refreshed
<1> HIDE DEF g
<1> QED BY <1>1, <1>2

LEMMA CanonReadable ==
    ASSUME NEW p \in Path, Readable(p), NEW q \in Path, canon_path(q) = canon_path(p)
    PROVE  Readable(q)
BY PathAssumption DEF Readable, canon_path

(* A dirty document changes no unit but those its key or its file stales.    *)
LEMMA SettledElsewhere ==
    ASSUME Workspace, NEW ds, NEW n, StoreOK(ds, n), NEW fs, NEW m, StoreOK(fs, m),
           RealDocs(ds), KnownDocs(ds), RealDocs(fs), KnownDocs(fs),
           NEW p \in Path, Readable(p), {d \in ds : d.path # p} = {d \in fs : d.path # p},
           NEW f \in fs, f.path = p, f.dirty,
           NEW us, Settled(us, ds)
    PROVE  Settled(us, fs)
<1> DEFINE es == Refreshed(ds)
           gs == Refreshed(fs)
           c  == canon_path(p)
<1>0. ds \subseteq Doc /\ fs \subseteq Doc /\ es \subseteq Doc /\ gs \subseteq Doc
  BY RefreshedStore DEF StoreOK
<1>1. RealDocs(es) /\ RealDocs(gs) /\ \A e \in es \cup gs : e.key = unit_key(e.path)
  BY <1>0, RefreshedKnown
<1>2. PICK g \in gs : g.path = p /\ g.dirty
  BY <1>0, RefreshedKnown
<1>3. {e \in es : e.path # p} = {e \in gs : e.path # p}
  <2>1. ASSUME NEW D, D \subseteq Doc
        PROVE  {e \in Refreshed(D) : e.path # p} = Refreshed({d \in D : d.path # p})
    <3> DEFINE h(d) == [d EXCEPT !.dirty = @ \/ unit_key(d.path) # d.key, !.key = unit_key(d.path),
                                 !.real = canon_path(d.path)]
    <3>1. \A S : Refreshed(S) = {h(d) : d \in S}
      BY DEF Refreshed
    <3>2. \A d \in D : h(d).path = d.path
      BY <2>1 DEF Doc
    <3> HIDE DEF h
    <3> QED BY <3>1, <3>2
  <2> QED BY <1>0, <2>1
<1> HIDE DEF es, gs, c
<1>4. ASSUME NEW u \in us, u.key \notin StaleIn(us, gs)
      PROVE  \E doc \in primary_doc_for(gs, u.key) :
                u.result = Result(gs, u.key, doc) /\ u.files = Files(gs, u.key, doc)
  <2>1. g \in Dirty(gs) /\ g.key = unit_key(p) /\ g.real = c
    BY <1>1, <1>2 DEF Dirty, RealDocs, c
  <2>2. u.key # unit_key(p) /\ c \notin u.files
    BY <1>4, <2>1 DEF StaleIn
  <2>3. ASSUME NEW e \in Dirty(es) PROVE e.key # u.key /\ e.real \notin u.files
    <3>1. CASE e.path = p
      BY <1>1, <2>2, <3>1 DEF Dirty, RealDocs, c
    <3>2. CASE e.path # p
      <4>1. e \in Dirty(gs)
        BY <1>3, <3>2 DEF Dirty
      <4> QED BY <1>4, <4>1 DEF StaleIn
    <3> QED BY <3>1, <3>2
  <2>4. u.key \notin StaleIn(us, es)
    <3> SUFFICES ASSUME NEW v \in us, NEW e \in Dirty(es), e.real \in v.files, v.key = u.key
                 PROVE  FALSE
      BY <2>3 DEF StaleIn
    <3>1. CASE e.path = p
      <4>1. g.real \in v.files
        BY <1>1, <2>1, <3>1 DEF Dirty, RealDocs, c
      <4> QED BY <1>4, <2>1, <4>1 DEF StaleIn
    <3>2. CASE e.path # p
      <4>1. e \in Dirty(gs)
        BY <1>3, <3>2 DEF Dirty
      <4> QED BY <1>4, <4>1 DEF StaleIn
    <3> QED BY <3>1, <3>2
  <2>5. PICK doc \in primary_doc_for(es, u.key) :
             u.result = Result(es, u.key, doc) /\ u.files = Files(es, u.key, doc)
    BY <2>4 DEF Settled, es
  <2>6. Bearers(es, u.key) = Bearers(gs, u.key)
    BY <1>1, <1>3, <2>2 DEF Bearers
  <2>7. {e \in es : e.real # c} = {e \in gs : e.real # c}
    BY <1>1, <1>3 DEF RealDocs, c
  <2>8. \A q \in Path : canon_path(q) = c => Readable(q)
    BY CanonReadable DEF c
  <2>9. doc \in es
    BY <1>0, <2>5, PrimaryDoc
  <2>10. Result(es, u.key, doc) = Result(gs, u.key, doc) /\ Files(es, u.key, doc) = Files(gs, u.key, doc)
    BY <1>0, <1>1, <2>2, <2>5, <2>6, <2>7, <2>8, <2>9, AnalysisElsewhere
  <2> QED BY <2>5, <2>6, <2>10 DEF primary_doc_for
<1> QED BY <1>4 DEF Settled, gs

(* A flush settles every unit.                                               *)
LEMMA FlushSettles ==
    ASSUME NEW ds, NEW n, StoreOK(ds, n), RealDocs(ds), KnownDocs(ds),
           Settled(units, ds) \/ Dirty(ds) = ds
    PROVE  LET es == Refreshed(ds)
           IN  Settled(Reanalyzed(es, StaleKeys(es)), Cleaned(es))
<1> DEFINE es == Refreshed(ds)
           us == Reanalyzed(es, StaleKeys(es))
           cs == Cleaned(es)
<1>1. ds \subseteq Doc /\ StoreOK(es, n) /\ es \subseteq Doc /\ cs \subseteq Doc
  <2>1. StoreOK(es, n)
    BY RefreshedStore
  <2> QED BY <2>1, CleanDoc DEF StoreOK, Cleaned, Clean
<1>2. RealDocs(es) /\ \A e \in es : e.key = unit_key(e.path)
  BY <1>1, RefreshedKnown
<1>3. Refreshed(cs) = cs
  <2>1. RealDocs(cs) /\ KnownDocs(cs) /\ Dirty(cs) = {}
    BY <1>1, <1>2, CleanedDoc DEF RealDocs, KnownDocs, Dirty
  <2> QED BY <1>1, <2>1, RefreshedClean
<1>4. StaleKeys(es) = StaleIn(units, es)
  BY DEF StaleKeys, StaleIn
<1> HIDE DEF es, us, cs
<1>5. ASSUME NEW u \in us
      PROVE  \E doc \in primary_doc_for(es, u.key) :
                u.result = Result(es, u.key, doc) /\ u.files = Files(es, u.key, doc)
  <2>1. CASE u \in units /\ Bearers(es, u.key) # {} /\ u.key \notin StaleKeys(es)
    <3>1. CASE Settled(units, ds)
      BY <1>4, <2>1, <3>1 DEF Settled, es
    <3>2. CASE Dirty(ds) = ds
      <4>1. PICK e \in es : e.key = u.key
        BY <2>1 DEF Bearers
      <4>2. e.dirty
        BY <1>1, <3>2, RefreshedKnown DEF Dirty, es
      <4> QED BY <2>1, <4>1, <4>2 DEF StaleKeys, Dirty
    <3> QED BY <3>1, <3>2
  <2>2. ASSUME NEW k, u \in analyze_unit(es, units, k)
        PROVE  \E doc \in primary_doc_for(es, u.key) :
                  u.result = Result(es, u.key, doc) /\ u.files = Files(es, u.key, doc)
    <3>1. PICK doc \in primary_doc_for(es, k) : u = Entry(es, units, k, doc)
      BY <2>2, AnalyzeUnit
    <3> QED BY <3>1, EntryParts
  <2> QED BY <2>1, <2>2 DEF us, Reanalyzed
<1>6. ASSUME NEW u \in us
      PROVE  \E doc \in primary_doc_for(cs, u.key) :
                u.result = Result(cs, u.key, doc) /\ u.files = Files(cs, u.key, doc)
  <2>1. PICK doc \in primary_doc_for(es, u.key) :
             u.result = Result(es, u.key, doc) /\ u.files = Files(es, u.key, doc)
    BY <1>5
  <2>2. doc \in es
    BY <1>1, <2>1, PrimaryDoc
  <2>3. Clean(doc) \in primary_doc_for(cs, u.key)
    BY <1>1, <2>1, CleanedPrimary DEF cs
  <2> QED BY <1>1, <2>1, <2>2, <2>3, CleanedAnalysis DEF cs
<1> QED BY <1>3, <1>6 DEF Settled, us, cs, es

-----------------------------------------------------------------------------
(* The steps of the system as the units see them                             *)

QuietBase == QuietWorld /\ RealDocs(docs) /\ KnownDocs(docs)

Kept == UNCHANGED <<docs, units, editor>>

(* A document of one path is new or edited, and dirty. *)
EditedAt(p) ==
    /\ p \in EditPath /\ UNCHANGED <<units, editor>>
    /\ {d \in docs : d.path # p} = {d \in docs' : d.path # p}
    /\ \E d \in docs' : d.path = p /\ d.dirty
    /\ RealDocs(docs') /\ KnownDocs(docs')

(* The documents ds are flushed: those that are open, or all that stay open. *)
FlushedFrom(ds, n) ==
    /\ StoreOK(ds, n) /\ RealDocs(ds) /\ KnownDocs(ds)
    /\ ds = docs \/ Dirty(ds) = ds
    /\ docs' = Cleaned(Refreshed(ds))
    /\ units' = Reanalyzed(Refreshed(ds), StaleKeys(Refreshed(ds)))
    /\ publish_project_diagnostics(Refreshed(ds), units')

Emptied == docs' = {} /\ units' = {}

QuietStep ==
    Kept \/ Emptied \/ (\E p : EditedAt(p)) \/ (\E ds, n : FlushedFrom(ds, n))

LEMMA FlushSteps ==
    ASSUME NEW ds, NEW n, StoreOK(ds, n), RealDocs(ds), KnownDocs(ds), ds = docs \/ Dirty(ds) = ds,
           flush_dirty(ds), ds = {} => ds = docs
    PROVE  QuietStep
<1>1. CASE Dirty(ds) = {}
  <2>1. ds = docs /\ docs' = ds /\ UNCHANGED <<units, editor>>
    BY <1>1 DEF flush_dirty
  <2> QED BY <2>1 DEF QuietStep, Kept
<1>2. CASE Dirty(ds) # {}
  <2>1. /\ docs' = Cleaned(Refreshed(ds))
        /\ units' = Reanalyzed(Refreshed(ds), StaleKeys(Refreshed(ds)))
        /\ publish_project_diagnostics(Refreshed(ds), units')
    BY <1>2 DEF flush_dirty
  <2> QED BY <2>1 DEF QuietStep, FlushedFrom
<1> QED BY <1>1, <1>2

LEMMA EditSteps ==
    ASSUME TypeOK, QuietBase, NEW p \in EditPath, NEW t,
           handle_did_open(p, t) \/ handle_did_change(p, t)
    PROVE  Kept \/ EditedAt(p)
<1>0. docs \subseteq Doc /\ UNCHANGED <<units, editor>>
  BY DEF TypeOK, StoreOK, handle_did_open, handle_did_change
<1> DEFINE new == [pos |-> count, path |-> p, real |-> canon_path(p), text |-> t, dirty |-> TRUE, key |-> NoKey]
           edited(d) == [d EXCEPT !.text = t, !.dirty = TRUE]
<1>1. docs' = Edited(p, t) \/ docs' = docs \cup {new}
  BY DEF handle_did_open, handle_did_change
<1>2. \A d \in docs : /\ edited(d).path = d.path /\ edited(d).dirty
                     /\ edited(d).real = d.real /\ edited(d).key = d.key
  BY <1>0 DEF Doc
<1>3. CASE docs' = docs \cup {new}
  <2>1. new.path = p /\ new.dirty /\ new.real = canon_path(p) /\ new.key = NoKey
    OBVIOUS
  <2> HIDE DEF new
  <2>2. RealDocs(docs') /\ KnownDocs(docs')
    BY <1>3, <2>1 DEF QuietBase, RealDocs, KnownDocs
  <2> QED BY <1>0, <1>3, <2>1, <2>2 DEF EditedAt
<1>4. CASE docs' = Edited(p, t)
  <2>1. docs' = {IF d.path = p THEN edited(d) ELSE d : d \in docs}
    BY <1>4 DEF Edited
  <2> HIDE DEF edited, new
  <2>2. CASE \E d \in docs : d.path = p
    <3>1. PICK d \in docs : d.path = p
      BY <2>2
    <3>2. edited(d) \in docs'
      BY <2>1, <3>1
    <3>3. {e \in docs : e.path # p} = {e \in docs' : e.path # p}
      BY <1>2, <2>1
    <3>4. RealDocs(docs') /\ KnownDocs(docs')
      BY <1>2, <2>1 DEF QuietBase, RealDocs, KnownDocs
    <3> QED BY <1>0, <1>2, <3>1, <3>2, <3>3, <3>4 DEF EditedAt
  <2>3. CASE \A d \in docs : d.path # p
    <3>1. docs' = docs
      BY <2>1, <2>3
    <3> QED BY <1>0, <3>1 DEF Kept
  <2> QED BY <2>2, <2>3
<1> QED BY <1>1, <1>3, <1>4

LEMMA CloseSteps ==
    ASSUME TypeOK, QuietBase, NEW p, handle_did_close(p)
    PROVE  QuietStep
<1>1. CASE UNCHANGED <<docs, count, units, editor>>
  BY <1>1 DEF QuietStep, Kept
<1>2. ASSUME NEW doc \in Opened(p), count' = count - 1, count' > 0,
             flush_dirty(AllDirty(SwapRemove(docs, count, doc)))
      PROVE  QuietStep
  <2> DEFINE left == SwapRemove(docs, count, doc)
             ds   == AllDirty(left)
             put(d) == [d EXCEPT !.pos = IF @ = count - 1 THEN doc.pos ELSE @]
             mark(d) == [d EXCEPT !.dirty = TRUE]
  <2>1. StoreOK(left, count - 1)
    BY RemovedStore DEF TypeOK, Opened
  <2>2. StoreOK(ds, count - 1)
    BY <2>1, FlagStore DEF AllDirty
  <2>3. ASSUME NEW e \in ds
        PROVE  \E d \in docs : e.path = d.path /\ e.real = d.real /\ e.key = d.key /\ e.dirty
    <3>1. PICK l \in left : e = mark(l)
      BY DEF AllDirty
    <3>2. PICK d \in docs : l = put(d)
      BY DEF SwapRemove
    <3>3. l \in Doc /\ d \in Doc
      BY <2>1 DEF StoreOK, TypeOK
    <3>4. l.path = d.path /\ l.real = d.real /\ l.key = d.key
      BY <3>2, <3>3 DEF Doc
    <3>5. e.path = l.path /\ e.real = l.real /\ e.key = l.key /\ e.dirty
      BY <3>1, <3>3 DEF Doc
    <3> QED BY <3>4, <3>5
  <2>4. RealDocs(ds) /\ KnownDocs(ds) /\ Dirty(ds) = ds
    BY <2>3 DEF QuietBase, RealDocs, KnownDocs, Dirty
  <2>5. ds # {}
    <3>1. count \in Nat /\ 0 \in 0 .. (count - 1) - 1
      BY <1>2 DEF TypeOK, StoreOK
    <3>2. {d.pos : d \in ds} = 0 .. (count - 1) - 1
      BY <2>2 DEF StoreOK
    <3> QED BY <3>1, <3>2
  <2> HIDE DEF ds
  <2> QED BY <1>2, <2>2, <2>4, <2>5, FlushSteps DEF ds
<1>3. CASE docs' = {} /\ units' = {}
  BY <1>3 DEF QuietStep, Emptied
<1> QED BY <1>1, <1>2, <1>3 DEF handle_did_close

LEMMA QuietSteps ==
    ASSUME Quiet, TypeOK, QuietBase, [Next]_vars
    PROVE  QuietStep /\ UNCHANGED World
<1>0. wrote = 0 /\ MaxDisk = 0
  BY DEF Quiet, QuietBase, QuietWorld
<1>1. CASE UNCHANGED <<docs, units, editor, World>>
  BY <1>1 DEF QuietStep, Kept
<1>2. ASSUME flush_dirty(docs) PROVE QuietStep
  BY <1>2, FlushSteps DEF TypeOK, QuietBase
<1>3. CASE Read
  <2>1. dispatch(Head(inbox)) /\ UNCHANGED World /\ Head(inbox) \in Msg
    BY <1>3 DEF Read, World, world, TypeOK
  <2>2. Head(inbox).op \in {"open", "change"} => Head(inbox).path \in EditPath
    BY <2>1 DEF Msg
  <2>3. ASSUME NEW p, handle_query(p) \/ handle_shutdown \/ handle_other_request
        PROVE  QuietStep
    BY <1>2, <2>3 DEF handle_query, handle_shutdown, handle_other_request
  <2>4. ASSUME handle_exit \/ Ignore PROVE QuietStep
    BY <2>4 DEF handle_exit, Ignore, QuietStep, Kept
  <2> QED BY <2>1, <2>2, <2>3, <2>4, EditSteps, CloseSteps DEF dispatch, QuietStep
<1>4. CASE Poll
  BY <1>1, <1>2, <1>4 DEF Poll, World, world
<1>5. ~SaveFile /\ ~SaveRsp
  BY <1>0 DEF SaveFile, SaveRsp
<1> QED BY <1>1, <1>3, <1>4, <1>5
        DEF Next, Server, ReadMalformed, ReadEof, Send, CloseInput, vars, server, world, World

LEMMA EditPathSaved ==
    ASSUME Existing, QuietWorld, NEW p \in EditPath
    PROVE  p \in Path /\ Readable(p)
BY WorldAssumption, PathAssumption DEF Existing, QuietWorld, Readable, DocPath, File

LEMMA QuietBaseKept ==
    ASSUME Quiet, TypeOK, TypeOK', QuietBase, [Next]_vars
    PROVE  QuietBase'
<1>1. QuietStep /\ UNCHANGED World
  BY QuietSteps
<1>2. QuietWorld'
  BY <1>1 DEF QuietBase, QuietWorld, World
<1> SUFFICES RealDocs(docs') /\ KnownDocs(docs')
  BY <1>1, <1>2, DocsStill DEF QuietBase
<1>3. CASE Kept
  BY <1>3 DEF Kept, QuietBase
<1>4. CASE Emptied
  BY <1>4 DEF Emptied, RealDocs, KnownDocs
<1>5. ASSUME NEW ds, NEW n, FlushedFrom(ds, n) PROVE RealDocs(docs') /\ KnownDocs(docs')
  <2>1. ds \subseteq Doc /\ Refreshed(ds) \subseteq Doc
    BY <1>5, RefreshedStore DEF FlushedFrom, StoreOK
  <2>2. RealDocs(Refreshed(ds)) /\ \A e \in Refreshed(ds) : e.key = unit_key(e.path)
    BY <1>5, <2>1, RefreshedKnown DEF FlushedFrom
  <2> QED BY <1>5, <2>1, <2>2, CleanedDoc DEF FlushedFrom, RealDocs, KnownDocs
<1>6. ASSUME NEW p, EditedAt(p) PROVE RealDocs(docs') /\ KnownDocs(docs')
  BY <1>6 DEF EditedAt
<1> QED BY <1>1, <1>3, <1>4, <1>5, <1>6 DEF QuietStep

-----------------------------------------------------------------------------
(* No dependency is missed                                                   *)

SettledInv == QuietBase /\ Settled(units, docs)

LEMMA SettledKept ==
    ASSUME Quiet, Existing, TypeOK, TypeOK', SettledInv, [Next]_vars
    PROVE  SettledInv'
<1>1. QuietStep /\ UNCHANGED World /\ QuietBase' /\ QuietBase
  BY QuietSteps, QuietBaseKept DEF SettledInv
<1> SUFFICES Settled(units', docs')
  BY <1>1, SettledStill DEF SettledInv
<1>2. CASE Kept
  BY <1>2 DEF Kept, SettledInv
<1>3. CASE Emptied
  BY <1>3 DEF Emptied, Settled
<1>4. ASSUME NEW ds, NEW n, FlushedFrom(ds, n) PROVE Settled(units', docs')
  BY <1>4, FlushSettles DEF FlushedFrom, SettledInv
<1>5. ASSUME NEW p, EditedAt(p) PROVE Settled(units', docs')
  <2>1. p \in Path /\ Readable(p)
    BY <1>1, <1>5, EditPathSaved DEF EditedAt, QuietBase
  <2>2. StoreOK(docs, count) /\ StoreOK(docs', count') /\ Workspace
    BY DEF TypeOK, Workspace
  <2>3. PICK d \in docs' : d.path = p /\ d.dirty
    BY <1>5 DEF EditedAt
  <2>4. Settled(units, docs')
    BY <1>1, <1>5, <2>1, <2>2, <2>3, SettledElsewhere DEF EditedAt, QuietBase, SettledInv
  <2> QED BY <1>5, <2>4 DEF EditedAt
<1> QED BY <1>1, <1>2, <1>3, <1>4, <1>5 DEF QuietStep

(* While nothing changes on disk and every file opened is saved there, the    *)
(* rule for stale units (flush_dirty: the key of a dirty document, or its     *)
(* file among those last analyzed) misses no dependency.                     *)
THEOREM NoDependencyMissed ==
    ASSUME FrontEndTyped, Quiet, Existing
    PROVE  Spec => []UnitsCurrent
<1>1. Init => SettledInv
  BY DEF Init, LspInit, SettledInv, QuietBase, QuietWorld, RealDocs, KnownDocs, Settled
<1>2. TypeOK /\ TypeOK' /\ SettledInv /\ [Next]_vars => SettledInv'
  BY SettledKept
<1>3. TypeOK /\ SettledInv => UnitsCurrent
  <2> SUFFICES ASSUME TypeOK, SettledInv, AllClean, NEW u \in units,
                      NEW v \in analyze_unit(docs, units, u.key)
               PROVE  u.result = v.result
    BY DEF UnitsCurrent
  <2>1. docs \subseteq Doc /\ Refreshed(docs) = docs
    BY RefreshedClean DEF TypeOK, StoreOK, SettledInv, QuietBase, AllClean
  <2>2. StaleIn(units, docs) = {}
    BY DEF StaleIn, AllClean
  <2>3. PICK doc \in primary_doc_for(docs, u.key) : u.result = Result(docs, u.key, doc)
    BY <2>1, <2>2 DEF SettledInv, Settled
  <2>4. primary_doc_for(docs, u.key) = {doc}
    BY <2>1, <2>3, PrimaryDoc
  <2>5. v = Entry(docs, units, u.key, doc)
    BY <2>4, AnalyzeUnit
  <2> QED BY <2>3, <2>5, EntryParts
<1>4. Spec => []TypeOK
  BY TypeCorrect
<1> QED BY <1>1, <1>2, <1>3, <1>4, PTL DEF Spec

-----------------------------------------------------------------------------
(* One analysis serves all of a unit's documents                             *)

(* Every lsp.rsp is usable, and where there is one no file is opened under    *)
(* two names.                                                                *)
Usable  == \A d \in Dir : InitRsp[d] # Broken
OneName == \/ \A p, q \in EditPath : Target[p] = Target[q] => p = q
           \/ \A d \in Dir : InitRsp[d] = Absent

KeyedDocs(ds) == \A d \in ds : d.key = unit_key(d.path)

LEMMA BearerListed ==
    ASSUME Existing, Usable, OneName, QuietWorld, Workspace,
           NEW ds, NEW n, StoreOK(ds, n), RealDocs(ds), KeyedDocs(ds),
           NEW doc \in ds, NEW e \in ds, e # doc, e.key = doc.key, doc.key[1] = "R"
    PROVE  \E s \in Extra(ds, doc.key, doc) : s.file = e.path /\ s.text = e.text
<1> DEFINE k == doc.key
           r == k[2]
<1>0. /\ doc \in Doc /\ e \in Doc /\ doc.path # e.path
      /\ doc.path \in EditPath /\ e.path \in EditPath /\ doc.path \in Path /\ e.path \in Path
  BY EditPathSaved DEF StoreOK, RealDocs
<1>1. ASSUME NEW p, unit_key(p) = k
      PROVE  r \in RspAbove(DirOf[p]) /\ rsp_claims_doc(r, p)
  <2> DEFINE claims == {c \in RspAbove(DirOf[p]) : rsp_claims_doc(c, p)}
  <2>1. claims # {} /\ k = <<"R", CHOOSE c \in claims : TRUE>>
    BY <1>1 DEF unit_key
  <2>2. r \in claims
    BY <2>1
  <2> QED BY <2>2
<1>2. /\ r \in RspAbove(DirOf[doc.path])
      /\ r \in RspAbove(DirOf[e.path]) /\ rsp_claims_doc(r, e.path)
  BY <1>1 DEF KeyedDocs
<1>3. /\ r \in Dir /\ RspAbove(DirOf[doc.path]) \subseteq Dir
      /\ rsp[r] # Absent /\ rsp[r] # Broken /\ rsp[r] \subseteq Path
  <2>1. r \in Dir /\ RspAbove(DirOf[doc.path]) \subseteq Dir
    BY <1>0, <1>2, RspAboveType, PathAssumption
  <2> QED BY <1>2, <2>1, AbovePresent DEF Usable, QuietWorld, Workspace, RspContent
<1>4. gather_rsp_sources(ds, doc, r) \subseteq Extra(ds, k, doc)
  <2>1. ~(k[1] = "U" \/ RspBroken(k, RspAbove(DirOf[doc.path])) \/ RspAbove(DirOf[doc.path]) = {})
    BY <1>2, <1>3 DEF RspBroken, Usable, QuietWorld
  <2> QED BY <1>2, <2>1 DEF Extra, ExtraSources
<1>5. PICK q \in rsp[r] : canon_path(q) = canon_path(e.path)
  BY <1>2, <1>3 DEF rsp_claims_doc, rsp_input_paths
<1>6. ASSUME NEW d \in ds, canon_path(d.path) = canon_path(e.path)
      PROVE  d = e
  <2>1. d.path \in EditPath /\ Readable(d.path) /\ Readable(e.path)
    BY <1>0, EditPathSaved DEF RealDocs
  <2>2. Target[d.path] = Target[e.path]
    BY <1>6, <2>1 DEF canon_path, Readable
  <2>3. d.path = e.path
    BY <1>0, <1>3, <2>1, <2>2 DEF OneName, QuietWorld
  <2> QED BY <2>3 DEF StoreOK
<1>7. canon_path(q) # canon_path(doc.path)
  BY <1>0, <1>5, <1>6
<1> DEFINE D == store_find_by_path(ds, canon_path(q))
<1>8. D = {e}
  <2>1. /\ q \in Path /\ canon_path(q) \in Path
        /\ canon_path(canon_path(q)) = canon_path(e.path)
    BY <1>3, <1>5, CanonType, CanonTwice
  <2>2. \A d \in D : d = e
    BY <1>6, <2>1, FindReal DEF StoreOK
  <2>3. D # {}
    <3> DEFINE exact == {d \in ds : d.path = canon_path(q)}
               same  == {d \in ds : d.real = canon_path(canon_path(q))}
    <3>1. exact \subseteq Doc /\ same \subseteq Doc /\ e \in same
      BY <2>1 DEF StoreOK, RealDocs
    <3>2. First(same) # {} /\ (exact # {} => First(exact) # {})
      BY <3>1, FirstLeast
    <3> QED BY <3>2 DEF store_find_by_path
  <2> QED BY <2>2, <2>3
<1>9. add_member_source(D \ {doc}, q) \subseteq gather_rsp_sources(ds, doc, r)
  BY <1>7 DEF gather_rsp_sources
<1>10. [via |-> q, file |-> e.path, text |-> e.text] \in add_member_source(D \ {doc}, q)
  <2>1. D \ {doc} = {e}
    BY <1>8
  <2> HIDE DEF D
  <2> QED BY <2>1 DEF add_member_source
<1> QED BY <1>4, <1>9, <1>10

LEMMA BearerSibling ==
    ASSUME Existing, QuietWorld, NEW ds, NEW n, StoreOK(ds, n), RealDocs(ds), KeyedDocs(ds),
           NEW doc \in ds, NEW e \in ds, e # doc, e.key = doc.key, doc.key[1] # "R"
    PROVE  \E s \in Extra(ds, doc.key, doc) : s.file = e.path /\ s.text = e.text
<1> DEFINE k == doc.key
<1>0. /\ doc.path # e.path /\ e.path \in EditPath /\ e.path \in Path /\ Readable(e.path)
      /\ k = unit_key(doc.path) /\ k = unit_key(e.path)
  BY EditPathSaved DEF StoreOK, RealDocs, KeyedDocs
<1>1. ASSUME NEW p, unit_key(p) = k
      PROVE  k[2] = DirOf[p] /\ (k[1] = "U" \/ RspAbove(DirOf[p]) = {})
  BY <1>1 DEF unit_key
<1>2. SiblingSources(ds, doc) \subseteq Extra(ds, k, doc)
  BY <1>0, <1>1 DEF Extra, ExtraSources, gather_heuristic_sources
<1>3. e.path \in collect_sibling_fc(doc.path)
  BY <1>0, <1>1, WorldAssumption DEF collect_sibling_fc, DocPath, File
<1>4. store_find_by_path(ds, e.path) = {e}
  <2>1. {d \in ds : d.path = e.path} = {e} /\ {e} \subseteq Doc
    BY DEF StoreOK
  <2> QED BY <2>1, FirstOnly DEF store_find_by_path
<1>5. add_member_source({e}, e.path) \subseteq SiblingSources(ds, doc)
  <2> DEFINE P == {q \in collect_sibling_fc(doc.path) : store_find_by_path(ds, q) # {doc}}
             f(q) == add_member_source(store_find_by_path(ds, q), q)
  <2>1. e.path \in P /\ f(e.path) = add_member_source({e}, e.path)
    BY <1>3, <1>4
  <2>2. SiblingSources(ds, doc) = UNION {f(q) : q \in P}
    BY DEF SiblingSources
  <2> HIDE DEF P, f
  <2> QED BY <2>1, <2>2
<1>6. [via |-> e.path, file |-> e.path, text |-> e.text] \in add_member_source({e}, e.path)
  BY DEF add_member_source
<1> QED BY <1>2, <1>5, <1>6

(* Each document that bears a key is a source of the unit's next analysis.   *)
LEMMA BearersServed ==
    ASSUME Existing, Usable, OneName, QuietWorld, Workspace,
           NEW ds, NEW n, StoreOK(ds, n), RealDocs(ds), KeyedDocs(ds),
           NEW e \in ds, NEW us, NEW u \in analyze_unit(ds, us, e.key)
    PROVE  \E s \in u.result.srcs : s.file = e.path /\ s.text = e.text
<1>1. PICK doc \in primary_doc_for(ds, e.key) : u = Entry(ds, us, e.key, doc)
  BY AnalyzeUnit
<1>2. doc \in ds /\ doc.key = e.key
  BY <1>1, PrimaryDoc DEF StoreOK
<1>3. u.result.srcs = {Prim(doc)} \cup Extra(ds, e.key, doc)
  BY <1>1, EntryShape
<1>4. CASE e = doc
  <2>1. Prim(doc) \in u.result.srcs
    BY <1>3
  <2>2. Prim(doc).file = e.path /\ Prim(doc).text = e.text
    BY <1>4 DEF Prim
  <2> QED BY <2>1, <2>2
<1>5. CASE e # doc
  BY <1>2, <1>3, <1>5, BearerListed, BearerSibling
<1> QED BY <1>4, <1>5

LEMMA AnalyzedKept ==
    ASSUME Quiet, Existing, Usable, OneName, TypeOK, TypeOK', QuietBase, EveryDocAnalyzed, [Next]_vars
    PROVE  EveryDocAnalyzed'
<1>1. QuietStep
  BY QuietSteps
<1>2. CASE Kept
  BY <1>2 DEF Kept, EveryDocAnalyzed, Dirty
<1>3. CASE Emptied
  BY <1>3 DEF Emptied, EveryDocAnalyzed
<1>4. ASSUME NEW p, EditedAt(p) PROVE EveryDocAnalyzed'
  <2>1. \A d \in docs' \ Dirty(docs') : d \in docs \ Dirty(docs)
    BY <1>4 DEF EditedAt, TypeOK, StoreOK, Dirty
  <2> QED BY <1>4, <2>1 DEF EditedAt, EveryDocAnalyzed, Dirty
<1>5. ASSUME NEW ds, NEW n, FlushedFrom(ds, n) PROVE EveryDocAnalyzed'
  <2> DEFINE es == Refreshed(ds)
  <2>1. ds \subseteq Doc /\ StoreOK(es, n) /\ es \subseteq Doc
    BY <1>5, RefreshedStore DEF FlushedFrom, StoreOK
  <2>2. RealDocs(es) /\ KeyedDocs(es)
    BY <1>5, <2>1, RefreshedKnown DEF FlushedFrom, KeyedDocs
  <2>3. docs' = Cleaned(es) /\ units' = Reanalyzed(es, StaleKeys(es))
    BY <1>5 DEF FlushedFrom
  <2> SUFFICES ASSUME NEW c \in docs', NEW u \in units', u.key = c.key
               PROVE  \E s \in u.result.srcs : s.file = c.path /\ s.text = c.text
    BY DEF EveryDocAnalyzed
  <2>4. \E e \in es : c.path = e.path /\ c.text = e.text /\ c.key = e.key
    BY <2>1, <2>3, CleanedDoc
  <2>5. PICK e \in es : c.path = e.path /\ c.text = e.text /\ c.key = e.key
    BY <2>4
  <2>6. ASSUME u \in units, u.key \notin StaleKeys(es)
        PROVE  \E s \in u.result.srcs : s.file = c.path /\ s.text = c.text
    <3>1. ~e.dirty
      BY <2>5, <2>6 DEF StaleKeys, Dirty
    <3>2. PICK d \in ds : e.path = d.path /\ e.text = d.text /\ ~d.dirty
      BY <1>5, <2>1, <3>1, RefreshedKnown DEF FlushedFrom
    <3>3. ds = docs /\ d.key = e.key
      BY <1>5, <2>2, <3>2 DEF FlushedFrom, Dirty, KnownDocs, KeyedDocs
    <3> QED BY <2>5, <2>6, <3>2, <3>3 DEF EveryDocAnalyzed, Dirty
  <2>7. ASSUME NEW k, u \in analyze_unit(es, units, k)
        PROVE  \E s \in u.result.srcs : s.file = c.path /\ s.text = c.text
    <3>1. u.key = k
      BY <2>7, AnalyzeUnit, EntryParts
    <3>2. u \in analyze_unit(es, units, e.key)
      BY <2>5, <2>7, <3>1
    <3>3. Workspace /\ QuietWorld
      BY DEF TypeOK, Workspace, QuietBase
    <3> HIDE DEF es
    <3>4. \E s \in u.result.srcs : s.file = e.path /\ s.text = e.text
      BY <2>1, <2>2, <3>2, <3>3, BearersServed
    <3> QED BY <2>5, <3>4
  <2> QED BY <2>3, <2>6, <2>7 DEF Reanalyzed
<1> QED BY <1>1, <1>2, <1>3, <1>4, <1>5 DEF QuietStep

(* "this single analysis serves all of the unit's open documents"             *)
(* (analyze_unit): each clean document is among its unit's sources, with its  *)
(* live text.                                                                *)
THEOREM OneAnalysisServesAll ==
    ASSUME FrontEndTyped, Quiet, Existing, Usable, OneName
    PROVE  Spec => []EveryDocAnalyzed
<1>1. Init => QuietBase /\ EveryDocAnalyzed
  BY DEF Init, LspInit, QuietBase, QuietWorld, RealDocs, KnownDocs, EveryDocAnalyzed
<1>2. TypeOK /\ TypeOK' /\ (QuietBase /\ EveryDocAnalyzed) /\ [Next]_vars => (QuietBase /\ EveryDocAnalyzed)'
  BY QuietBaseKept, AnalyzedKept
<1>3. Spec => []TypeOK
  BY TypeCorrect
<1> QED BY <1>1, <1>2, <1>3, PTL DEF Spec

-----------------------------------------------------------------------------
(* What is on screen                                                         *)

(* Every file is named by its canonical spelling.                            *)
OneSpelling == Path \subseteq File

LEMMA FindSpelled ==
    ASSUME OneSpelling, NEW ds, NEW n, StoreOK(ds, n), RealDocs(ds), NEW p \in Path
    PROVE  /\ canon_path(p) = p
           /\ store_find_by_path(ds, p) = {d \in ds : d.path = p}
           /\ uri_for_path(ds, p) = p
<1>1. \A q \in Path : canon_path(q) = q
  BY DEF OneSpelling, File, canon_path
<1> DEFINE exact == {d \in ds : d.path = p}
<1>2. {d \in ds : d.real = canon_path(p)} = exact
  BY <1>1 DEF RealDocs, StoreOK, Doc
<1>3. First(exact) = exact
  BY FirstOnly DEF StoreOK
<1>4. store_find_by_path(ds, p) = exact
  BY <1>2, <1>3 DEF store_find_by_path
<1>5. exact # {} => Only(exact).path = p
  BY DEF Only
<1> QED BY <1>1, <1>4, <1>5 DEF uri_for_path

(* AllErrorsShown, of documents, units and a screen, for such a workspace.   *)
Shown(ds, us, sh) ==
    \A u \in us : \A d \in u.result.diags :
        LET open == \E e \in ds : e.path = d.file
        IN  /\ d.file \notin u.notReported
            /\ open \/ \A f \in feed : f.file # d.file
            /\ open \/ Readable(d.file)
            => d.msg \in sh[d.file]

LEMMA PublishShows ==
    ASSUME OneSpelling, NEW ds, NEW n, StoreOK(ds, n), RealDocs(ds), NEW us, us \subseteq UnitEntry,
           publish_project_diagnostics(ds, us)
    PROVE  Shown(ds, us, shown')
<1> DEFINE agg == Aggregate(ds, us)
           fs  == Emitted(ds, agg)
           now == {uri_for_path(ds, f) : f \in fs}
<1>0. Notify(ds, us, agg, fs, now)
  BY DEF publish_project_diagnostics
<1> HIDE DEF agg, fs, now
<1>1. PICK last \in [now -> fs] :
          /\ \A u \in now : uri_for_path(ds, last[u]) = u
          /\ shown' = [u \in Path |->
                IF u \in now THEN {d.msg : d \in {e \in agg : e.file = last[u]}}
                ELSE IF u \in pub \/ \E d \in ds : d.path = u THEN {}
                ELSE shown[u]]
  BY <1>0 DEF Notify
<1> USE DEF agg, fs, now
<1>2. ASSUME NEW u \in us, NEW d \in u.result.diags
      PROVE  d.file \in Path
  BY <1>2 DEF UnitEntry, Diag
<1>3. fs \subseteq Path
  BY <1>2 DEF Emitted, Aggregate, Reported
<1>4. ASSUME NEW d \in agg, d.file \in fs PROVE d.msg \in shown'[d.file]
  <2>1. d.file \in Path /\ uri_for_path(ds, d.file) = d.file /\ d.file \in now
    BY <1>3, <1>4, FindSpelled
  <2>2. last[d.file] \in fs /\ uri_for_path(ds, last[d.file]) = d.file
    BY <1>1, <2>1
  <2>3. last[d.file] = d.file
    BY <1>3, <2>2, FindSpelled
  <2> HIDE DEF agg, fs, now
  <2> QED BY <1>1, <1>4, <2>1, <2>3
<1>5. ASSUME NEW u \in us, NEW d \in u.result.diags, d.file \notin u.notReported,
             (\E e \in ds : e.path = d.file) \/ \A f \in feed : f.file # d.file,
             (\E e \in ds : e.path = d.file) \/ Readable(d.file)
      PROVE  d.msg \in shown'[d.file]
  <2>1. canon_path(d.file) = d.file /\ store_find_by_path(ds, d.file) = {e \in ds : e.path = d.file}
    BY <1>2, FindSpelled
  <2>2. d \in agg
    BY <1>5, <2>1 DEF Aggregate, Reported
  <2>3. d.file \in fs
    BY <1>5, <2>1, <2>2 DEF Emitted
  <2> QED BY <1>4, <2>2, <2>3
<1> QED BY <1>5 DEF Shown

ShownInv == QuietBase /\ (AllClean => Shown(docs, units, shown))

LEMMA ShownKept ==
    ASSUME Quiet, OneSpelling, TypeOK, TypeOK', ShownInv, [Next]_vars
    PROVE  ShownInv'
<1>1. QuietStep /\ UNCHANGED World /\ QuietBase'
  BY QuietSteps, QuietBaseKept DEF ShownInv
<1>2. Shown(docs, units, shown)' <=> Shown(docs', units', shown')
  BY <1>1 DEF Shown, Readable, World
<1> SUFFICES ASSUME AllClean' PROVE Shown(docs', units', shown')
  BY <1>1, <1>2 DEF ShownInv
<1>3. CASE Kept
  BY <1>3 DEF Kept, editor, ShownInv, AllClean
<1>4. CASE Emptied
  BY <1>4 DEF Emptied, Shown
<1>5. ASSUME NEW p, EditedAt(p) PROVE FALSE
  BY <1>5 DEF EditedAt, AllClean, Dirty
<1>6. ASSUME NEW ds, NEW n, FlushedFrom(ds, n) PROVE Shown(docs', units', shown')
  <2> DEFINE es == Refreshed(ds)
  <2>0. ds \subseteq Doc /\ StoreOK(es, n) /\ es \subseteq Doc
    BY <1>6, RefreshedStore DEF FlushedFrom, StoreOK
  <2>1. StoreOK(es, n) /\ es \subseteq Doc /\ RealDocs(es)
    BY <1>6, <2>0, RefreshedKnown DEF FlushedFrom
  <2>2. docs' = Cleaned(es) /\ publish_project_diagnostics(es, units')
    BY <1>6 DEF FlushedFrom
  <2> HIDE DEF es
  <2>3. units' \subseteq UnitEntry
    BY DEF TypeOK
  <2>4. Shown(es, units', shown')
    BY <2>1, <2>2, <2>3, PublishShows
  <2>5. \A f : (\E e \in docs' : e.path = f) <=> (\E e \in es : e.path = f)
    BY <2>1, <2>2, CleanedDoc
  <2> QED BY <2>4, <2>5 DEF Shown
<1> QED BY <1>1, <1>3, <1>4, <1>5, <1>6 DEF QuietStep

(* Every error an up-to-date unit reports about a file is on screen there     *)
(* (publish_project_diagnostics), where no file has two names: of two         *)
(* notifications for one file the editor keeps only the last.                *)
THEOREM ErrorsAreShown ==
    ASSUME FrontEndTyped, Quiet, OneSpelling
    PROVE  Spec => []AllErrorsShown
<1>1. Init => ShownInv
  BY DEF Init, LspInit, ShownInv, Shown, QuietBase, QuietWorld, RealDocs, KnownDocs
<1>2. TypeOK /\ TypeOK' /\ ShownInv /\ [Next]_vars => ShownInv'
  BY ShownKept
<1>3. TypeOK /\ ShownInv => AllErrorsShown
  <2> SUFFICES ASSUME TypeOK, ShownInv, AllClean,
                      NEW d \in Aggregate(docs, units), d.file \in Emitted(docs, Aggregate(docs, units))
               PROVE  d.msg \in shown[uri_for_path(docs, d.file)]
    BY DEF AllErrorsShown
  <2>1. PICK u \in units : d \in Reported(docs, u)
    BY DEF Aggregate
  <2>2. d \in u.result.diags /\ d.file \in Path
    BY <2>1 DEF Reported, TypeOK, UnitEntry, Diag
  <2>3. /\ canon_path(d.file) = d.file /\ uri_for_path(docs, d.file) = d.file
        /\ store_find_by_path(docs, d.file) = {e \in docs : e.path = d.file}
    BY <2>2, FindSpelled DEF TypeOK, ShownInv, QuietBase
  <2>4. store_find_by_path(docs, d.file) # {} \/ Readable(d.file)
    BY DEF Emitted
  <2> QED BY <2>1, <2>2, <2>3, <2>4 DEF ShownInv, Shown, Reported
<1>4. Spec => []TypeOK
  BY TypeCorrect
<1> QED BY <1>1, <1>2, <1>3, <1>4, PTL DEF Spec
=============================================================================
