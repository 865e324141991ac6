----------------------------- MODULE LspServer ------------------------------
(* The language server's message loop (lsp.c): one process that reads one    *)
(* message at a time, marks edited documents dirty, and re-analyzes and      *)
(* publishes when the input queue is empty or a request needs an answer.     *)
(* Around it: an editor that sends whatever it likes, and other programs     *)
(* that change files and response files at any time.                         *)
EXTENDS LspUnits

CONSTANTS
    RspChoice,   \* the contents an lsp.rsp may be given
    MaxSend,     \* bound: messages the editor sends
    MaxQueue,    \* bound: messages waiting in the pipe
    EditPath,    \* the files the editor works on
    MaxDisk,     \* bound: changes other programs make on disk
    InitDisk, InitRsp,      \* the workspace the session starts in
    Kinds        \* the message kinds the editor sends

ASSUME WorldAssumption ==
    /\ InitDisk \in [File -> Text \cup {Absent}]
    /\ InitRsp \in [Dir -> RspContent]
    /\ RspChoice \subseteq RspContent
    /\ EditPath \subseteq DocPath

VARIABLES
    docs,        \* S->store.docs: the open documents
    count,       \* S->store.count
    units,       \* S->units
    pub,         \* S->pub_uris: URIs last published non-empty
    shown,       \* the editor: URI -> the messages it displays there
    ranges,      \* the last publish: [file, analyzed, mapped] texts its ranges used
    inbox,       \* messages written by the editor and not yet read
    eof,         \* the editor closed the pipe
    pc,          \* "read": at read_headers; "poll": after dispatch; "exited"
    shutdown,    \* S->shutdown_requested
    code,        \* lsp_main's return value, once there is one (a set of at most one)
    reply,       \* what the last message was answered with
    sent, wrote  \* how much of MaxSend and MaxDisk is used

editor == <<pub, shown, ranges>>
server == <<docs, count, units, editor, shutdown, code, reply>>
world  == <<disk, rsp, wrote>>
vars   == <<server, world, feed, inbox, eof, pc, sent>>

NoReply == [op |-> "none", path |-> "none", srcs |-> {}]

Msg == UNION {
    [op : {"open", "change"}, path : EditPath, text : Text],
    [op : {"close", "query"}, path : EditPath],
    [op : {"shutdown", "request", "exit", "notification", "malformed"}] }

LspInit ==
    /\ docs = {} /\ count = 0 /\ units = {}
    /\ pub = {} /\ shown = [u \in Path |-> {}] /\ ranges = {}
    /\ shutdown = FALSE /\ code = {} /\ reply = NoReply
    /\ inbox = <<>> /\ eof = FALSE /\ pc = "read" /\ sent = 0

Init ==
    /\ LspInit
    /\ disk = InitDisk /\ rsp = InitRsp /\ wrote = 0
    /\ feed = {[via |-> p, file |-> p, text |-> disk[Target[p]]] :
                  p \in {p \in FeedPath : Readable(p)}}

-----------------------------------------------------------------------------
(* Publishing                                                                *)

(* The URI the editor knows a file by; editor URIs and paths are one-to-one. *)
uri_for_path(ds, p) ==
    LET open == store_find_by_path(ds, p)
    IN  IF open # {} THEN Only(open).path ELSE canon_path(p)

(* The diagnostics of a unit's current analysis that are to be reported.     *)
Reported(ds, u) ==
    {d \in u.result.diags :
        /\ canon_path(d.file) \notin u.notReported
        /\ store_find_by_path(ds, d.file) # {} \/ \A f \in feed : f.file # d.file}

Aggregate(ds, us) == UNION {Reported(ds, u) : u \in us}

(* The spellings a notification is emitted for: open, or still readable. *)
Emitted(ds, agg) ==
    {f \in {d.file : d \in agg} :
        store_find_by_path(ds, f) # {} \/ Readable(f)}

(* The text a published range was computed on, beside the text the analysis  *)
(* that found the error saw.                                                 *)
MappedText(ds, f) ==
    LET open == store_find_by_path(ds, f)
    IN  IF open # {} THEN Only(open).text ELSE disk[Target[f]]

RangesOf(ds, us, fs) ==
    {[file |-> s.file, analyzed |-> s.text, mapped |-> MappedText(ds, s.file)] :
        s \in UNION {{s \in u.result.srcs :
                         /\ s.file \in fs
                         /\ \E d \in Reported(ds, u) : d.file = s.file} : u \in us}}

(* One notification per spelling.  Two spellings of a file share its URI;    *)
(* the editor keeps the one that arrives last, here either of them.  Then    *)
(* every open document and every URI published last time that is not in now  *)
(* gets an empty notification.                                               *)
FaultyNoClear(ds, us, agg, fs, now) ==
    /\ pub' = now
    /\ ranges' = RangesOf(ds, us, fs)
    /\ \E last \in [now -> fs] :
          /\ \A u \in now : uri_for_path(ds, last[u]) = u
          /\ shown' = [u \in Path |->
                IF u \in now THEN {d.msg : d \in {e \in agg : e.file = last[u]}}
                ELSE IF \E d \in ds : d.path = u THEN {}
                ELSE shown[u]]

Notify(ds, us, agg, fs, now) ==
    /\ pub' = now
    /\ ranges' = RangesOf(ds, us, fs)
    /\ \E last \in [now -> fs] :
          /\ \A u \in now : uri_for_path(ds, last[u]) = u
          /\ shown' = [u \in Path |->
                IF u \in now THEN {d.msg : d \in {e \in agg : e.file = last[u]}}
                ELSE IF u \in pub \/ \E d \in ds : d.path = u THEN {}
                ELSE shown[u]]

publish_project_diagnostics(ds, us) ==
    \E agg \in {Aggregate(ds, us)} : \E fs \in {Emitted(ds, agg)} :
    \E now \in {{uri_for_path(ds, f) : f \in fs}} : Notify(ds, us, agg, fs, now)

-----------------------------------------------------------------------------
(* flush_dirty                                                               *)

Dirty(ds) == {d \in ds : d.dirty}

(* Every document's unit and canonical path, recomputed; one whose unit      *)
(* changed counts as dirty.                                                  *)
Refreshed(ds) ==
    {[d EXCEPT !.dirty = @ \/ unit_key(d.path) # d.key, !.key = unit_key(d.path),
               !.real = canon_path(d.path)] : d \in ds}

(* The units a dirty document keys, and the units with a dirty document      *)
(* among the files they last analyzed.                                       *)
StaleKeys(ds) ==
    {d.key : d \in Dirty(ds)} \cup
    {u.key : u \in {u \in units : \E d \in Dirty(ds) : d.real \in u.files}}

(* The stale units analyzed again; unit_prune drops those nothing bears.     *)
FaultyNoPrune(ds, stale) ==
    {u \in units : u.key \notin stale} \cup
    UNION {analyze_unit(ds, units, k) : k \in stale}

Reanalyzed(ds, stale) ==
    {u \in units : Bearers(ds, u.key) # {} /\ u.key \notin stale} \cup
    UNION {analyze_unit(ds, units, k) : k \in stale}

FaultyStaysDirty(ds) == ds

Cleaned(ds) == {[d EXCEPT !.dirty = FALSE] : d \in ds}

FaultyPublishFirst(ds0) ==
    IF Dirty(ds0) = {}
    THEN docs' = ds0 /\ UNCHANGED <<units, editor>>
    ELSE \E ds \in {Refreshed(ds0)} : \E us \in {Reanalyzed(ds, StaleKeys(ds))} :
            /\ docs' = Cleaned(ds)
            /\ units' = us
            /\ publish_project_diagnostics(ds, units)

flush_dirty(ds0) ==
    IF Dirty(ds0) = {}
    THEN docs' = ds0 /\ UNCHANGED <<units, editor>>
    ELSE \E ds \in {Refreshed(ds0)} : \E us \in {Reanalyzed(ds, StaleKeys(ds))} :
            /\ docs' = Cleaned(ds)
            /\ units' = us
            /\ publish_project_diagnostics(ds, us)

-----------------------------------------------------------------------------
(* Handlers.  Each is the whole of dispatch() for its message.               *)

Opened(p) == {d \in docs : d.path = p}

(* Only the text and the dirty flag of an open document change. *)
Edited(p, t) ==
    {IF d.path = p THEN [d EXCEPT !.text = t, !.dirty = TRUE] ELSE d : d \in docs}

handle_did_open(p, t) ==
    /\ IF Opened(p) = {}
       THEN /\ docs' = docs \cup {[pos |-> count, path |-> p, real |-> canon_path(p),
                                   text |-> t, dirty |-> TRUE, key |-> NoKey]}
            /\ count' = count + 1
       ELSE docs' = Edited(p, t) /\ UNCHANGED count
    /\ reply' = NoReply
    /\ UNCHANGED <<units, editor, shutdown, code>>

handle_did_change(p, t) ==
    /\ docs' = Edited(p, t)
    /\ reply' = NoReply
    /\ UNCHANGED <<count, units, editor, shutdown, code>>

(* The last document of the array moves into the closed one's place. *)
SwapRemove(ds, n, doc) ==
    {[d EXCEPT !.pos = IF @ = n - 1 THEN doc.pos ELSE @] : d \in ds \ {doc}}

FaultyOnlyDirty(ds) == ds

AllDirty(ds) == {[d EXCEPT !.dirty = TRUE] : d \in ds}

(* Closing re-analyzes everything that stays open; closing the last document *)
(* drops every unit and clears every URI published, the closed one's too.    *)
handle_did_close(p) ==
    /\ reply' = NoReply /\ UNCHANGED <<shutdown, code>>
    /\ \/ Opened(p) = {} /\ UNCHANGED <<docs, count, units, editor>>
       \/ \E doc \in Opened(p) :
          /\ count' = count - 1 /\ count' > 0
          /\ flush_dirty(AllDirty(SwapRemove(docs, count, doc)))
       \/ \E doc \in Opened(p) :
          /\ count' = count - 1 /\ count' = 0
          /\ docs' = {} /\ units' = {} /\ pub' = {} /\ ranges' = {}
          /\ shown' = [u \in Path |-> IF u \in pub \cup {p} THEN {} ELSE shown[u]]

(* The analysis that answers type-aware requests for an open document. *)
query_result(us, doc) ==
    UNION {IF u.result.typed THEN u.result.srcs ELSE u.lastGood : u \in unit_find(us, doc.key)}

(* hover, definition, codeLens, inlayHint, completion: flush, then answer    *)
(* from the document's unit; an unopened document gets an empty answer.      *)
FaultyQuery(p) ==
    /\ reply' = [op |-> "query", path |-> p,
                 srcs |-> UNION {query_result(units, d) : d \in Opened(p)}]
    /\ UNCHANGED <<docs, count, units, editor, shutdown, code>>

handle_query(p) ==
    /\ flush_dirty(docs)
    /\ reply' = [op |-> "query", path |-> p,
                 srcs |-> UNION {query_result(units', d) : d \in {d \in docs' : d.path = p}}]
    /\ UNCHANGED <<count, shutdown, code>>

handle_shutdown ==
    /\ flush_dirty(docs)
    /\ shutdown' = TRUE /\ reply' = [NoReply EXCEPT !.op = "shutdown"]
    /\ UNCHANGED <<count, code>>

(* initialize, and any request the server does not know. *)
handle_other_request ==
    /\ flush_dirty(docs)
    /\ reply' = [NoReply EXCEPT !.op = "request"]
    /\ UNCHANGED <<count, shutdown, code>>

(* exit leaves the loop with 0 only after a shutdown request. *)
handle_exit ==
    /\ code' = IF shutdown THEN {0} ELSE {1}
    /\ reply' = NoReply
    /\ UNCHANGED <<docs, count, units, editor, shutdown>>

Ignore == reply' = NoReply /\ UNCHANGED <<docs, count, units, editor, shutdown, code>>

-----------------------------------------------------------------------------
(* The message loop                                                          *)

dispatch(m) ==
    \/ m.op = "open"         /\ handle_did_open(m.path, m.text)
    \/ m.op = "change"       /\ handle_did_change(m.path, m.text)
    \/ m.op = "close"        /\ handle_did_close(m.path)
    \/ m.op = "query"        /\ handle_query(m.path)
    \/ m.op = "shutdown"     /\ handle_shutdown
    \/ m.op = "request"      /\ handle_other_request
    \/ m.op = "exit"         /\ handle_exit
    \/ m.op = "notification" /\ Ignore

(* A well-formed message is dispatched, then the loop polls for more input.  *)
Read ==
    /\ pc = "read" /\ inbox # <<>> /\ Head(inbox).op # "malformed"
    /\ dispatch(Head(inbox))
    /\ inbox' = Tail(inbox)
    /\ pc' = IF Head(inbox).op = "exit" THEN "exited" ELSE "poll"
    /\ UNCHANGED <<world, feed, eof, sent>>

(* A header set without a length, or a body that is not JSON, is skipped:    *)
(* the loop goes straight back to reading.                                   *)
ReadMalformed ==
    /\ pc = "read" /\ inbox # <<>> /\ Head(inbox).op = "malformed"
    /\ inbox' = Tail(inbox)
    /\ UNCHANGED <<server, world, feed, eof, pc, sent>>

(* End of input (poll reports it as readable): the loop ends with 0. *)
ReadEof ==
    /\ pc = "read" /\ inbox = <<>> /\ eof
    /\ pc' = "exited" /\ code' = {0}
    /\ UNCHANGED <<docs, count, units, editor, shutdown, reply, world, feed, inbox, eof, sent>>

FaultyPending == inbox = <<>> \/ eof

input_pending == inbox # <<>> \/ eof

Poll ==
    /\ pc = "poll" /\ pc' = "read"
    /\ IF input_pending THEN UNCHANGED <<docs, count, units, editor>> ELSE flush_dirty(docs)
    /\ UNCHANGED <<count, shutdown, code, reply, world, feed, inbox, eof, sent>>

Server == Read \/ ReadMalformed \/ ReadEof \/ Poll

-----------------------------------------------------------------------------
(* The editor and the rest of the machine                                    *)

Send ==
    /\ ~eof /\ sent < MaxSend /\ Len(inbox) < MaxQueue /\ pc # "exited"
    /\ \E m \in Msg : m.op \in Kinds /\ inbox' = Append(inbox, m)
    /\ sent' = sent + 1
    /\ UNCHANGED <<server, world, feed, eof, pc>>

CloseInput ==
    /\ ~eof /\ eof' = TRUE
    /\ "eof" \in Kinds
    /\ UNCHANGED <<server, world, feed, inbox, pc, sent>>

SaveFile ==
    /\ wrote < MaxDisk /\ wrote' = wrote + 1
    /\ \E f \in File, t \in Text \cup {Absent} : disk[f] # t /\ disk' = [disk EXCEPT ![f] = t]
    /\ UNCHANGED <<server, rsp, feed, inbox, eof, pc, sent>>

SaveRsp ==
    /\ wrote < MaxDisk /\ wrote' = wrote + 1
    /\ \E d \in Dir, c \in RspChoice : rsp[d] # c /\ rsp' = [rsp EXCEPT ![d] = c]
    /\ UNCHANGED <<server, disk, feed, inbox, eof, pc, sent>>

Next == Server \/ Send \/ CloseInput \/ SaveFile \/ SaveRsp

Spec == Init /\ [][Next]_vars

(* The process is never suspended for ever, so a step of the loop that stays *)
(* possible is taken; the editor and the disk owe nothing.                   *)
FairSpec == Spec /\ WF_vars(Server)
-----------------------------------------------------------------------------
(* Properties                                                                *)

AllClean == Dirty(docs) = {}

SourceSet == SUBSET Source

DiagMsg == {"lex", "incomplete", "unlisted", "rspIgnored"} \cup SemMsg

Diag == [file : Path, msg : DiagMsg]

UnitEntry == [key : Key, files : SUBSET Path, notReported : SUBSET Path, lastGood : SourceSet,
              result : [srcs : SourceSet, typed : BOOLEAN, diags : SUBSET Diag]]

(* An array of n documents with distinct URIs. *)
StoreOK(ds, n) ==
    /\ ds \subseteq Doc /\ n \in Nat
    /\ {d.pos : d \in ds} = 0 .. (n - 1)
    /\ \A d, e \in ds : d.pos = e.pos \/ d.path = e.path => d = e

(* The server's data structures keep their shape: the store is an array of    *)
(* count documents with distinct URIs, gapless also after a close moved its   *)
(* last document.                                                             *)
TypeOK ==
    /\ StoreOK(docs, count)
    /\ units \subseteq UnitEntry
    /\ pub \subseteq Path
    /\ shown \in [Path -> SUBSET DiagMsg]
    /\ pc \in {"read", "poll", "exited"}
    /\ shutdown \in BOOLEAN /\ eof \in BOOLEAN
    /\ inbox \in Seq(Msg)
    /\ disk \in [File -> Text \cup {Absent}]
    /\ rsp \in [Dir -> RspContent]
    /\ feed \subseteq Source

(* A squiggle the editor shows is one the server still remembers: pub_uris,   *)
(* the set each publish cycle clears from, is exactly what is on screen.      *)
SquigglesTracked == \A u \in Path : shown[u] # {} <=> u \in pub

(* Units live exactly as long as an open document bears their key: unit_prune *)
(* frees no unit that a query can still ask for and keeps no other.           *)
UnitsBorne == {u.key : u \in units} = {d.key : d \in docs} \ {NoKey}

(* While nothing changes on disk, re-running only the stale units leaves all  *)
(* units as a re-run of everything would: no dependency is missed.            *)
UnitsCurrent ==
    AllClean => \A u \in units : \A v \in analyze_unit(docs, units, u.key) :
                    u.result = v.result

(* "this single analysis serves all of the unit's open documents": each clean *)
(* document is among the sources of its unit, with its live text.             *)
EveryDocAnalyzed ==
    \A d \in docs \ Dirty(docs), u \in units :
        u.key = d.key => \E s \in u.result.srcs : s.file = d.path /\ s.text = d.text

(* A request is answered from an analysis of the current text of every open   *)
(* document it merged, unless its unit's newest analysis aborted in the lexer *)
(* (query_result then falls back to last_good, whatever its age).  And        *)
(* emit_diagnostics maps locations through "the content that was analyzed for *)
(* this file", as long as no other program writes to the disk.                *)
AnswersCurrent ==
    /\ reply.op = "query" =>
          \A doc \in Opened(reply.path), u \in units :
              u.key = doc.key /\ u.result.typed =>
                  /\ reply.srcs # {}
                  /\ \A s \in reply.srcs, d \in docs : s.file = d.path => s.text = d.text
    /\ wrote = 0 => \A r \in ranges : r.analyzed = r.mapped

(* "the dirty units are re-analyzed when the input queue drains": a server    *)
(* blocked on an empty queue has no unanalyzed edit.                          *)
IdleIsClean == pc = "read" /\ inbox = <<>> /\ ~eof => AllClean

(* Every error an up-to-date unit reports about a file is on screen there.    *)
AllErrorsShown ==
    AllClean => LET agg == Aggregate(docs, units)
                IN  \A d \in agg : d.file \in Emitted(docs, agg) =>
                                    d.msg \in shown[uri_for_path(docs, d.file)]

(* An edit is analyzed eventually, once the editor pauses (MaxSend makes it). *)
EditsRealized == Dirty(docs) # {} ~> AllClean \/ eof \/ pc = "exited"
=============================================================================
