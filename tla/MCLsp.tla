------------------------------- MODULE MCLsp --------------------------------
(* Small workspaces for LspServer.  A text defines the name x ("def"), uses   *)
(* it ("use"), defines it and uses y ("mix"), or holds a stray tab ("tab").  *)
EXTENDS LspServer

(* The sources are merged primary first; a later definition is the error.    *)
MCSemErrors(prim, srcs) ==
    LET defs == {s \in srcs : s.text \in {"def", "mix"}}
        lost == {s \in srcs : s.text = "mix" \/ (s.text = "use" /\ defs = {})}
        kept == IF prim \in defs THEN prim ELSE CHOOSE s \in defs : TRUE
    IN  {[file |-> s.file, msg |-> "unresolved"] : s \in lost} \cup
        {[file |-> s.file, msg |-> "redefined"] : s \in {s \in defs : s # kept}}

MCSemMsg == {"unresolved", "redefined"}

(* Flat: two files and a link to one of them in one directory, and the       *)
(* stdlib elsewhere.                                                         *)
FlatPath   == {"a", "b", "link", "std"}
FlatLink   == {"link"}
FlatTarget == [p \in FlatPath |-> IF p = "link" THEN "b" ELSE p]
NoLink     == {}
FlatDir    == {"proj", "lib"}
FlatDirOf  == [p \in FlatPath |-> IF p = "std" THEN "lib" ELSE "proj"]
FlatChain  == [d \in FlatDir |-> <<d>>]
FlatDisk   == [p \in {"a", "b", "std"} |-> IF p = "std" THEN "def" ELSE "use"]
FlatRsp    == [d \in FlatDir |-> Absent]

(* Routes: two programs whose lsp.rsp both list a library by their own route. *)
RoutesPath   == {"m", "n", "lib", "m/../lib", "n/../lib"}
RoutesTarget == [p \in RoutesPath |-> IF p \in {"m", "n"} THEN p ELSE "lib"]
RoutesDir    == {"M", "N", "L"}
RoutesDirOf  == [p \in RoutesPath |-> CASE p = "m" -> "M" [] p = "n" -> "N" [] OTHER -> "L"]
RoutesChain  == [d \in RoutesDir |-> IF d = "L" THEN <<"L">> ELSE <<d, "L">>]
RoutesDisk   == [p \in {"m", "n", "lib"} |-> IF p = "lib" THEN "mix" ELSE "use"]
RoutesRsp    == [d \in RoutesDir |-> CASE d = "M" -> {"m", "m/../lib"}
                                       [] d = "N" -> {"n", "n/../lib"}
                                       [] OTHER   -> Absent]
RoutesRspChoice == {Absent, Broken, {"m/../lib"}, {"m", "m/../lib"}}
=============================================================================
