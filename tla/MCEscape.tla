------------------------------ MODULE MCEscape ------------------------------
(* Functions over few names at a time: pointers that chase each other,     *)
(* slices and what they hold, closures, structs by value and on the heap.  *)
EXTENDS Escape

Shape(names, line, loop) == [names |-> names, line |-> line, loop |-> loop]

ShapesDef == {Shape({"p", "r"}, 3, 3), Shape({"p", "s"}, 2, 3), Shape({"s", "f"}, 3, 2),
              Shape({"b", "h"}, 3, 2), Shape({"p", "t"}, 2, 2), Shape({"q", "h"}, 3, 2)}
=============================================================================
