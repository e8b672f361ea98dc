---------------------------- MODULE MCDensePager ----------------------------
(* Small instances of DensePager.                                           *)
EXTENDS DensePager

AllLayers == Layers
AllSlabs == Layers \X (1 .. NSlices)

OkOnly == {"ok"}
WithErrors == {"ok", "error"}

\* No files, no limit, well below it, near it.
SomeCgroups ==
    {[valid |-> FALSE, current |-> 0, max |-> 0], [valid |-> TRUE, current |-> 9, max |-> 0],
     [valid |-> TRUE, current |-> 8, max |-> 9], [valid |-> TRUE, current |-> 9, max |-> 10]}

NoFaults == {{}}
SomeFaults == {{}, {"timeout", "pread"}, {"submit", "pread"}}

=============================================================================
