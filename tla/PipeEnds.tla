------------------------------ MODULE PipeEnds ------------------------------
(***************************************************************************)
(* What the kernel does with the ends of pipes when processes fork and     *)
(* end. ends[e] is the set of processes that hold end e open: a reader     *)
(* sees the end of the stream when the set of its write end is empty, a    *)
(* writer gets SIGPIPE when the set of its read end is.                    *)
(***************************************************************************)

(* close: process p closes the ends in E; at its exit it closes all.       *)
Closed(p, E, ends) == [e \in DOMAIN ends |-> IF e \in E THEN ends[e] \ {p} ELSE ends[e]]
Exited(p, ends)    == Closed(p, DOMAIN ends, ends)

(* fork: process q holds what its parent p holds.                          *)
Forked(p, q, ends) == [e \in DOMAIN ends |-> IF p \in ends[e] THEN ends[e] \cup {q} ELSE ends[e]]

(* pipe: process p opens the ends in E.                                    *)
Opened(p, E, ends) == [e \in DOMAIN ends |-> IF e \in E THEN {p} ELSE ends[e]]
=============================================================================
