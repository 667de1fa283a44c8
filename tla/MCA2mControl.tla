---------------------------- MODULE MCA2mControl ----------------------------
(* Five mixes: two clients in turn with tokened requests, a session open   *)
(* that comes late and a wait; two that wait for the machine and meet a      *)
(* breakpoint; one that drives the machine; one that does so through the     *)
(* Inspector and out again; two that use the untokened kinds, reset the      *)
(* machine and leave politely.                                               *)
EXTENDS A2mControl

Mix(kinds, req, conn, hit, late) ==
    [kinds |-> kinds, req |-> req, conn |-> conn, hit |-> hit, late |-> late]

MCMixes == {Mix({"cpu", "hist", "waitP"}, 2, 2, 0, 1),
            Mix({"run", "waitP", "waitR", "waitE"}, 2, 2, 1, 0),
            Mix({"run", "pause", "step"}, 3, 1, 0, 0),
            Mix({"run", "enter", "leave"}, 3, 1, 0, 0),
            Mix({"run", "list", "mach", "reset", "quit"}, 2, 2, 0, 0)}
=============================================================================
