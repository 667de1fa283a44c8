----------------------------- MODULE MCC64Worker -----------------------------
(* Instance: a main loop that calls a routine which may call itself, touches  *)
(* a watched byte and may run into a BRK; the handler calls a routine too.    *)
EXTENDS C64Worker

I(op, to, touch) == [op |-> op, to |-> to, touch |-> touch]
MCProg == (0 :> I("jsr", 5, None)) @@ (1 :> I("op", 0, 20))   @@ (2 :> I("br", 0, None))
       @@ (3 :> I("brk", 0, None)) @@ (4 :> I("jmp", 0, None))
       @@ (5 :> I("br", 7, None))  @@ (6 :> I("jsr", 5, None)) @@ (7 :> I("rts", 0, 21))
       @@ (8 :> I("jsr", 7, None)) @@ (9 :> I("rti", 0, None))

Def(a, acc, act, n) ==
    [on |-> TRUE, addr |-> a, last |-> a, ranged |-> FALSE, acc |-> acc, act |-> act,
     use |-> n > 0, init |-> n, reset |-> n]
Break(a) == Def(a, {"x"}, {"break"}, 0)
Watch(a) == Def(a, {"m"}, {"break"}, 0)
Wrap == [Break(9) EXCEPT !.last = 0, !.ranged = TRUE]
Once == [Def(1, {"x"}, {"break"}, 2) EXCEPT !.reset = 0]

C(op) == [op |-> op]
Steps == {C("stepOver"), C("stepOut"), C("stepInstruction"), C("run"), C("pause")}

MCScenarios == {
    [bps |-> <<>>, brk |-> FALSE, cmds |-> Steps],
    [bps |-> <<Break(7)>>, brk |-> FALSE, cmds |-> Steps],
    [bps |-> <<Watch(21), Break(8)>>, brk |-> TRUE, cmds |-> Steps \cup {C("clearAll")}],
    [bps |-> <<Break(1), Watch(20)>>, brk |-> FALSE,
     cmds |-> {C("run"), C("pause"), C("stepCycle"), [op |-> "runTo", addr |-> 1],
               [op |-> "runCycles", n |-> 3], [op |-> "reset", resume |-> "keep"]}],
    [bps |-> <<Break(0)>>, brk |-> TRUE,
     cmds |-> {C("stepFrame"), C("runToRaster"), C("run"), C("clearAll"),
               [op |-> "runInstructions", n |-> 2], [op |-> "reset", resume |-> "run"]}],
    [bps |-> <<Wrap, Once>>, brk |-> FALSE,
     cmds |-> {C("run"), C("rearm"), [op |-> "setExecute", addr |-> 7, on |-> TRUE],
               [op |-> "setExecute", addr |-> 7, on |-> FALSE],
               [op |-> "update", id |-> 1, def |-> Break(5)], [op |-> "update", id |-> 9, def |-> Break(5)],
               [op |-> "update", id |-> 2, def |-> [Break(5) EXCEPT !.acc = {}]],
               [op |-> "duplicate", id |-> 2], [op |-> "duplicate", id |-> 9],
               [op |-> "clear", id |-> 1], [op |-> "enable", id |-> 2, on |-> FALSE],
               [op |-> "create", def |-> [Def(2, {"x"}, {"count"}, 0) EXCEPT !.on = FALSE]]}] }
==============================================================================
