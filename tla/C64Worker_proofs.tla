-------------------------- MODULE C64Worker_proofs ---------------------------
(***************************************************************************)
(* What c64m's worker promises whoever drives it, for every program,       *)
(* breakpoint table, command alphabet and queue capacity: a breakpoint is  *)
(* never run over, the events tell whether the machine runs, the table     *)
(* keeps its order and its bounds, and step over and step out come to rest *)
(* where they should in every program that keeps its frames in order.      *)
(***************************************************************************)
EXTENDS C64Worker, SequenceTheorems, FiniteSetTheorems, WellFoundedInduction,
        NaturalsInduction, TLAPS

Frames == [kind : {"call", "irq", "brk"}, ret : Addr]
Cpus == [pc : Addr, stack : Seq(Frames), mid : {"no", "insn", "irq"}, icf : BOOLEAN]
IsOut(out) == out.did \in {"none", "insn", "irq"} /\ out.cpu \in Cpus

-----------------------------------------------------------------------------
(* The machine.                                                            *)

LEMMA PushCpu ==
  ASSUME NEW c \in Cpus, NEW kind \in {"call", "irq", "brk"}, NEW ret \in Addr,
         NEW to \in Addr
  PROVE  /\ Push(c, kind, ret, to) \in Cpus
         /\ Push(c, kind, ret, to).mid = c.mid /\ Push(c, kind, ret, to).icf = c.icf
<1>. DEFINE f == [kind |-> kind, ret |-> ret]
            st == <<f>> \o c.stack
<1>1. f \in Frames
  BY DEF Frames
<1>. HIDE DEF f
<1>2. st \in Seq(Frames)
  BY <1>1 DEF Cpus
<1>3. Push(c, kind, ret, to) = [c EXCEPT !.pc = to, !.stack = st]
  BY DEF Push, f, Cpus
<1>. HIDE DEF st
<1>. QED BY <1>2, <1>3 DEF Cpus

LEMMA PullCpu ==
  ASSUME NEW c \in Cpus, NEW kinds, NEW p \in Pull(c, kinds)
  PROVE  p \in Cpus /\ p.mid = c.mid /\ p.icf = c.icf
<1>1. c.stack # <<>> => Head(c.stack) \in Frames /\ Tail(c.stack) \in Seq(Frames)
  BY DEF Cpus
<1>2. c.stack # <<>> => Head(c.stack).ret \in Addr
  BY <1>1 DEF Frames
<1>3. CASE c.stack # <<>> /\ Head(c.stack).kind \in kinds
  <2>1. p = [c EXCEPT !.pc = Head(c.stack).ret, !.stack = Tail(c.stack)]
    BY <1>3 DEF Pull, Cpus
  <2>. QED BY <1>1, <1>2, <1>3, <2>1 DEF Cpus
<1>4. CASE ~(c.stack # <<>> /\ Head(c.stack).kind \in kinds)
  <2>1. PICK a \in Addr :
          p = [c EXCEPT !.pc = a, !.stack = IF c.stack = <<>> THEN c.stack ELSE Tail(c.stack)]
    BY <1>4 DEF Pull, Cpus
  <2>. QED BY <1>1, <2>1 DEF Cpus
<1>. QED BY <1>3, <1>4

\* What completes is at a boundary again, and its flag is set.
LEMMA CompleteCpu ==
  ASSUME NEW c \in Cpus, NEW p \in Complete(c)
  PROVE  p \in Cpus /\ p.mid = "no" /\ p.icf = TRUE
<1>. DEFINE d == [c EXCEPT !.mid = "no", !.icf = TRUE]
<1>1. d \in Cpus /\ d.mid = "no" /\ d.icf = TRUE /\ d.pc = c.pc
  BY DEF Cpus
<1>2. c.pc \in Addr
  BY DEF Cpus
<1>. HIDE DEF d
<1>3. CASE c.mid = "irq"
  <2>1. p = Push(d, "irq", c.pc, Handler)
    BY <1>3 DEF Complete, d
  <2>. QED BY <1>1, <1>2, <2>1, PushCpu, ProgramShape
<1>4. CASE c.mid # "irq" /\ Op(c) \in {"op", "jmp", "br"}
  <2>1. \E a \in Addr : p = [d EXCEPT !.pc = a]
    <3>1. CASE Op(c) = "op"
      <4>1. p = [d EXCEPT !.pc = d.pc + 1]
        BY <1>4, <3>1 DEF Complete, d
      <4>. QED BY <1>1, <1>2, <3>1, <4>1, ProgramShape DEF Op
    <3>2. CASE Op(c) = "jmp"
      <4>1. p = [d EXCEPT !.pc = Prog[c.pc].to]
        BY <1>4, <3>2 DEF Complete, d
      <4>. QED BY <1>1, <1>2, <3>2, <4>1, ProgramShape DEF Op
    <3>3. CASE Op(c) = "br"
      <4>1. p = [d EXCEPT !.pc = Prog[c.pc].to] \/ p = [d EXCEPT !.pc = d.pc + 1]
        BY <1>4, <3>3 DEF Complete, d
      <4>. QED BY <1>1, <1>2, <3>3, <4>1, ProgramShape DEF Op
    <3>. QED BY <1>4, <3>1, <3>2, <3>3
  <2>. QED BY <1>1, <2>1 DEF Cpus
<1>5. CASE c.mid # "irq" /\ Op(c) = "jsr"
  <2>1. p = Push(d, "call", c.pc + 1, Prog[c.pc].to)
    BY <1>5 DEF Complete, d
  <2>2. c.pc + 1 \in Addr /\ Prog[c.pc].to \in Addr
    BY <1>2, <1>5, ProgramShape DEF Op
  <2>. QED BY <1>1, <2>1, <2>2, PushCpu
<1>6. CASE c.mid # "irq" /\ Op(c) = "brk"
  <2>1. p = Push(d, "brk", c.pc + 1, Handler)
    BY <1>6 DEF Complete, d
  <2>2. c.pc + 1 \in Addr /\ Handler \in Addr
    BY <1>2, <1>6, ProgramShape DEF Op
  <2>. QED BY <1>1, <2>1, <2>2, PushCpu
<1>7. CASE c.mid # "irq" /\ Op(c) = "rts"
  <2>1. p \in Pull(d, {"call"})
    BY <1>7 DEF Complete, d
  <2>. QED BY <1>1, <2>1, PullCpu
<1>8. CASE c.mid # "irq" /\ Op(c) = "rti"
  <2>1. p \in Pull(d, {"irq", "brk"})
    BY <1>8 DEF Complete, d
  <2>. QED BY <1>1, <2>1, PullCpu
<1>. QED BY <1>2, <1>3, <1>4, <1>5, <1>6, <1>7, <1>8, ProgramShape DEF Op

LEMMA BeginCpu ==
  ASSUME NEW c \in Cpus, NEW b \in Begin(c)
  PROVE  b \in Cpus /\ b.mid \in {"insn", "irq"} /\ b.icf = c.icf
<1>1. b = [c EXCEPT !.mid = "insn"] \/ b = [c EXCEPT !.mid = "irq"]
  BY DEF Begin
<1>. QED BY <1>1 DEF Cpus

\* A cycle leads from inside an instruction to the boundary behind it and sets
\* the flag, or leaves the flag alone and comes to no new boundary.
LEMMA StepCycleOut ==
  ASSUME NEW c \in Cpus, NEW out \in StepCycle(c)
  PROVE  /\ IsOut(out)
         /\ out.did = "none" => out.cpu.icf = c.icf /\ c.mid = "no"
         /\ out.did # "none" => out.cpu.icf = TRUE
<1>1. CASE c.mid = "no"
  <2>1. PICK p \in {c} \cup Begin(c) : out = Outcome("none", None, None, p)
    BY <1>1 DEF StepCycle
  <2>2. p \in Cpus /\ p.icf = c.icf
    BY BeginCpu
  <2>. QED BY <1>1, <2>1, <2>2 DEF IsOut, Outcome
<1>2. CASE c.mid # "no"
  <2>1. PICK p \in Complete(c) : out = Outcome(c.mid, Touch(c), None, p)
    BY <1>2 DEF StepCycle
  <2>2. p \in Cpus /\ p.icf = TRUE
    BY CompleteCpu
  <2>3. c.mid \in {"insn", "irq"}
    BY <1>2 DEF Cpus
  <2>. QED BY <2>1, <2>2, <2>3 DEF IsOut, Outcome
<1>. QED BY <1>1, <1>2

LEMMA WholeOut ==
  ASSUME NEW c \in Cpus, NEW out \in Whole(c)
  PROVE  /\ out.did \in {"insn", "irq"} /\ out.cpu \in Cpus /\ out.cpu.mid = "no"
         /\ \E b \in Begin(c) : \E p \in Complete(b) : out = Outcome(b.mid, None, Touch(b), p)
<1>0. PICK b \in Begin(c) : \E p \in Complete(b) : out = Outcome(b.mid, None, Touch(b), p)
  BY DEF Whole
<1>1. PICK p \in Complete(b) : out = Outcome(b.mid, None, Touch(b), p)
  BY <1>0
<1>2. b \in Cpus /\ b.mid \in {"insn", "irq"}
  BY BeginCpu
<1>3. p \in Cpus /\ p.mid = "no"
  BY <1>2, CompleteCpu
<1>4. out.did = b.mid /\ out.cpu = p
  BY <1>1 DEF Outcome
<1>. QED BY <1>1, <1>2, <1>3, <1>4

\* Wherever c64_step_instruction begins, it ends at a boundary.
LEMMA StepInstructionOut ==
  ASSUME NEW c \in Cpus, NEW out \in StepInstruction(c)
  PROVE  IsOut(out) /\ out.did # "none" /\ out.cpu.mid = "no"
<1>1. CASE c.mid = "no"
  BY <1>1, WholeOut DEF StepInstruction, IsOut
<1>2. CASE c.mid # "no"
  <2>0. PICK d \in Complete(c) : \E o \in Whole(d) :
           out = [o EXCEPT !.did = IF c.mid = "irq" THEN "irq" ELSE o.did, !.before = Touch(c)]
    BY <1>2 DEF StepInstruction
  <2>1. PICK o \in Whole(d) :
           out = [o EXCEPT !.did = IF c.mid = "irq" THEN "irq" ELSE o.did, !.before = Touch(c)]
    BY <2>0
  <2>2. d \in Cpus
    BY CompleteCpu
  <2>3. /\ o.did \in {"insn", "irq"} /\ o.cpu \in Cpus /\ o.cpu.mid = "no"
        /\ \E did, before, after, p : o = Outcome(did, before, after, p)
    BY <2>2, WholeOut
  <2>4. out.cpu = o.cpu /\ out.did \in {o.did, "irq"}
    BY <2>1, <2>3 DEF Outcome
  <2>. QED BY <2>3, <2>4 DEF IsOut
<1>. QED BY <1>1, <1>2

-----------------------------------------------------------------------------
(* The events.                                                             *)

\* Publish folds Hear over one event or two.
LEMMA HearOne ==
  ASSUME NEW e, Publish(<<e>>)
  PROVE  told' = Hear(told, e)
<1>. PICK s : s = told
  OBVIOUS
<1>. DEFINE q == <<e>>
            G(it) == [t \in SUBSET (DOMAIN q) |->
                        IF t = {} THEN s ELSE Hear(it[t \ {Max(t)}], q[Max(t)])]
            g == [t \in SUBSET (DOMAIN q) |-> IF t = {} THEN s ELSE Hear(s, e)]
<1>1. DOMAIN q = {1} /\ q[1] = e
  OBVIOUS
<1>2. SUBSET (DOMAIN q) = {{}, {1}}
  BY <1>1
<1>3. Max({1}) = 1
  BY DEF Max
<1>. HIDE DEF q
<1>4. \A it : it = G(it) => it[{1}] = Hear(s, e)
  <2>. SUFFICES ASSUME NEW it, it = G(it) PROVE it[{1}] = Hear(s, e)
    OBVIOUS
  <2>1. {} \in SUBSET (DOMAIN q) /\ {1} \in SUBSET (DOMAIN q) /\ {1} # {} /\ {1} \ {1} = {}
    BY <1>2
  <2>2. it[{}] = s
    BY <2>1
  <2>3. it[{1}] = Hear(it[{1} \ {Max({1})}], q[Max({1})])
    BY <2>1
  <2>. QED BY <1>1, <1>3, <2>1, <2>2, <2>3
<1>5. g = G(g)
  <2>1. ASSUME NEW t \in SUBSET (DOMAIN q), t # {}
        PROVE  Hear(s, e) = Hear(g[t \ {Max(t)}], q[Max(t)])
    <3>1. t = {1}
      BY <1>2, <2>1
    <3>2. g[{1} \ {1}] = s
      BY <1>2
    <3>. QED BY <1>1, <1>3, <3>1, <3>2
  <2>. QED BY <2>1
<1>. HIDE DEF g
<1>6. told' = (CHOOSE it : it = G(it))[DOMAIN q]
  BY DEF Publish, FoldLeft, MapThenFoldSet, q
<1>7. (CHOOSE it : it = G(it)) = G(CHOOSE it : it = G(it))
  BY <1>5
<1>8. (CHOOSE it : it = G(it))[{1}] = Hear(s, e)
  BY <1>4, <1>7
<1>. HIDE DEF G
<1>. QED BY <1>1, <1>6, <1>8

LEMMA HearTwo ==
  ASSUME NEW e, NEW f, Publish(<<e, f>>)
  PROVE  told' = Hear(Hear(told, e), f)
<1>. PICK s : s = told
  OBVIOUS
<1>. DEFINE q == <<e, f>>
            G(it) == [t \in SUBSET (DOMAIN q) |->
                        IF t = {} THEN s ELSE Hear(it[t \ {Max(t)}], q[Max(t)])]
            g == [t \in SUBSET (DOMAIN q) |->
                    IF t = {} THEN s ELSE IF t = {1} THEN Hear(s, e)
                    ELSE IF t = {2} THEN Hear(s, f) ELSE Hear(Hear(s, e), f)]
<1>1. DOMAIN q = {1, 2} /\ q[1] = e /\ q[2] = f
  OBVIOUS
<1>. HIDE DEF q
<1>2. SUBSET (DOMAIN q) = {{}, {1}, {2}, {1, 2}}
  BY <1>1
<1>3. Max({1}) = 1 /\ Max({2}) = 2 /\ Max({1, 2}) = 2
  BY DEF Max
<1>4. {1} \ {1} = {} /\ {2} \ {2} = {} /\ {1, 2} \ {2} = {1} /\ {1, 2} # {} /\ {1} # {}
      /\ {2} # {} /\ {1} # {2} /\ {1, 2} # {1} /\ {1, 2} # {2}
  OBVIOUS
<1>5. \A it : it = G(it) => it[{1, 2}] = Hear(Hear(s, e), f)
  <2>. SUFFICES ASSUME NEW it, it = G(it) PROVE it[{1, 2}] = Hear(Hear(s, e), f)
    OBVIOUS
  <2>1. it[{}] = s
    BY <1>2
  <2>2. \A t \in SUBSET (DOMAIN q) : t # {} => it[t] = Hear(it[t \ {Max(t)}], q[Max(t)])
    OBVIOUS
  <2>3. {1} \in SUBSET (DOMAIN q) /\ {1, 2} \in SUBSET (DOMAIN q)
    BY <1>2
  <2>4. it[{1}] = Hear(it[{1} \ {Max({1})}], q[Max({1})])
    BY <1>4, <2>2, <2>3
  <2>5. it[{1, 2}] = Hear(it[{1, 2} \ {Max({1, 2})}], q[Max({1, 2})])
    BY <1>4, <2>2, <2>3
  <2>. QED BY <1>1, <1>3, <1>4, <2>1, <2>4, <2>5
<1>6. g = G(g)
  <2>1. g[{}] = s /\ g[{1}] = Hear(s, e) /\ g[{2}] = Hear(s, f)
        /\ g[{1, 2}] = Hear(Hear(s, e), f)
    BY <1>2, <1>4
  <2>2. ASSUME NEW t \in SUBSET (DOMAIN q), t # {}
        PROVE  g[t] = Hear(g[t \ {Max(t)}], q[Max(t)])
    <3>. HIDE DEF g
    <3>1. CASE t = {1}
      BY <1>1, <1>3, <1>4, <2>1, <3>1
    <3>2. CASE t = {2}
      BY <1>1, <1>3, <1>4, <2>1, <3>2
    <3>3. CASE t = {1, 2}
      BY <1>1, <1>3, <1>4, <2>1, <3>3
    <3>. QED BY <1>2, <2>2, <3>1, <3>2, <3>3
  <2>3. \A t \in SUBSET (DOMAIN q) :
          g[t] = IF t = {} THEN s ELSE Hear(g[t \ {Max(t)}], q[Max(t)])
    BY <2>1, <2>2
  <2>. QED BY <2>3
<1>. HIDE DEF g
<1>7. told' = (CHOOSE it : it = G(it))[DOMAIN q]
  BY DEF Publish, FoldLeft, MapThenFoldSet, q
<1>8. (CHOOSE it : it = G(it)) = G(CHOOSE it : it = G(it))
  BY <1>6
<1>9. (CHOOSE it : it = G(it))[{1, 2}] = Hear(Hear(s, e), f)
  BY <1>5, <1>8
<1>. HIDE DEF G
<1>. QED BY <1>1, <1>7, <1>9

\* What a client that hears these events believes.
LEMMA PublishTells ==
  /\ Publish(<<"RUNNING">>) => told' = "RUNNING"
  /\ Publish(<<"ERROR">>) => told' = "ERROR"
  /\ Publish(<<"PAUSED", "STATE_STOPPED">>) => told' = "PAUSED"
  /\ Publish(<<"RUN_COMPLETE", "STATE_STOPPED">>) => told' = "PAUSED"
  /\ Publish(<<"STEP_COMPLETE", "STATE_STOPPED">>) => told' = "PAUSED"
  /\ Publish(<<"STEP_COMPLETE", "STATE_RUNNING">>) => told' = "RUNNING"
  /\ Publish(<<"RESET_COMPLETE">>) => told' = "PAUSED"
  /\ Publish(<<"RESET_COMPLETE", "RUNNING">>) => told' = "RUNNING"
<1>1. \A t : /\ Hear(t, "RUNNING") = "RUNNING" /\ Hear(t, "ERROR") = "ERROR"
             /\ Hear(t, "PAUSED") = "PAUSED" /\ Hear(t, "RUN_COMPLETE") = "PAUSED"
             /\ Hear(t, "STEP_COMPLETE") = "PAUSED" /\ Hear(t, "RESET_COMPLETE") = "PAUSED"
  BY DEF Hear
<1>2. Hear("PAUSED", "STATE_STOPPED") = "PAUSED" /\ Hear("PAUSED", "STATE_RUNNING") = "RUNNING"
  BY DEF Hear
<1>. QED BY <1>1, <1>2, HearOne, HearTwo

-----------------------------------------------------------------------------
(* The invariant.                                                          *)

Kinds == CycleJobs \cup {"none", "insns", "over", "out"}
Commands == {[op |-> "quit"]} \cup UNION {s.cmds : s \in Scenarios}

\* The part of the types that the proofs need.
JobShape ==
  /\ job.k \in Kinds
  /\ job = [k |-> job.k, left |-> job.left, simple |-> job.simple, stop |-> job.stop,
            jsr |-> job.jsr, depth |-> job.depth, base |-> job.base, clean |-> job.clean,
            first |-> job.first]
Excuses == {"stop", "reset", "no"}
Shape ==
  cpu \in Cpus /\ JobShape /\ {suppress, alive} \subseteq BOOLEAN /\ shown \in Excuses
Fed == scenario \in Scenarios /\ queue \in Seq(Commands)

\* Nothing suppresses the look at a boundary without an excuse.
Protected == suppress /\ AtBoundary => shown # "no"

\* A loop over instructions is at a boundary from its first pass on.
Stepping == job.k \in {"insns", "over", "out"}
Aligned == Stepping /\ ~AtBoundary => job.first

\* A live worker runs or is paused, and a client has heard something.
Believes ==
  /\ told \in {"RUNNING", "PAUSED", "ERROR"}
  /\ alive => exec \in {"RUNNING", "PAUSED"}

Core == Shape /\ Protected /\ Aligned /\ Believes /\ EventsTellState
IInv == Core /\ Fed

LEMMA KnownCommand ==
  \A c \in Commands :
      /\ c.op \in CommandOps
      /\ c.op \in {"create", "update"} => c.def \in Definitions
      /\ c.op \in {"setExecute", "enable"} => c.on \in BOOLEAN
      /\ c.op = "setExecute" => c.addr \in Nat
BY CommandsKnown DEF Commands, CommandOps

\* A loop, or a command, that ends and tells what it leaves.
LEMMA Reported ==
  ASSUME cpu' \in Cpus, {suppress', alive'} \subseteq BOOLEAN, shown' \in Excuses,
         suppress' => shown' # "no", job' = NoJob,
         told' \in {"RUNNING", "PAUSED", "ERROR"},
         alive' => exec' \in {"RUNNING", "PAUSED"} /\ told' \in {exec', "ERROR"}
  PROVE  Core'
<1>1. JobShape'
  BY DEF JobShape, NoJob, Kinds
<1>2. Shape' /\ Protected' /\ Aligned' /\ Believes' /\ EventsTellState'
  BY <1>1 DEF Shape, Protected, Aligned, Stepping, NoJob, Believes, EventsTellState
<1>. QED BY <1>2 DEF Core

LEMMA PauseForCore ==
  ASSUME NEW why, PauseFor(why), cpu' \in Cpus, alive \in BOOLEAN, alive' = alive
  PROVE  Core'
BY Reported, PublishTells DEF PauseFor, MachineState, Excuses

LEMMA StepCompleteCore ==
  ASSUME NEW e, PublishStepComplete(e), exec' = e, cpu' \in Cpus, suppress' \in BOOLEAN,
         alive \in BOOLEAN, alive' = alive, alive => e \in {"RUNNING", "PAUSED"}
  PROVE  Core'
<1>1. e = "RUNNING" => told' = "RUNNING"
  BY PublishTells DEF PublishStepComplete, MachineState
<1>2. e # "RUNNING" => told' = "PAUSED"
  BY PublishTells DEF PublishStepComplete, MachineState
<1>. QED BY <1>1, <1>2, Reported DEF PublishStepComplete, Excuses

LEMMA RunCompleteCore ==
  ASSUME RunComplete, cpu' \in Cpus, suppress' \in BOOLEAN, alive \in BOOLEAN, alive' = alive
  PROVE  Core'
BY Reported, PublishTells DEF RunComplete, MachineState, Excuses

\* The machine, the job and the flags are left alone.
LEMMA Untouched ==
  ASSUME Core, UNCHANGED <<cpu, exec, suppress, job, shown, alive>>, told' \in {told, "ERROR"}
  PROVE  Core'
BY DEF Core, Shape, JobShape, Protected, Aligned, Stepping, AtBoundary, Believes, EventsTellState

-----------------------------------------------------------------------------
(* The loops.                                                              *)

\* A loop that goes on: one cycle or instruction further, the flag that hides
\* the boundary dropped with the instruction it was set for.
LEMMA GoesOn ==
  ASSUME Core, job.k # "none", NEW out,
         JobShape', job'.k = job.k, cpu' \in Cpus, cpu'.mid = out.cpu.mid,
         Stepping => out.cpu.mid = "no",
         suppress' \in BOOLEAN, Arrive(out),
         suppress' => suppress /\ out.did = "none" /\ cpu.mid = "no",
         UNCHANGED <<alive, exec, told>>
  PROVE  Core'
<1>1. Shape'
  BY DEF Core, Shape, Arrive, Excuses
<1>2. Protected' /\ Aligned'
  BY DEF Core, Protected, Aligned, Stepping, AtBoundary, Arrive
<1>3. Believes' /\ EventsTellState'
  BY DEF Core, Believes, EventsTellState, NoJob
<1>. QED BY <1>1, <1>2, <1>3 DEF Core

LEMMA StopsCore ==
  ASSUME Core, alive' = alive, BreakpointStop \/ BrkStop \/ TempStop
  PROVE  Core'
<1>1. cpu' = cpu /\ cpu \in Cpus /\ alive \in BOOLEAN
  BY DEF BreakpointStop, BrkStop, TempStop, StayPut, Core, Shape
<1>2. CASE BreakpointStop
  BY <1>1, <1>2, PauseForCore DEF BreakpointStop
<1>3. CASE BrkStop
  BY <1>1, <1>3, PauseForCore DEF BrkStop
<1>4. CASE TempStop
  BY <1>1, <1>4, StepCompleteCore DEF TempStop
<1>. QED BY <1>2, <1>3, <1>4

LEMMA LessLeft ==
  ASSUME JobShape,
         \/ job' = [job EXCEPT !.left = @ - 1]
         \/ job' = [job EXCEPT !.left = @ - 1, !.first = FALSE]
  PROVE  JobShape' /\ job'.k = job.k
BY DEF JobShape

LEMMA CycleOnCore ==
  ASSUME Core, alive' = alive, job.k \in CycleJobs, CycleOn
  PROVE  Core'
<1>. PICK out \in StepCycle(cpu) :
        /\ cpu' = [out.cpu EXCEPT !.icf = @ /\ ~Consumes]
        /\ \/ PauseFor("BREAKPOINT")
           \/ /\ suppress' = SuppressAfter(out)
              /\ \/ /\ job' = [job EXCEPT !.left = @ - 1]
                    /\ Arrive(out)
                    /\ Silent
                    /\ UNCHANGED exec
                 \/ RunComplete
  BY DEF CycleOn
<1>1. cpu \in Cpus /\ JobShape /\ suppress \in BOOLEAN /\ alive \in BOOLEAN
  BY DEF Core, Shape
<1>2. /\ IsOut(out)
      /\ out.did = "none" => cpu.mid = "no"
      /\ out.did # "none" => out.cpu.icf = TRUE
  BY <1>1, StepCycleOut
<1>3. cpu' \in Cpus /\ cpu'.mid = out.cpu.mid
  <2>1. out.cpu \in Cpus /\ out.cpu.icf \in BOOLEAN
    BY <1>2 DEF IsOut, Cpus
  <2>2. (out.cpu.icf /\ ~Consumes) \in BOOLEAN
    BY <2>1
  <2>. QED BY <2>1, <2>2 DEF Cpus
<1>4. CASE PauseFor("BREAKPOINT")
  BY <1>1, <1>3, <1>4, PauseForCore
<1>5. ASSUME suppress' = SuppressAfter(out)
      PROVE  suppress' \in BOOLEAN /\ (suppress' => suppress /\ out.did = "none" /\ cpu.mid = "no")
  BY <1>1, <1>2, <1>5 DEF SuppressAfter
<1>6. CASE suppress' = SuppressAfter(out) /\ RunComplete
  BY <1>1, <1>3, <1>5, <1>6, RunCompleteCore
<1>7. CASE /\ suppress' = SuppressAfter(out)
           /\ job' = [job EXCEPT !.left = @ - 1] /\ Arrive(out) /\ Silent /\ UNCHANGED exec
  <2>1. JobShape' /\ job'.k = job.k /\ job.k # "none"
    BY <1>1, <1>7, LessLeft DEF CycleJobs
  <2>2. told' = told /\ ~Stepping
    BY <1>7 DEF Silent, Stepping, CycleJobs
  <2>. QED BY <1>3, <1>5, <1>7, <2>1, <2>2, GoesOn
<1>. QED BY <1>4, <1>6, <1>7

LEMMA CycleLoopEndsCore ==
  ASSUME Core, alive' = alive, CycleLoopEnds
  PROVE  Core'
<1>1. /\ cpu' = cpu /\ cpu \in Cpus /\ alive \in BOOLEAN
      /\ suppress' = suppress /\ suppress \in BOOLEAN /\ shown \in Excuses
  BY DEF CycleLoopEnds, Core, Shape
<1>2. CASE job.k = "batch"
  <2>1. job' = NoJob /\ UNCHANGED <<exec, shown, told>>
    BY <1>2 DEF CycleLoopEnds, Silent
  <2>2. JobShape'
    BY <2>1 DEF JobShape, NoJob, Kinds
  <2>3. Shape' /\ Protected' /\ Aligned'
    BY <1>1, <2>1, <2>2 DEF Core, Shape, Protected, Aligned, Stepping, NoJob, AtBoundary
  <2>4. Believes' /\ EventsTellState'
    BY <1>2, <2>1 DEF Core, Believes, EventsTellState
  <2>. QED BY <2>3, <2>4 DEF Core
<1>3. CASE job.k = "cycles"
  BY <1>1, <1>3, RunCompleteCore DEF CycleLoopEnds
<1>4. CASE job.k \notin {"batch", "cycles"}
  <2>1. job' = NoJob /\ Publish(<<"ERROR">>) /\ shown' = "stop" /\ exec' = exec
    BY <1>4 DEF CycleLoopEnds
  <2>2. told' = "ERROR"
    BY <2>1, PublishTells
  <2>3. alive => exec \in {"RUNNING", "PAUSED"}
    BY DEF Core, Believes
  <2>. QED BY <1>1, <2>1, <2>2, <2>3, Reported DEF Excuses
<1>. QED BY <1>2, <1>3, <1>4

LEMMA InstructionLoopCore ==
  ASSUME Core, alive' = alive, InstructionLoop
  PROVE  Core'
<1>1. cpu \in Cpus /\ JobShape /\ suppress \in BOOLEAN /\ alive \in BOOLEAN
  BY DEF Core, Shape
<1>2. CASE BreakpointStop \/ BrkStop
  BY <1>2, StopsCore
<1>3. CASE PublishStepComplete(exec) /\ UNCHANGED <<cpu, exec, suppress>>
  <2>1. alive => exec \in {"RUNNING", "PAUSED"}
    BY DEF Core, Believes
  <2>. QED BY <1>1, <1>3, <2>1, StepCompleteCore
<1>4. CASE InstructionOn
  <2>. PICK out \in StepInstruction(cpu) :
          /\ cpu' = out.cpu
          /\ \/ PauseFor("BREAKPOINT")
             \/ /\ suppress' = FALSE
                /\ job' = [job EXCEPT !.left = @ - 1, !.first = FALSE]
                /\ Arrive(out) /\ Silent /\ UNCHANGED exec
    BY <1>4 DEF InstructionOn
  <2>1. cpu' \in Cpus /\ cpu'.mid = out.cpu.mid /\ out.cpu.mid = "no"
    BY <1>1, StepInstructionOut DEF IsOut
  <2>2. CASE PauseFor("BREAKPOINT")
    BY <1>1, <2>1, <2>2, PauseForCore
  <2>3. CASE /\ suppress' = FALSE
             /\ job' = [job EXCEPT !.left = @ - 1, !.first = FALSE]
             /\ Arrive(out) /\ Silent /\ UNCHANGED exec
    <3>1. JobShape' /\ job'.k = job.k /\ job.k # "none"
      BY <1>1, <2>3, LessLeft DEF InstructionLoop
    <3>2. told' = told
      BY <2>3 DEF Silent
    <3>. QED BY <2>1, <2>3, <3>1, <3>2, GoesOn
  <2>. QED BY <2>2, <2>3
<1>. QED BY <1>2, <1>3, <1>4 DEF InstructionLoop

LEMMA FlowLoopCore ==
  ASSUME Core, alive' = alive, FlowLoop
  PROVE  Core'
<1>1. cpu \in Cpus /\ JobShape /\ shown \in Excuses /\ alive \in BOOLEAN
  BY DEF Core, Shape
<1>2. CASE BreakpointStop \/ BrkStop
  BY <1>2, StopsCore
<1>3. CASE FlowOn
  <2>. PICK out \in StepInstruction(cpu), opcode \in Opcodes :
          /\ cpu' = out.cpu
          /\ \/ PauseFor("BREAKPOINT")
             \/ /\ suppress' = FALSE
                /\ \/ PublishStepComplete(exec) /\ UNCHANGED exec
                   \/ /\ Arrive(out)
                      /\ \/ /\ job' = [job EXCEPT !.left = @ - 1, !.first = FALSE,
                                                  !.jsr = Jsr(out, opcode),
                                                  !.depth = Depth(out, opcode)]
                            /\ Silent /\ UNCHANGED exec
                         \/ job' = NoJob /\ exec' = "RUNNING" /\ Publish(<<"RUNNING">>)
    BY <1>3 DEF FlowOn
  <2>1. cpu' \in Cpus /\ cpu'.mid = out.cpu.mid /\ out.cpu.mid = "no"
    BY <1>1, StepInstructionOut DEF IsOut
  <2>2. CASE PauseFor("BREAKPOINT")
    BY <1>1, <2>1, <2>2, PauseForCore
  <2>3. CASE suppress' = FALSE /\ PublishStepComplete(exec) /\ UNCHANGED exec
    <3>1. alive => exec \in {"RUNNING", "PAUSED"}
      BY DEF Core, Believes
    <3>. QED BY <1>1, <2>1, <2>3, <3>1, StepCompleteCore
  <2>4. CASE /\ suppress' = FALSE /\ Arrive(out)
             /\ job' = [job EXCEPT !.left = @ - 1, !.first = FALSE,
                                   !.jsr = Jsr(out, opcode), !.depth = Depth(out, opcode)]
             /\ Silent /\ UNCHANGED exec
    <3>1. JobShape' /\ job'.k = job.k /\ job.k # "none"
      BY <1>1, <2>4 DEF JobShape, FlowLoop, InFlow
    <3>2. told' = told
      BY <2>4 DEF Silent
    <3>. QED BY <2>1, <2>4, <3>1, <3>2, GoesOn
  <2>5. CASE /\ suppress' = FALSE /\ Arrive(out)
             /\ job' = NoJob /\ exec' = "RUNNING" /\ Publish(<<"RUNNING">>)
    <3>1. told' = "RUNNING" /\ shown' \in Excuses
      BY <1>1, <2>5, PublishTells DEF Arrive, Excuses
    <3>2. JobShape'
      BY <2>5 DEF JobShape, NoJob, Kinds
    <3>3. Shape' /\ Protected' /\ Aligned' /\ Believes' /\ EventsTellState'
      BY <1>1, <2>1, <2>5, <3>1, <3>2
         DEF Shape, Protected, Aligned, Stepping, NoJob, Believes, EventsTellState
    <3>. QED BY <3>3 DEF Core
  <2>. QED BY <2>2, <2>3, <2>4, <2>5
<1>. QED BY <1>2, <1>3 DEF FlowLoop

LEMMA FlowAbortCore ==
  ASSUME Core, FlowAbort
  PROVE  Core'
<1>1. /\ cpu' = cpu /\ cpu \in Cpus /\ alive \in BOOLEAN /\ shown \in Excuses
      /\ suppress' = suppress /\ suppress \in BOOLEAN /\ Protected /\ Believes
  BY DEF FlowAbort, Core, Shape
<1>. DEFINE c == Head(queue).op
<1>2. CASE c = "quit"
  <2>1. alive' = FALSE /\ job' = NoJob /\ UNCHANGED <<told, shown>>
    BY <1>2 DEF FlowAbort, FlowQuit, Silent
  <2>2. JobShape'
    BY <2>1 DEF JobShape, NoJob, Kinds
  <2>3. Shape' /\ Protected' /\ Aligned'
    BY <1>1, <2>1, <2>2 DEF Shape, Protected, Aligned, Stepping, NoJob, AtBoundary
  <2>4. Believes' /\ EventsTellState'
    BY <1>1, <2>1 DEF Believes, EventsTellState
  <2>. QED BY <2>3, <2>4 DEF Core
<1>3. CASE c = "pause"
  BY <1>1, <1>3, Reported, PublishTells DEF FlowAbort, MachineState, Excuses
<1>4. CASE c = "run"
  <2>1. /\ exec' = "RUNNING" /\ Publish(<<"RUNNING">>) /\ job' = NoJob
        /\ alive' = alive /\ shown' = shown
    BY <1>4 DEF FlowAbort
  <2>2. told' = "RUNNING"
    BY <2>1, PublishTells
  <2>3. JobShape'
    BY <2>1 DEF JobShape, NoJob, Kinds
  <2>4. Shape' /\ Protected' /\ Aligned'
    BY <1>1, <2>1, <2>3 DEF Shape, Protected, Aligned, Stepping, NoJob, AtBoundary
  <2>5. Believes' /\ EventsTellState'
    BY <2>1, <2>2 DEF Believes, EventsTellState
  <2>. QED BY <2>4, <2>5 DEF Core
<1>5. CASE c \notin {"quit", "pause", "run"}
  <2>1. UNCHANGED <<told, alive, exec, job, shown>>
    BY <1>5 DEF FlowAbort, Silent
  <2>. QED BY <1>1, <2>1, Untouched
<1>. QED BY <1>2, <1>3, <1>4, <1>5

LEMMA LoopCore ==
  ASSUME Core, Loop
  PROVE  Core'
<1>1. alive' = alive
  BY DEF Loop
<1>2. CASE CycleLoop
  <2>1. job.k \in CycleJobs
    BY <1>2 DEF CycleLoop, InCycleLoop
  <2>. QED BY <1>1, <1>2, <2>1, StopsCore, CycleOnCore DEF CycleLoop
<1>. QED BY <1>1, <1>2, CycleLoopEndsCore, InstructionLoopCore, FlowLoopCore DEF Loop

-----------------------------------------------------------------------------
(* The commands.                                                           *)

\* A command that leaves the machine and its flags alone and tells its state.
LEMMA Restated ==
  ASSUME Core, UNCHANGED <<cpu, suppress, job, shown, alive>>,
         exec' \in {"RUNNING", "PAUSED"}, told' = exec'
  PROVE  Core'
<1>1. Shape' /\ Protected' /\ Aligned'
  BY DEF Core, Shape, JobShape, Protected, Aligned, Stepping, AtBoundary
<1>2. Believes' /\ EventsTellState'
  BY DEF Believes, EventsTellState
<1>. QED BY <1>1, <1>2 DEF Core

\* A command that starts a loop: it is silent until the loop ends.
LEMMA Started ==
  ASSUME Core, UNCHANGED <<cpu, alive, told>>, JobShape', job'.k \notin {"none", "batch"},
         alive => exec' \in {"RUNNING", "PAUSED"}, suppress' \in BOOLEAN,
         shown' = "stop" \/ (shown' = shown /\ (suppress' => suppress)),
         Stepping' => job'.first
  PROVE  Core'
<1>1. Shape' /\ Protected' /\ Aligned'
  BY DEF Core, Shape, Excuses, Protected, Aligned, AtBoundary
<1>2. Believes' /\ EventsTellState'
  BY DEF Core, Believes, EventsTellState, NoJob
<1>. QED BY <1>1, <1>2 DEF Core

LEMMA StepByCore ==
  ASSUME Core, NEW outs, \A out \in outs : IsOut(out), StepBy(outs)
  PROVE  Core'
<1>1. PICK out \in outs : cpu' = out.cpu
  BY DEF StepBy
<1>2. cpu' \in Cpus /\ alive \in BOOLEAN
  BY <1>1 DEF IsOut, Core, Shape
<1>. QED BY <1>2, StepCompleteCore DEF StepBy

LEMMA StartLoopCore ==
  ASSUME Core, NEW k \in {"cycles", "insns", "frame", "raster"}, NEW n, NEW e, NEW sup,
         StartLoop(k, n, e, sup), e \in {exec, "PAUSED"}, sup \in {suppress, FALSE}
  PROVE  Core'
<1>1. job' = [NoJob EXCEPT !.k = k, !.left = n, !.first = (k = "insns")]
  BY DEF StartLoop, Begins
<1>2. JobShape' /\ job'.k \notin {"none", "batch"} /\ (Stepping' => job'.first)
  BY <1>1 DEF JobShape, NoJob, Kinds, CycleJobs, Stepping
<1>3. /\ UNCHANGED <<cpu, alive, told, shown>> /\ exec' = e /\ suppress' = sup
      /\ suppress \in BOOLEAN
  BY DEF StartLoop, Silent, Core, Shape
<1>4. alive => exec' \in {"RUNNING", "PAUSED"}
  BY <1>3 DEF Core, Believes
<1>5. suppress' \in BOOLEAN /\ (suppress' => suppress)
  <2>1. CASE sup = suppress
    BY <1>3, <2>1
  <2>2. CASE sup = FALSE
    BY <1>3, <2>2
  <2>. QED BY <2>1, <2>2
<1>. QED BY <1>2, <1>3, <1>4, <1>5, Started

LEMMA StartFlowCore ==
  ASSUME Core, NEW k \in {"over", "out"}, NEW stop, NEW n, NEW clean,
         StartFlow(k, stop, n, clean)
  PROVE  Core'
<1>1. JobShape' /\ job'.k \notin {"none", "batch"} /\ job'.first
  BY DEF StartFlow, JobShape, NoJob, Kinds, CycleJobs
<1>2. UNCHANGED <<cpu, alive, told>> /\ exec' = "PAUSED" /\ suppress' \in BOOLEAN /\ shown' = "stop"
  BY DEF StartFlow, Silent
<1>. QED BY <1>1, <1>2, Started

LEMMA ResetCore ==
  ASSUME Core, job = NoJob, NEW c, Reset(c)
  PROVE  Core'
<1>. DEFINE resumes == IF c.resume = "keep" THEN exec = "RUNNING" ELSE c.resume = "run"
            new == [pc |-> Vector, stack |-> <<>>, mid |-> "no", icf |-> FALSE]
<1>1. new \in Cpus
  BY ProgramShape DEF Cpus
<1>2. cpu' = new /\ UNCHANGED <<suppress, job, alive>>
      /\ shown' = (IF ~resumes THEN "stop" ELSE IF suppress THEN "reset" ELSE "no")
      /\ Publish(ResetEvents(resumes)) /\ exec' = IF resumes THEN "RUNNING" ELSE "PAUSED"
  BY DEF Reset
<1>. HIDE DEF resumes, new
<1>3. told' = exec'
  BY <1>2, PublishTells DEF ResetEvents
<1>4. suppress \in BOOLEAN /\ alive \in BOOLEAN
  BY DEF Core, Shape
<1>5. shown' \in Excuses /\ (suppress' => shown' # "no")
  BY <1>2 DEF Excuses
<1>. QED BY <1>1, <1>2, <1>3, <1>4, <1>5, Reported

\* The commands on the table: only an error is told.
LEMMA EntryCore ==
  ASSUME Core, NEW t, NEW n,
         Entry(t, n, Silent) \/ Entry(t, n, Publish(<<"ERROR">>))
  PROVE  Core'
<1>1. UNCHANGED <<cpu, exec, suppress, job, shown, alive>>
  BY DEF Entry
<1>2. told' \in {told, "ERROR"}
  BY PublishTells DEF Entry, Silent
<1>. QED BY <1>1, <1>2, Untouched

LEMMA AddCore ==
  ASSUME Core, NEW def, Add(def)
  PROVE  Core'
BY EntryCore DEF Add, Refuse

LEMMA TableCore ==
  ASSUME Core, NEW c,
         \/ SetExecute(c) \/ Update(c) \/ Duplicate(c) \/ Clear(c) \/ ClearAll
         \/ Enable(c) \/ Rearm
  PROVE  Core'
<1>1. CASE SetExecute(c)
  BY <1>1, AddCore, EntryCore DEF SetExecute
<1>2. CASE Update(c)
  BY <1>2, EntryCore DEF Update, OfId, Refuse
<1>3. CASE Duplicate(c)
  BY <1>3, AddCore, EntryCore DEF Duplicate, OfId
<1>4. CASE Clear(c)
  BY <1>4, EntryCore DEF Clear, OfId
<1>5. CASE ClearAll
  BY <1>5, EntryCore DEF ClearAll
<1>6. CASE Enable(c)
  BY <1>6, EntryCore DEF Enable, OfId
<1>7. CASE Rearm
  BY <1>7, EntryCore DEF Rearm
<1>. QED BY <1>1, <1>2, <1>3, <1>4, <1>5, <1>6, <1>7

LEMMA ProcessCore ==
  ASSUME Core, job = NoJob, NEW c, c.op \in CommandOps, Process(c)
  PROVE  Core'
<1>1. cpu \in Cpus /\ alive \in BOOLEAN /\ suppress \in BOOLEAN
  BY DEF Core, Shape
<1>2. CASE c.op = "quit"
  <2>1. /\ alive' = FALSE /\ UNCHANGED <<cpu, suppress, job, shown, told>>
    BY <1>2 DEF Process, Quit, Silent
  <2>. QED BY <2>1 DEF Core, Shape, JobShape, Protected, Aligned, Stepping, AtBoundary, Believes,
                       EventsTellState
<1>3. CASE c.op = "run"
  <2>1. Run
    BY <1>3 DEF Process
  <2>. QED BY <2>1, PublishTells, Restated DEF Run
<1>4. CASE c.op = "pause"
  <2>1. Pause
    BY <1>4 DEF Process
  <2>. QED BY <1>1, <2>1, PublishTells, Reported DEF Pause, MachineState, Excuses
<1>5. CASE c.op = "reset"
  BY <1>5, ResetCore DEF Process
<1>6. CASE c.op = "stepCycle"
  <2>1. StepBy(StepCycle(cpu))
    BY <1>6 DEF Process
  <2>2. \A out \in StepCycle(cpu) : IsOut(out)
    BY <1>1, StepCycleOut
  <2>. QED BY <2>1, <2>2, StepByCore
<1>7. \A out \in StepInstruction(cpu) : IsOut(out)
  BY <1>1, StepInstructionOut
<1>8. CASE c.op = "stepInstruction"
  <2>1. StepBy(StepInstruction(cpu))
    BY <1>8 DEF Process
  <2>. QED BY <1>7, <2>1, StepByCore
<1>9. CASE c.op = "stepOver"
  <2>1. StepOver
    BY <1>9 DEF Process
  <2>2. CASE StepBy(StepInstruction(cpu))
    BY <1>7, <2>2, StepByCore
  <2>3. CASE \E stop : StartFlow("over", stop, 0, AtBoundary)
    BY <2>3, StartFlowCore
  <2>. QED BY <2>1, <2>2, <2>3 DEF StepOver
<1>10. CASE c.op = "stepOut"
  <2>1. StepOut
    BY <1>10 DEF Process
  <2>. QED BY <2>1, StartFlowCore DEF StepOut
<1>11. CASE c.op = "runTo"
  <2>1. RunToCursor(c)
    BY <1>11 DEF Process
  <2>. QED BY <2>1, PublishTells, Restated DEF RunToCursor
<1>12. CASE c.op = "runCycles"
  <2>1. StartLoop("cycles", c.n, exec, suppress)
    BY <1>12 DEF Process
  <2>. QED BY <2>1, StartLoopCore
<1>13. CASE c.op = "runInstructions"
  <2>1. StartLoop("insns", c.n, "PAUSED", suppress)
    BY <1>13 DEF Process
  <2>. QED BY <2>1, StartLoopCore
<1>14. CASE c.op = "stepFrame"
  <2>1. StartLoop("frame", GuardCycles, "PAUSED", FALSE)
    BY <1>14 DEF Process
  <2>. QED BY <2>1, StartLoopCore
<1>15. CASE c.op = "runToRaster"
  <2>1. StartLoop("raster", GuardCycles, "PAUSED", FALSE)
    BY <1>15 DEF Process
  <2>. QED BY <2>1, StartLoopCore
<1>16. CASE c.op = "create"
  <2>1. Add(c.def)
    BY <1>16 DEF Process
  <2>. QED BY <2>1, AddCore
<1>17. CASE c.op = "setExecute"
  BY <1>17, TableCore DEF Process
<1>18. CASE c.op = "update"
  BY <1>18, TableCore DEF Process
<1>19. CASE c.op = "duplicate"
  BY <1>19, TableCore DEF Process
<1>20. CASE c.op = "clear"
  BY <1>20, TableCore DEF Process
<1>21. CASE c.op = "clearAll"
  BY <1>21, TableCore DEF Process
<1>22. CASE c.op = "enable"
  BY <1>22, TableCore DEF Process
<1>23. CASE c.op = "rearm"
  BY <1>23, TableCore DEF Process
<1>. QED BY <1>2, <1>3, <1>4, <1>5, <1>6, <1>8, <1>9, <1>10, <1>11, <1>12, <1>13, <1>14,
            <1>15, <1>16, <1>17, <1>18, <1>19, <1>20, <1>21, <1>22, <1>23 DEF CommandOps

-----------------------------------------------------------------------------
(* The theorems.                                                           *)

LEMMA Initially == Init => IInv
<1>. SUFFICES ASSUME Init PROVE IInv
  OBVIOUS
<1>1. cpu \in Cpus /\ JobShape
  BY ProgramShape DEF Init, Cpus, JobShape, NoJob, Kinds
<1>2. Core
  BY <1>1 DEF Init, Core, Shape, Excuses, Protected, Aligned, AtBoundary, Believes, EventsTellState
<1>3. Fed
  BY DEF Init, Fed
<1>. QED BY <1>2, <1>3 DEF IInv

LEMMA Inductive == IInv /\ [Next]_vars => IInv'
<1>. SUFFICES ASSUME IInv, [Next]_vars PROVE IInv'
  OBVIOUS
<1>1. Core /\ Fed /\ scenario \in Scenarios /\ queue \in Seq(Commands)
  BY DEF IInv, Fed
<1>2. CASE TakeCommand
  <2>1. Head(queue) \in Commands /\ Tail(queue) \in Seq(Commands)
    BY <1>1, <1>2 DEF TakeCommand
  <2>2. Core'
    BY <1>1, <1>2, <2>1, KnownCommand, ProcessCore DEF TakeCommand, AtTop
  <2>3. Fed'
    BY <1>1, <1>2, <2>1 DEF TakeCommand, Fed
  <2>. QED BY <2>2, <2>3 DEF IInv
<1>3. CASE StartBatch
  <2>1. JobShape' /\ job'.k = "batch"
    BY <1>3 DEF StartBatch, JobShape, NoJob, Kinds, CycleJobs
  <2>2. Shape' /\ Protected' /\ Aligned'
    BY <1>1, <1>3, <2>1 DEF StartBatch, Core, Shape, Protected, Aligned, Stepping, AtBoundary
  <2>3. Believes' /\ EventsTellState'
    BY <1>1, <1>3 DEF StartBatch, AtTop, Core, Believes, EventsTellState
  <2>4. Fed'
    BY <1>1, <1>3 DEF StartBatch, client, Fed
  <2>. QED BY <2>2, <2>3, <2>4 DEF IInv, Core
<1>4. CASE Loop
  <2>1. Fed'
    BY <1>1, <1>4 DEF Loop, client, Fed
  <2>. QED BY <1>1, <1>4, <2>1, LoopCore DEF IInv
<1>5. CASE FlowAbort
  <2>1. Fed'
    BY <1>1, <1>5 DEF FlowAbort, Fed
  <2>. QED BY <1>1, <1>5, <2>1, FlowAbortCore DEF IInv
<1>6. CASE Exit
  <2>1. UNCHANGED <<cpu, exec, suppress, job, shown, alive, told, scenario, queue>>
    BY <1>6 DEF Exit, client
  <2>. QED BY <1>1, <2>1, Untouched DEF IInv, Fed
<1>7. CASE (\E c \in scenario.cmds : Post(c)) \/ Stop
  <2>1. UNCHANGED <<cpu, exec, suppress, job, shown, alive, told, scenario>>
    BY <1>7 DEF Post, Stop
  <2>2. \A c \in scenario.cmds : c \in Commands
    BY <1>1 DEF Commands
  <2>3. [op |-> "quit"] \in Commands
    BY DEF Commands
  <2>4. queue' \in Seq(Commands)
    <3>1. CASE Stop
      <4>. DEFINE q == [op |-> "quit"]
      <4>. HIDE DEF q
      <4>1. q \in Commands /\ (queue' = Append(queue, q) \/ queue' = queue)
        BY <2>3, <3>1 DEF Stop, q
      <4>. QED BY <1>1, <4>1
    <3>. QED BY <1>1, <1>7, <2>2, <3>1 DEF Post
  <2>. QED BY <1>1, <2>1, <2>4, Untouched DEF IInv, Fed
<1>8. CASE UNCHANGED vars
  BY <1>1, <1>8, Untouched DEF vars, IInv, Fed
<1>. QED BY <1>2, <1>3, <1>4, <1>5, <1>6, <1>7, <1>8 DEF Next, Worker

LEMMA Invariant == Spec => []IInv
<1>1. Init => IInv BY Initially
<1>2. IInv /\ [Next]_vars => IInv' BY Inductive
<1>. QED BY <1>1, <1>2, PTL DEF Spec

\* The events that runtime_thread.c has published tell a client whether the
\* machine runs, whenever the worker is between loops or runs free: for every
\* program, every table of breakpoints and every sequence of commands.
THEOREM TellsItsState == Spec => []EventsTellState
<1>1. IInv => EventsTellState
  BY DEF IInv, Core
<1>. QED BY <1>1, Invariant, PTL

\* No loop of runtime_thread.c executes an instruction under an armed execute
\* breakpoint unless a stop at it was reported or a step from it asked for, but
\* for the two ways the code has: a reset that resumes with suppress_execute_bp
\* still set, and the first c64_step_instruction of a run-instructions, step over
\* or step out that began inside an instruction.
THEOREM PassesNoBreakpoint == Spec => NoBreakpointPassed
<1>. DEFINE Excused == IF AtBoundary THEN shown # "no" \/ ~Stops(bps, "x", cpu.pc)
                       ELSE job.k \in CycleJobs \/ job.first
            Passed == job # NoJob /\ cpu' # cpu => Excused
<1>1. ASSUME IInv, Next PROVE Passed
  <2>. SUFFICES ASSUME job # NoJob, cpu' # cpu PROVE Excused
    OBVIOUS
  <2>1. Protected /\ Aligned
    BY <1>1 DEF IInv, Core
  <2>2. CASE ~LookStops /\ (job.k \in CycleJobs \/ Stepping)
    BY <2>1, <2>2 DEF LookStops, Look, Protected, Aligned
  <2>3. CASE TakeCommand \/ StartBatch \/ Exit
    BY <2>3 DEF TakeCommand, StartBatch, Exit, AtTop
  <2>4. CASE FlowAbort \/ Stop \/ \E c \in scenario.cmds : Post(c)
    BY <2>4 DEF FlowAbort, Stop, Post
  <2>5. CASE Loop
    <3>1. CASE BreakpointStop \/ BrkStop \/ TempStop
      BY <3>1 DEF BreakpointStop, BrkStop, TempStop, StayPut
    <3>2. CASE CycleLoop /\ CycleOn
      BY <2>2, <3>2 DEF CycleLoop, InCycleLoop, CycleOn
    <3>3. CASE InstructionLoop /\ InstructionOn
      BY <2>2, <3>3 DEF InstructionLoop, InstructionOn, Stepping
    <3>4. CASE FlowLoop /\ FlowOn
      BY <2>2, <3>4 DEF FlowLoop, InFlow, FlowOn, Stepping
    <3>5. CASE CycleLoopEnds \/ UNCHANGED cpu
      BY <3>5 DEF CycleLoopEnds
    <3>. QED BY <2>5, <3>1, <3>2, <3>3, <3>4, <3>5 DEF Loop, CycleLoop, InstructionLoop, FlowLoop
  <2>. QED BY <1>1, <2>3, <2>4, <2>5 DEF Next, Worker
<1>2. IInv /\ [Next]_vars => [Passed]_vars
  BY <1>1
<1>3. Spec => [][Passed]_vars
  BY <1>2, Invariant, PTL DEF Spec
<1>. QED BY <1>3 DEF NoBreakpointPassed

-----------------------------------------------------------------------------
(* Step over and step out: what their counters count.  Frames are numbered *)
(* from the bottom of the stack, so that a push or a pull renumbers none.  *)

FrameAt(st, p) == st[Len(st) + 1 - p]
Irqs(st, n) == {p \in n + 1 .. Len(st) : FrameAt(st, p).kind = "irq"}
Calls(st, n) ==
  {p \in n + 1 .. Len(st) :
      /\ FrameAt(st, p).kind = "call"
      /\ \A q \in n + 1 .. p - 1 : FrameAt(st, q).kind # "irq"}

LEMMA FramesFinite ==
  ASSUME NEW st \in Seq(Frames), NEW n \in Nat
  PROVE  /\ IsFiniteSet(Irqs(st, n)) /\ Cardinality(Irqs(st, n)) \in Nat
         /\ IsFiniteSet(Calls(st, n)) /\ Cardinality(Calls(st, n)) \in Nat
<1>1. IsFiniteSet(n + 1 .. Len(st))
  BY FS_Interval
<1>2. Irqs(st, n) \subseteq n + 1 .. Len(st) /\ Calls(st, n) \subseteq n + 1 .. Len(st)
  BY DEF Irqs, Calls
<1>3. IsFiniteSet(Irqs(st, n)) /\ IsFiniteSet(Calls(st, n))
  BY <1>1, <1>2, FS_Subset
<1>. QED BY <1>3, FS_CardinalityType

LEMMA FramePushed ==
  ASSUME NEW st \in Seq(Frames), NEW f \in Frames
  PROVE  LET up == <<f>> \o st IN
         /\ up \in Seq(Frames) /\ Len(up) = Len(st) + 1 /\ FrameAt(up, Len(st) + 1) = f
         /\ \A p \in 1 .. Len(st) : FrameAt(up, p) = FrameAt(st, p)
<1>. DEFINE up == <<f>> \o st
<1>1. up \in Seq(Frames) /\ Len(up) = Len(st) + 1
  OBVIOUS
<1>2. \A i \in 1 .. Len(st) + 1 : up[i] = IF i <= 1 THEN f ELSE st[i - 1]
  OBVIOUS
<1>. HIDE DEF up
<1>3. FrameAt(up, Len(st) + 1) = f
  BY <1>1, <1>2 DEF FrameAt
<1>4. ASSUME NEW p \in 1 .. Len(st) PROVE FrameAt(up, p) = FrameAt(st, p)
  <2>1. Len(up) + 1 - p \in 1 .. Len(st) + 1 /\ ~(Len(up) + 1 - p <= 1)
        /\ (Len(up) + 1 - p) - 1 = Len(st) + 1 - p
    BY <1>1
  <2>. QED BY <1>2, <2>1 DEF FrameAt
<1>. QED BY <1>1, <1>3, <1>4 DEF up

LEMMA FramePulled ==
  ASSUME NEW st \in Seq(Frames), st # <<>>
  PROVE  /\ Tail(st) \in Seq(Frames) /\ Len(Tail(st)) = Len(st) - 1 /\ Len(st) >= 1
         /\ FrameAt(st, Len(st)) = Head(st)
         /\ \A p \in 1 .. Len(st) - 1 : FrameAt(Tail(st), p) = FrameAt(st, p)
<1>1. Tail(st) \in Seq(Frames) /\ Len(Tail(st)) = Len(st) - 1 /\ Len(st) >= 1
  OBVIOUS
<1>2. \A i \in 1 .. Len(st) - 1 : Tail(st)[i] = st[i + 1]
  OBVIOUS
<1>3. FrameAt(st, Len(st)) = Head(st)
  BY <1>1 DEF FrameAt
<1>4. ASSUME NEW p \in 1 .. Len(st) - 1 PROVE FrameAt(Tail(st), p) = FrameAt(st, p)
  <2>1. /\ Len(Tail(st)) + 1 - p \in 1 .. Len(st) - 1
        /\ (Len(Tail(st)) + 1 - p) + 1 = Len(st) + 1 - p
    BY <1>1
  <2>. QED BY <1>2, <2>1 DEF FrameAt
<1>. QED BY <1>1, <1>3, <1>4

\* One frame on top of a stack, seen from above the first n frames.
OneMore(st, up, f) ==
  /\ Len(up) = Len(st) + 1 /\ FrameAt(up, Len(st) + 1) = f
  /\ \A p \in 1 .. Len(st) : FrameAt(up, p) = FrameAt(st, p)

LEMMA CountOneMore ==
  ASSUME NEW st \in Seq(Frames), NEW up \in Seq(Frames), NEW f \in Frames, OneMore(st, up, f),
         NEW n \in Nat, n <= Len(st)
  PROVE  /\ Cardinality(Irqs(up, n)) = Cardinality(Irqs(st, n)) + (IF f.kind = "irq" THEN 1 ELSE 0)
         /\ Cardinality(Calls(up, n)) = Cardinality(Calls(st, n))
              + (IF f.kind = "call" /\ Cardinality(Irqs(st, n)) = 0 THEN 1 ELSE 0)
<1>. DEFINE top == Len(st) + 1
<1>0. Len(st) \in Nat /\ Len(up) = top /\ FrameAt(up, top) = f
      /\ \A p \in n + 1 .. Len(st) : FrameAt(up, p) = FrameAt(st, p)
  BY DEF OneMore
<1>1. n + 1 .. Len(up) = (n + 1 .. Len(st)) \cup {top} /\ top \notin n + 1 .. Len(st)
  BY <1>0
<1>2. top \notin Irqs(st, n) /\ top \notin Calls(st, n)
  BY <1>1 DEF Irqs, Calls
<1>3. Irqs(up, n) = Irqs(st, n) \cup (IF f.kind = "irq" THEN {top} ELSE {})
  BY <1>0, <1>1 DEF Irqs
<1>4. Irqs(st, n) = {} <=> \A q \in n + 1 .. Len(st) : FrameAt(st, q).kind # "irq"
  BY DEF Irqs
<1>5. Calls(up, n) = Calls(st, n) \cup (IF f.kind = "call" /\ Irqs(st, n) = {} THEN {top} ELSE {})
  <2>1. ASSUME NEW p \in n + 1 .. Len(st)
        PROVE  p \in Calls(up, n) <=> p \in Calls(st, n)
    <3>1. \A q \in n + 1 .. p - 1 : FrameAt(up, q) = FrameAt(st, q)
      BY <1>0
    <3>. QED BY <1>0, <1>1, <3>1 DEF Calls
  <2>2. top \in Calls(up, n) <=> f.kind = "call" /\ Irqs(st, n) = {}
    <3>1. top - 1 = Len(st)
      BY <1>0
    <3>. QED BY <1>0, <1>1, <1>4, <3>1 DEF Calls
  <2>3. Calls(up, n) \subseteq (n + 1 .. Len(st)) \cup {top} /\ Calls(st, n) \subseteq n + 1 .. Len(st)
    BY <1>1 DEF Calls
  <2>. HIDE DEF top
  <2>. QED BY <2>1, <2>2, <2>3
<1>6. /\ IsFiniteSet(Irqs(st, n)) /\ Cardinality(Irqs(st, n)) \in Nat
      /\ IsFiniteSet(Calls(st, n)) /\ Cardinality(Calls(st, n)) \in Nat
  BY FramesFinite
<1>7. Irqs(st, n) = {} <=> Cardinality(Irqs(st, n)) = 0
  BY <1>6, FS_EmptySet
<1>. HIDE DEF top
<1>8. Cardinality(Irqs(up, n)) = Cardinality(Irqs(st, n)) + (IF f.kind = "irq" THEN 1 ELSE 0)
  <2>1. CASE f.kind = "irq"
    BY <1>2, <1>3, <1>6, <2>1, FS_AddElement
  <2>2. CASE f.kind # "irq"
    BY <1>3, <1>6, <2>2
  <2>. QED BY <2>1, <2>2
<1>9. Cardinality(Calls(up, n)) = Cardinality(Calls(st, n))
         + (IF f.kind = "call" /\ Cardinality(Irqs(st, n)) = 0 THEN 1 ELSE 0)
  <2>1. CASE f.kind = "call" /\ Irqs(st, n) = {}
    BY <1>2, <1>5, <1>6, <1>7, <2>1, FS_AddElement
  <2>2. CASE ~(f.kind = "call" /\ Irqs(st, n) = {})
    <3>1. Calls(up, n) = Calls(st, n)
      BY <1>5, <2>2
    <3>2. ~(f.kind = "call" /\ Cardinality(Irqs(st, n)) = 0)
      BY <1>7, <2>2
    <3>. QED BY <1>6, <3>1, <3>2
  <2>. QED BY <2>1, <2>2
<1>. QED BY <1>8, <1>9

\* What an instruction, or an interrupt, that begins at a boundary of a well
\* nested program does to the stack.
Entered(c, p, kind, ret) == p.stack = <<[kind |-> kind, ret |-> ret]>> \o c.stack
Returned(c, p) == c.stack # <<>> /\ p.stack = Tail(c.stack) /\ p.pc = Head(c.stack).ret

LEMMA InstructionEffect ==
  ASSUME cpu \in Cpus, AtBoundary, WellNested, NEW out \in StepInstruction(cpu)
  PROVE  /\ out.cpu \in Cpus /\ out.cpu.mid = "no"
         /\ \/ out.did = "irq" /\ Entered(cpu, out.cpu, "irq", cpu.pc)
            \/ /\ out.did = "insn"
               /\ \/ Op(cpu) \in {"op", "jmp", "br"} /\ out.cpu.stack = cpu.stack
                  \/ Op(cpu) = "jsr" /\ Entered(cpu, out.cpu, "call", cpu.pc + 1)
                  \/ Op(cpu) = "brk" /\ Entered(cpu, out.cpu, "brk", cpu.pc + 1)
                  \/ Op(cpu) = "rts" /\ Returned(cpu, out.cpu) /\ Head(cpu.stack).kind = "call"
                  \/ Op(cpu) = "rti" /\ Returned(cpu, out.cpu)
                       /\ Head(cpu.stack).kind \in {"irq", "brk"}
<1>0. PICK b \in Begin(cpu) : \E p \in Complete(b) : out = Outcome(b.mid, None, Touch(b), p)
  BY WholeOut DEF StepInstruction, AtBoundary
<1>1. PICK p \in Complete(b) : out = Outcome(b.mid, None, Touch(b), p)
  BY <1>0
<1>2. b \in Cpus /\ b.mid \in {"insn", "irq"}
  BY <1>1, BeginCpu
<1>3. b.pc = cpu.pc /\ b.stack = cpu.stack
  BY <1>1 DEF Begin, Cpus
<1>4. out.cpu = p /\ out.did = b.mid
  BY <1>1 DEF Outcome
<1>5. p \in Cpus /\ p.mid = "no" /\ out.cpu = p /\ out.did = b.mid
  BY <1>2, <1>4, CompleteCpu
<1>. DEFINE d == [b EXCEPT !.mid = "no", !.icf = TRUE]
<1>6. d.pc = cpu.pc /\ d.stack = cpu.stack /\ d \in Cpus /\ Op(b) = Op(cpu)
  BY <1>2, <1>3 DEF Cpus, Op
<1>7. ASSUME NEW kind, NEW ret, NEW to PROVE Push(d, kind, ret, to).stack = <<[kind |-> kind, ret |-> ret]>> \o cpu.stack
  <2>. DEFINE st == <<[kind |-> kind, ret |-> ret]>> \o d.stack
  <2>1. Push(d, kind, ret, to) = [d EXCEPT !.pc = to, !.stack = st]
    BY <1>6 DEF Push, Cpus
  <2>. HIDE DEF st, d
  <2>2. Push(d, kind, ret, to).stack = st
    BY <1>6, <2>1 DEF Cpus
  <2>. QED BY <1>6, <2>2 DEF st
<1>8. CASE b.mid = "irq"
  <2>1. p = Push(d, "irq", b.pc, Handler)
    BY <1>8 DEF Complete
  <2>2. Entered(cpu, p, "irq", cpu.pc)
    BY <1>3, <1>7, <2>1 DEF Entered
  <2>. QED BY <1>5, <1>8, <2>2
<1>9. CASE b.mid = "insn" /\ Op(cpu) \in {"op", "jmp", "br"}
  <2>1. p.stack = d.stack
    <3>1. \E a : p = [d EXCEPT !.pc = a]
      BY <1>6, <1>9 DEF Complete
    <3>. QED BY <1>6, <3>1 DEF Cpus
  <2>. QED BY <1>5, <1>6, <1>9, <2>1
<1>10. CASE b.mid = "insn" /\ Op(cpu) = "jsr"
  <2>1. p = Push(d, "call", b.pc + 1, Prog[b.pc].to)
    BY <1>6, <1>10 DEF Complete
  <2>2. Entered(cpu, p, "call", cpu.pc + 1)
    BY <1>3, <1>7, <2>1 DEF Entered
  <2>. QED BY <1>5, <1>10, <2>2
<1>11. CASE b.mid = "insn" /\ Op(cpu) = "brk"
  <2>1. p = Push(d, "brk", b.pc + 1, Handler)
    BY <1>6, <1>11 DEF Complete
  <2>2. Entered(cpu, p, "brk", cpu.pc + 1)
    BY <1>3, <1>7, <2>1 DEF Entered
  <2>. QED BY <1>5, <1>11, <2>2
<1>12. ASSUME NEW kinds, p \in Pull(d, kinds), Top \in kinds, Top # "none"
       PROVE  Returned(cpu, p) /\ Head(cpu.stack).kind \in kinds
  <2>1. cpu.stack # <<>> /\ Head(cpu.stack).kind \in kinds
    BY <1>12 DEF Top
  <2>. HIDE DEF d
  <2>2. p = [d EXCEPT !.pc = Head(d.stack).ret, !.stack = Tail(d.stack)]
    BY <1>6, <1>12, <2>1 DEF Pull, Cpus
  <2>3. p.stack = Tail(cpu.stack) /\ p.pc = Head(cpu.stack).ret
    BY <1>6, <2>2 DEF Cpus
  <2>. QED BY <2>1, <2>3 DEF Returned
<1>13. CASE b.mid = "insn" /\ Op(cpu) = "rts"
  <2>1. p \in Pull(d, {"call"}) /\ Top = "call"
    BY <1>6, <1>13 DEF Complete, WellNested
  <2>2. Returned(cpu, p) /\ Head(cpu.stack).kind \in {"call"}
    BY <1>12, <2>1
  <2>. QED BY <1>5, <1>13, <2>2
<1>14. CASE b.mid = "insn" /\ Op(cpu) = "rti"
  <2>1. p \in Pull(d, {"irq", "brk"}) /\ Top \in {"irq", "brk"}
    BY <1>6, <1>14 DEF Complete, WellNested
  <2>2. Returned(cpu, p) /\ Head(cpu.stack).kind \in {"irq", "brk"}
    BY <1>12, <2>1
  <2>. QED BY <1>5, <1>14, <2>2
<1>15. Op(cpu) \in {"op", "jmp", "br", "jsr", "rts", "rti", "brk"}
  BY ProgramShape DEF Op, Cpus
<1>. QED BY <1>2, <1>8, <1>9, <1>10, <1>11, <1>13, <1>14, <1>15

\* The stack of a step in progress: the frames it began with are still at the
\* bottom, interrupt_depth counts the interrupts above them, jsr_depth the calls
\* made outside those interrupts.
OnBase(st, base) ==
  /\ Len(st) >= Len(base)
  /\ \A p \in 1 .. Len(base) : FrameAt(st, p) = FrameAt(base, p)
NoBrkInIrq(st, n) ==
  \A p, q \in n + 1 .. Len(st) : p < q /\ FrameAt(st, p).kind = "irq" => FrameAt(st, q).kind # "brk"
Balance(st, base, k, depth, jsr) ==
  /\ OnBase(st, base) /\ NoBrkInIrq(st, Len(base))
  /\ depth = Cardinality(Irqs(st, Len(base)))
  /\ jsr = Cardinality(Calls(st, Len(base))) + (IF k = "out" THEN 1 ELSE 0)
  /\ k = "out" => base # <<>> /\ Head(base).kind = "call"

LEMMA OneMoreBalance ==
  ASSUME NEW st \in Seq(Frames), NEW up \in Seq(Frames), NEW f \in Frames, OneMore(st, up, f),
         NEW base \in Seq(Frames), NEW k, NEW depth, NEW jsr, Balance(st, base, k, depth, jsr),
         f.kind = "brk" => depth = 0
  PROVE  Balance(up, base, k, depth + (IF f.kind = "irq" THEN 1 ELSE 0),
                 jsr + (IF f.kind = "call" /\ depth = 0 THEN 1 ELSE 0))
<1>. DEFINE n == Len(base)
<1>1. n \in Nat /\ Len(st) \in Nat /\ n <= Len(st) /\ Len(up) = Len(st) + 1
  BY DEF Balance, OnBase, OneMore
<1>2. OnBase(up, base)
  BY <1>1 DEF Balance, OnBase, OneMore
<1>3. NoBrkInIrq(up, n)
  <2>. SUFFICES ASSUME NEW p \in n + 1 .. Len(up), NEW q \in n + 1 .. Len(up), p < q,
                       FrameAt(up, p).kind = "irq"
                PROVE  FrameAt(up, q).kind # "brk"
    BY DEF NoBrkInIrq
  <2>1. p \in n + 1 .. Len(st) /\ FrameAt(st, p).kind = "irq"
    BY <1>1 DEF OneMore
  <2>2. CASE q \in n + 1 .. Len(st)
    BY <1>1, <2>1, <2>2 DEF Balance, NoBrkInIrq, OneMore
  <2>3. CASE q = Len(st) + 1
    <3>1. Irqs(st, n) # {} /\ IsFiniteSet(Irqs(st, n))
      BY <1>1, <2>1, FramesFinite DEF Irqs
    <3>2. depth # 0
      BY <3>1, FS_EmptySet DEF Balance
    <3>. QED BY <2>3, <3>2 DEF OneMore
  <2>4. q \in n + 1 .. Len(st) \/ q = Len(st) + 1
    <3>1. \A i, j \in Nat : \A m \in i + 1 .. j + 1 : m \in i + 1 .. j \/ m = j + 1
      OBVIOUS
    <3>. QED BY <1>1, <3>1, Zenon
  <2>. QED BY <2>2, <2>3, <2>4
<1>4. /\ Cardinality(Irqs(up, n)) = Cardinality(Irqs(st, n)) + (IF f.kind = "irq" THEN 1 ELSE 0)
      /\ Cardinality(Calls(up, n)) = Cardinality(Calls(st, n))
           + (IF f.kind = "call" /\ Cardinality(Irqs(st, n)) = 0 THEN 1 ELSE 0)
  BY <1>1, CountOneMore
<1>5. /\ Cardinality(Irqs(st, n)) \in Nat /\ Cardinality(Calls(st, n)) \in Nat
      /\ depth = Cardinality(Irqs(st, n))
      /\ jsr = Cardinality(Calls(st, n)) + (IF k = "out" THEN 1 ELSE 0)
  BY <1>1, FramesFinite DEF Balance
<1>6. depth + (IF f.kind = "irq" THEN 1 ELSE 0) = Cardinality(Irqs(up, n))
  BY <1>4, <1>5
<1>7. jsr + (IF f.kind = "call" /\ depth = 0 THEN 1 ELSE 0)
        = Cardinality(Calls(up, n)) + (IF k = "out" THEN 1 ELSE 0)
  BY <1>4, <1>5
<1>8. k = "out" => base # <<>> /\ Head(base).kind = "call"
  BY DEF Balance
<1>. QED BY <1>2, <1>3, <1>6, <1>7, <1>8 DEF Balance

\* The same read downwards: a frame above the base is pulled.
LEMMA OneLessBalance ==
  ASSUME NEW st \in Seq(Frames), NEW up \in Seq(Frames), NEW f \in Frames, OneMore(st, up, f),
         NEW base \in Seq(Frames), NEW k, NEW depth, NEW jsr, Balance(up, base, k, depth, jsr),
         Len(base) <= Len(st)
  PROVE  /\ f.kind # "irq" => Cardinality(Irqs(st, Len(base))) = depth
         /\ f.kind = "irq" => Cardinality(Irqs(st, Len(base))) = depth - 1 /\ depth > 0
         /\ depth > 0 => f.kind # "brk"
         /\ depth \in Nat /\ jsr \in Nat
         /\ Balance(st, base, k, depth - (IF f.kind = "irq" THEN 1 ELSE 0),
                    jsr - (IF f.kind = "call" /\ depth = 0 THEN 1 ELSE 0))
<1>. DEFINE n == Len(base)
<1>1. n \in Nat /\ Len(st) \in Nat /\ n <= Len(st) /\ Len(up) = Len(st) + 1
  BY DEF Balance, OnBase, OneMore
<1>2. OnBase(st, base)
  BY <1>1 DEF Balance, OnBase, OneMore
<1>3. NoBrkInIrq(st, n)
  <2>. SUFFICES ASSUME NEW p \in n + 1 .. Len(st), NEW q \in n + 1 .. Len(st), p < q,
                       FrameAt(st, p).kind = "irq"
                PROVE  FrameAt(st, q).kind # "brk"
    BY DEF NoBrkInIrq
  <2>1. p \in n + 1 .. Len(up) /\ q \in n + 1 .. Len(up)
    BY <1>1
  <2>2. FrameAt(up, p) = FrameAt(st, p) /\ FrameAt(up, q) = FrameAt(st, q)
    BY <1>1 DEF OneMore
  <2>. QED BY <2>1, <2>2 DEF Balance, NoBrkInIrq
<1>4. /\ Cardinality(Irqs(up, n)) = Cardinality(Irqs(st, n)) + (IF f.kind = "irq" THEN 1 ELSE 0)
      /\ Cardinality(Calls(up, n)) = Cardinality(Calls(st, n))
           + (IF f.kind = "call" /\ Cardinality(Irqs(st, n)) = 0 THEN 1 ELSE 0)
  BY <1>1, CountOneMore
<1>5. /\ Cardinality(Irqs(st, n)) \in Nat /\ Cardinality(Calls(st, n)) \in Nat
      /\ depth = Cardinality(Irqs(up, n))
      /\ jsr = Cardinality(Calls(up, n)) + (IF k = "out" THEN 1 ELSE 0)
  BY <1>1, FramesFinite DEF Balance
<1>6. depth - (IF f.kind = "irq" THEN 1 ELSE 0) = Cardinality(Irqs(st, n))
  BY <1>4, <1>5
<1>7. jsr - (IF f.kind = "call" /\ depth = 0 THEN 1 ELSE 0)
        = Cardinality(Calls(st, n)) + (IF k = "out" THEN 1 ELSE 0)
  <2>1. f.kind = "call" => depth = Cardinality(Irqs(st, n))
    BY <1>4, <1>5
  <2>. QED BY <1>4, <1>5, <2>1
<1>8. k = "out" => base # <<>> /\ Head(base).kind = "call"
  BY DEF Balance
<1>9. Balance(st, base, k, depth - (IF f.kind = "irq" THEN 1 ELSE 0),
              jsr - (IF f.kind = "call" /\ depth = 0 THEN 1 ELSE 0))
  BY <1>2, <1>3, <1>6, <1>7, <1>8 DEF Balance
<1>10. depth > 0 => f.kind # "brk"
  <2>. SUFFICES ASSUME depth > 0, f.kind = "brk" PROVE FALSE
    OBVIOUS
  <2>1. Cardinality(Irqs(st, n)) = depth
    BY <1>4, <1>5
  <2>2. Irqs(st, n) # {}
    <3>1. Cardinality(Irqs(st, n)) # 0
      BY <2>1
    <3>. QED BY <3>1, FS_EmptySet, Zenon
  <2>3. PICK p \in n + 1 .. Len(st) : FrameAt(st, p).kind = "irq"
    BY <2>2 DEF Irqs
  <2>4. p \in n + 1 .. Len(up) /\ Len(up) \in n + 1 .. Len(up) /\ p < Len(up)
    BY <1>1
  <2>5. FrameAt(up, p).kind = "irq" /\ FrameAt(up, Len(up)) = f
    BY <1>1, <2>3 DEF OneMore
  <2>. QED BY <2>4, <2>5 DEF Balance, NoBrkInIrq
<1>11. f.kind # "irq" => Cardinality(Irqs(st, n)) = depth
  BY <1>4, <1>5
<1>12. f.kind = "irq" => Cardinality(Irqs(st, n)) = depth - 1 /\ depth > 0
  BY <1>4, <1>5
<1>13. depth \in Nat /\ jsr \in Nat
  BY <1>4, <1>5
<1>. QED BY <1>9, <1>10, <1>11, <1>12, <1>13

LEMMA EnteredFrame ==
  ASSUME NEW c \in Cpus, NEW p, NEW kind \in {"call", "irq", "brk"}, NEW ret \in Addr,
         Entered(c, p, kind, ret)
  PROVE  /\ [kind |-> kind, ret |-> ret] \in Frames /\ p.stack \in Seq(Frames)
         /\ OneMore(c.stack, p.stack, [kind |-> kind, ret |-> ret])
<1>1. [kind |-> kind, ret |-> ret] \in Frames /\ c.stack \in Seq(Frames)
  BY DEF Frames, Cpus
<1>. QED BY <1>1, FramePushed DEF Entered, OneMore

LEMMA ReturnedFrame ==
  ASSUME NEW c \in Cpus, NEW p, Returned(c, p)
  PROVE  /\ Head(c.stack) \in Frames /\ p.stack \in Seq(Frames) /\ c.stack \in Seq(Frames)
         /\ Len(c.stack) \in Nat /\ Len(p.stack) = Len(c.stack) - 1
         /\ FrameAt(c.stack, Len(c.stack)) = Head(c.stack)
         /\ OneMore(p.stack, c.stack, Head(c.stack))
<1>1. c.stack \in Seq(Frames) /\ c.stack # <<>> /\ p.stack = Tail(c.stack)
  BY DEF Cpus, Returned
<1>2. Head(c.stack) \in Frames
  BY <1>1
<1>3. /\ Tail(c.stack) \in Seq(Frames) /\ Len(Tail(c.stack)) = Len(c.stack) - 1 /\ Len(c.stack) >= 1
      /\ FrameAt(c.stack, Len(c.stack)) = Head(c.stack)
      /\ \A i \in 1 .. Len(c.stack) - 1 : FrameAt(Tail(c.stack), i) = FrameAt(c.stack, i)
  BY <1>1, FramePulled
<1>4. Len(c.stack) \in Nat
  BY <1>1
<1>5. OneMore(p.stack, c.stack, Head(c.stack))
  BY <1>1, <1>3, <1>4 DEF OneMore
<1>. QED BY <1>1, <1>2, <1>3, <1>4, <1>5

\* Two stacks of the same height, one on the other, are the same.
LEMMA OnBaseEqual ==
  ASSUME NEW st \in Seq(Frames), NEW base \in Seq(Frames), OnBase(st, base),
         Len(st) = Len(base)
  PROVE  st = base
<1>1. ASSUME NEW i \in 1 .. Len(base) PROVE st[i] = base[i]
  <2>. DEFINE p == Len(base) + 1 - i
  <2>1. p \in 1 .. Len(base) /\ Len(base) + 1 - p = i
    OBVIOUS
  <2>. HIDE DEF p
  <2>. QED BY <2>1 DEF OnBase, FrameAt
<1>. QED BY <1>1

LEMMA StepBalance ==
  ASSUME cpu \in Cpus, AtBoundary, WellNested, job.base \in Seq(Frames), InFlow,
         Balance(cpu.stack, job.base, job.k, job.depth, job.jsr),
         job.k = "over" /\ Len(cpu.stack) = Len(job.base) => Op(cpu) = "jsr",
         NEW out \in StepInstruction(cpu)
  PROVE  /\ out.cpu \in Cpus /\ out.cpu.mid = "no"
         /\ OutDone(out, Op(cpu)) => cpu.stack = job.base /\ Returned(cpu, out.cpu)
         /\ ~OutDone(out, Op(cpu)) =>
              Balance(out.cpu.stack, job.base, job.k, Depth(out, Op(cpu)), Jsr(out, Op(cpu)))
<1>. DEFINE op == Op(cpu)
            n == Len(job.base)
            st == cpu.stack
<1>1. /\ out.cpu \in Cpus /\ out.cpu.mid = "no"
      /\ \/ out.did = "irq" /\ Entered(cpu, out.cpu, "irq", cpu.pc)
         \/ /\ out.did = "insn"
            /\ \/ op \in {"op", "jmp", "br"} /\ out.cpu.stack = cpu.stack
               \/ op = "jsr" /\ Entered(cpu, out.cpu, "call", cpu.pc + 1)
               \/ op = "brk" /\ Entered(cpu, out.cpu, "brk", cpu.pc + 1)
               \/ op = "rts" /\ Returned(cpu, out.cpu) /\ Head(cpu.stack).kind = "call"
               \/ op = "rti" /\ Returned(cpu, out.cpu)
                    /\ Head(cpu.stack).kind \in {"irq", "brk"}
  BY InstructionEffect
<1>2. st \in Seq(Frames) /\ cpu.pc \in Addr /\ n \in Nat /\ Len(st) \in Nat /\ Len(st) >= n
  BY DEF Cpus, Balance, OnBase
<1>3. job.depth \in Nat /\ job.jsr \in Nat /\ job.depth = Cardinality(Irqs(st, n))
  <2>1. Cardinality(Irqs(st, n)) \in Nat /\ Cardinality(Calls(st, n)) \in Nat
    BY <1>2, FramesFinite
  <2>. QED BY <2>1 DEF Balance
<1>. HIDE DEF op, n, st
<1>b. Balance(st, job.base, job.k, job.depth, job.jsr)
  BY DEF st
<1>e. ASSUME NEW kind \in {"call", "irq", "brk"}, NEW ret \in Addr, Entered(cpu, out.cpu, kind, ret),
             kind = "brk" => job.depth = 0
      PROVE  Balance(out.cpu.stack, job.base, job.k, job.depth + (IF kind = "irq" THEN 1 ELSE 0),
                     job.jsr + (IF kind = "call" /\ job.depth = 0 THEN 1 ELSE 0))
  <2>. DEFINE f == [kind |-> kind, ret |-> ret]
  <2>1. f \in Frames /\ out.cpu.stack \in Seq(Frames) /\ OneMore(st, out.cpu.stack, f) /\ f.kind = kind
    BY <1>e, EnteredFrame DEF st
  <2>. HIDE DEF f
  <2>2. Balance(out.cpu.stack, job.base, job.k, job.depth + (IF f.kind = "irq" THEN 1 ELSE 0),
                job.jsr + (IF f.kind = "call" /\ job.depth = 0 THEN 1 ELSE 0))
    BY <1>2, <1>b, <1>e, <2>1, OneMoreBalance, Zenon
  <2>. QED BY <2>1, <2>2
<1>r. ASSUME Returned(cpu, out.cpu), n <= Len(out.cpu.stack)
      PROVE  /\ Head(st).kind # "irq" => Cardinality(Irqs(out.cpu.stack, Len(job.base))) = job.depth
             /\ Head(st).kind = "irq" =>
                  Cardinality(Irqs(out.cpu.stack, Len(job.base))) = job.depth - 1 /\ job.depth > 0
             /\ job.depth > 0 => Head(st).kind # "brk"
             /\ job.depth \in Nat /\ job.jsr \in Nat
             /\ Balance(out.cpu.stack, job.base, job.k,
                        job.depth - (IF Head(st).kind = "irq" THEN 1 ELSE 0),
                        job.jsr - (IF Head(st).kind = "call" /\ job.depth = 0 THEN 1 ELSE 0))
  <2>1. Head(st) \in Frames /\ out.cpu.stack \in Seq(Frames) /\ OneMore(out.cpu.stack, st, Head(st))
    BY <1>r, ReturnedFrame DEF st
  <2>2. Len(job.base) <= Len(out.cpu.stack)
    BY <1>r DEF n
  <2>. QED BY <1>2, <1>b, <2>1, <2>2, OneLessBalance, Zenon
<1>4. CASE out.did = "irq" /\ Entered(cpu, out.cpu, "irq", cpu.pc)
  <2>1. Balance(out.cpu.stack, job.base, job.k, job.depth + 1, job.jsr + 0)
    BY <1>2, <1>4, <1>e
  <2>2. Depth(out, op) = job.depth + 1 /\ Jsr(out, op) = job.jsr + 0 /\ ~OutDone(out, op)
    BY <1>3, <1>4 DEF Depth, Jsr, Counts, OutDone
  <2>. QED BY <1>1, <2>1, <2>2 DEF op
<1>5. CASE out.did = "insn" /\ op \in {"op", "jmp", "br"} /\ out.cpu.stack = cpu.stack
  <2>1. Depth(out, op) = job.depth /\ Jsr(out, op) = job.jsr /\ ~OutDone(out, op)
    BY <1>5 DEF Depth, Jsr, Counts, OutDone
  <2>. QED BY <1>1, <1>5, <2>1 DEF op
<1>6. CASE out.did = "insn" /\ op = "jsr" /\ Entered(cpu, out.cpu, "call", cpu.pc + 1)
  <2>1. cpu.pc + 1 \in Addr
    BY <1>2, <1>6, ProgramShape DEF op, Op
  <2>2. Balance(out.cpu.stack, job.base, job.k, job.depth + 0,
                job.jsr + (IF job.depth = 0 THEN 1 ELSE 0))
    BY <1>6, <2>1, <1>e
  <2>3. /\ Depth(out, op) = job.depth + 0
        /\ Jsr(out, op) = job.jsr + (IF job.depth = 0 THEN 1 ELSE 0) /\ ~OutDone(out, op)
    BY <1>3, <1>6 DEF Depth, Jsr, Counts, OutDone
  <2>. QED BY <1>1, <2>2, <2>3 DEF op
<1>7. CASE out.did = "insn" /\ op = "brk" /\ Entered(cpu, out.cpu, "brk", cpu.pc + 1)
  <2>1. cpu.pc + 1 \in Addr
    BY <1>2, <1>7, ProgramShape DEF op, Op
  <2>2. job.depth = 0
    <3>1. \A i \in 1 .. Len(st) : st[i].kind # "irq"
      BY <1>2, <1>7 DEF WellNested, op, st
    <3>2. \A p \in n + 1 .. Len(st) : Len(st) + 1 - p \in 1 .. Len(st)
      BY <1>2
    <3>3. Irqs(st, n) = {}
      BY <3>1, <3>2 DEF Irqs, FrameAt
    <3>. QED BY <1>3, <3>3, FS_EmptySet
  <2>3. Balance(out.cpu.stack, job.base, job.k, job.depth + 0, job.jsr + 0)
    BY <1>7, <2>1, <2>2, <1>e
  <2>4. Depth(out, op) = job.depth + 0 /\ Jsr(out, op) = job.jsr + 0 /\ ~OutDone(out, op)
    BY <1>3, <1>7 DEF Depth, Jsr, Counts, OutDone
  <2>. QED BY <1>1, <2>3, <2>4 DEF op
<1>8. CASE out.did = "insn" /\ op = "rts" /\ Returned(cpu, out.cpu) /\ Head(cpu.stack).kind = "call"
  <2>1. /\ Head(st) \in Frames /\ out.cpu.stack \in Seq(Frames)
        /\ Len(out.cpu.stack) = Len(st) - 1 /\ OneMore(out.cpu.stack, st, Head(st))
    BY <1>8, ReturnedFrame DEF st
  <2>2. Depth(out, op) = job.depth
        /\ Jsr(out, op) = job.jsr - (IF job.depth = 0 THEN 1 ELSE 0)
        /\ (OutDone(out, op) <=> job.k = "out" /\ job.depth = 0 /\ job.jsr <= 1)
    BY <1>3, <1>8 DEF Depth, Jsr, Counts, OutDone
  <2>3. CASE Len(st) > n
    <3>1. n <= Len(out.cpu.stack)
      BY <1>2, <2>1, <2>3
    <3>2. Balance(out.cpu.stack, job.base, job.k, job.depth - 0,
                  job.jsr - (IF job.depth = 0 THEN 1 ELSE 0))
      <4>1. Balance(out.cpu.stack, job.base, job.k,
                    job.depth - (IF Head(st).kind = "irq" THEN 1 ELSE 0),
                    job.jsr - (IF Head(st).kind = "call" /\ job.depth = 0 THEN 1 ELSE 0))
        BY <1>8, <1>r, <3>1
      <4>. QED BY <1>8, <4>1 DEF st
    <3>3. ~OutDone(out, op)
      <4>. SUFFICES ASSUME job.k = "out", job.depth = 0, job.jsr <= 1 PROVE FALSE
        BY <2>2
      <4>1. Cardinality(Calls(out.cpu.stack, n)) \in Nat
        BY <1>2, <2>1, FramesFinite
      <4>2. job.jsr - 1 = Cardinality(Calls(out.cpu.stack, n)) + 1
        BY <3>2 DEF Balance, n
      <4>. QED BY <1>3, <4>1, <4>2
    <3>. QED BY <1>1, <1>3, <2>2, <3>2, <3>3 DEF op
  <2>4. CASE Len(st) = n
    <3>1. job.k = "out"
      BY <1>8, <2>4 DEF InFlow, op, n, st
    <3>2. n + 1 .. Len(st) = {}
      BY <1>2, <2>4
    <3>3. Irqs(st, n) = {} /\ Calls(st, n) = {}
      BY <3>2 DEF Irqs, Calls
    <3>4. job.depth = 0 /\ job.jsr = 1
      BY <3>1, <3>3, FS_EmptySet DEF Balance, st, n
    <3>5. OutDone(out, op)
      BY <2>2, <3>1, <3>4
    <3>6. st = job.base
      BY <1>2, <2>4, OnBaseEqual DEF Balance, st, n
    <3>. QED BY <1>1, <1>8, <3>5, <3>6 DEF op, st
  <2>. QED BY <1>2, <2>3, <2>4
<1>9. CASE out.did = "insn" /\ op = "rti" /\ Returned(cpu, out.cpu)
           /\ Head(cpu.stack).kind \in {"irq", "brk"}
  <2>1. /\ Head(st) \in Frames /\ out.cpu.stack \in Seq(Frames)
        /\ Len(out.cpu.stack) = Len(st) - 1 /\ OneMore(out.cpu.stack, st, Head(st))
        /\ FrameAt(st, Len(st)) = Head(st)
    BY <1>9, ReturnedFrame DEF st
  <2>2. /\ Depth(out, op) = (IF job.depth > 0 THEN job.depth - 1 ELSE job.depth)
        /\ Jsr(out, op) = job.jsr /\ ~OutDone(out, op)
    BY <1>3, <1>9 DEF Depth, Jsr, Counts, OutDone
  <2>3. Len(st) # n
    <3>. SUFFICES ASSUME Len(st) = n PROVE FALSE
      OBVIOUS
    <3>1. job.k = "out"
      BY <1>9 DEF InFlow, op, n, st
    <3>2. st = job.base
      BY <1>2, OnBaseEqual DEF Balance, st, n
    <3>. QED BY <1>9, <3>1, <3>2 DEF Balance, st
  <2>4. n <= Len(out.cpu.stack)
    BY <1>2, <2>1, <2>3
  <2>5. /\ Head(st).kind # "irq" => Cardinality(Irqs(out.cpu.stack, n)) = job.depth
        /\ Head(st).kind = "irq" => Cardinality(Irqs(out.cpu.stack, n)) = job.depth - 1 /\ job.depth > 0
        /\ job.depth > 0 => Head(st).kind # "brk"
        /\ Balance(out.cpu.stack, job.base, job.k,
                   job.depth - (IF Head(st).kind = "irq" THEN 1 ELSE 0),
                   job.jsr - (IF Head(st).kind = "call" /\ job.depth = 0 THEN 1 ELSE 0))
    BY <1>9, <1>r, <2>4 DEF n
  <2>6. /\ job.depth - (IF Head(st).kind = "irq" THEN 1 ELSE 0) = Depth(out, op)
        /\ job.jsr - (IF Head(st).kind = "call" /\ job.depth = 0 THEN 1 ELSE 0) = Jsr(out, op)
    BY <1>3, <1>9, <2>2, <2>5 DEF st
  <2>. QED BY <1>1, <2>2, <2>5, <2>6 DEF op
<1>. QED BY <1>1, <1>4, <1>5, <1>6, <1>7, <1>8, <1>9

\* Where step over began: at a JSR, which either has still to be executed or
\* whose frame, or that of an interrupt taken before it, lies on the base.
OverFrames(a) == {[kind |-> "call", ret |-> a + 1], [kind |-> "irq", ret |-> a]}
OverAt(c, base, a) ==
  /\ Prog[a].op = "jsr"
  /\ Len(c.stack) = Len(base) => c.pc = a
  /\ Len(c.stack) > Len(base) => FrameAt(c.stack, Len(base) + 1) \in OverFrames(a)
Origin(c, base, stop) == \E a \in Addr : stop = a + 1 /\ OverAt(c, base, a)

LEMMA CountsNothing ==
  ASSUME NEW st \in Seq(Frames), NEW base \in Seq(Frames), NEW depth, NEW jsr,
         Balance(st, base, "over", depth, jsr), depth = 0, jsr <= 0,
         NEW a, Len(st) > Len(base) => FrameAt(st, Len(base) + 1) \in OverFrames(a)
  PROVE  st = base
<1>. DEFINE n == Len(base)
<1>1. n \in Nat /\ Len(st) \in Nat /\ Len(st) >= n /\ OnBase(st, base)
  BY DEF Balance, OnBase
<1>2. /\ IsFiniteSet(Irqs(st, n)) /\ Cardinality(Irqs(st, n)) \in Nat
      /\ IsFiniteSet(Calls(st, n)) /\ Cardinality(Calls(st, n)) \in Nat
  BY <1>1, FramesFinite
<1>3. Cardinality(Irqs(st, n)) = 0 /\ Cardinality(Calls(st, n)) = 0
  BY <1>2 DEF Balance
<1>4. Irqs(st, n) = {} /\ Calls(st, n) = {}
  BY <1>2, <1>3, FS_EmptySet
<1>5. Len(st) = n
  <2>. SUFFICES ASSUME Len(st) > n PROVE FALSE
    BY <1>1
  <2>1. FrameAt(st, n + 1).kind \in {"call", "irq"}
    BY DEF OverFrames
  <2>2. n + 1 \in n + 1 .. Len(st) /\ n + 1 .. (n + 1) - 1 = {}
    BY <1>1
  <2>. QED BY <1>4, <2>1, <2>2 DEF Irqs, Calls
<1>. QED BY <1>1, <1>5, OnBaseEqual

LEMMA StepOrigin ==
  ASSUME cpu \in Cpus, AtBoundary, WellNested, job.base \in Seq(Frames), job.k = "over",
         Balance(cpu.stack, job.base, job.k, job.depth, job.jsr),
         Origin(cpu, job.base, job.stop), NEW out \in StepInstruction(cpu)
  PROVE  /\ OverDone(out, Op(cpu)) => out.cpu.stack = job.base
         /\ ~OverDone(out, Op(cpu)) => Origin(out.cpu, job.base, job.stop)
<1>. DEFINE op == Op(cpu)
            n == Len(job.base)
            st == cpu.stack
            st2 == out.cpu.stack
<1>1. PICK a \in Addr : job.stop = a + 1 /\ OverAt(cpu, job.base, a)
  BY DEF Origin
<1>2. /\ out.cpu \in Cpus /\ out.cpu.mid = "no"
      /\ \/ out.did = "irq" /\ Entered(cpu, out.cpu, "irq", cpu.pc)
         \/ /\ out.did = "insn"
            /\ \/ op \in {"op", "jmp", "br"} /\ st2 = st
               \/ op = "jsr" /\ Entered(cpu, out.cpu, "call", cpu.pc + 1)
               \/ op = "brk" /\ Entered(cpu, out.cpu, "brk", cpu.pc + 1)
               \/ op \in {"rts", "rti"} /\ Returned(cpu, out.cpu)
  BY InstructionEffect
<1>3. st \in Seq(Frames) /\ st2 \in Seq(Frames) /\ n \in Nat /\ Len(st) \in Nat /\ Len(st2) \in Nat
  BY <1>2 DEF Cpus
<1>4. Len(st) = n => cpu.pc = a /\ op = "jsr"
  BY <1>1 DEF OverAt, Op
<1>5. Balance(st2, job.base, "over", Depth(out, op), Jsr(out, op))
  <2>1. ~OutDone(out, op)
    BY DEF OutDone
  <2>2. InFlow
    BY DEF InFlow
  <2>. QED BY <1>4, <2>1, <2>2, StepBalance
<1>6. Len(st) >= n /\ Len(st2) >= n
  BY <1>5 DEF Balance, OnBase
<1>7. Len(st) > n => FrameAt(st, n + 1) \in OverFrames(a)
  BY <1>1 DEF OverAt
<1>. HIDE DEF op, n, st, st2
<1>8. CASE \E kind \in {"call", "irq", "brk"}, ret \in Addr :
             /\ Entered(cpu, out.cpu, kind, ret)
             /\ Len(st) = n => [kind |-> kind, ret |-> ret] \in OverFrames(a)
  <2>1. PICK kind \in {"call", "irq", "brk"}, ret \in Addr :
             /\ Entered(cpu, out.cpu, kind, ret)
             /\ Len(st) = n => [kind |-> kind, ret |-> ret] \in OverFrames(a)
    BY <1>8
  <2>2. OneMore(st, st2, [kind |-> kind, ret |-> ret])
    BY <2>1, EnteredFrame DEF st, st2
  <2>3. FrameAt(st2, n + 1) \in OverFrames(a)
    <3>1. CASE Len(st) = n
      BY <2>1, <2>2, <3>1 DEF OneMore
    <3>2. CASE Len(st) > n
      <4>1. n + 1 \in 1 .. Len(st)
        BY <1>3, <3>2
      <4>. QED BY <1>7, <2>2, <3>2, <4>1 DEF OneMore
    <3>. QED BY <1>3, <1>6, <3>1, <3>2
  <2>4. Len(st2) # n
    BY <1>3, <1>6, <2>2 DEF OneMore
  <2>5. OverAt(out.cpu, job.base, a)
    BY <1>1, <2>3, <2>4 DEF OverAt, st2, n
  <2>6. OverDone(out, op) => st2 = job.base
    <3>1. OverDone(out, op) => Depth(out, op) = 0 /\ Jsr(out, op) <= 0
      BY DEF OverDone
    <3>. QED BY <1>3, <1>5, <2>3, <3>1, CountsNothing DEF n
  <2>. QED BY <1>1, <2>5, <2>6 DEF Origin, op, st2
<1>9. CASE op \in {"op", "jmp", "br"} /\ st2 = st
  <2>1. Len(st) # n
    BY <1>4, <1>9
  <2>2. FrameAt(st2, n + 1) \in OverFrames(a) /\ Len(st2) # n
    BY <1>3, <1>6, <1>7, <1>9, <2>1
  <2>3. OverAt(out.cpu, job.base, a)
    BY <1>1, <2>2 DEF OverAt, st2, n
  <2>4. OverDone(out, op) => st2 = job.base
    <3>1. OverDone(out, op) => Depth(out, op) = 0 /\ Jsr(out, op) <= 0
      BY DEF OverDone
    <3>. QED BY <1>3, <1>5, <2>2, <3>1, CountsNothing DEF n
  <2>. QED BY <1>1, <2>3, <2>4 DEF Origin, op, st2
<1>10. CASE op \in {"rts", "rti"} /\ Returned(cpu, out.cpu)
  <2>1. /\ Len(st2) = Len(st) - 1 /\ OneMore(st2, st, Head(st)) /\ FrameAt(st, Len(st)) = Head(st)
        /\ out.cpu.pc = Head(st).ret
    BY <1>10, ReturnedFrame DEF st, st2, Returned
  <2>2. Len(st2) > n => FrameAt(st2, n + 1) \in OverFrames(a)
    <3>. SUFFICES ASSUME Len(st2) > n PROVE FrameAt(st2, n + 1) \in OverFrames(a)
      OBVIOUS
    <3>1. n + 1 \in 1 .. Len(st2) /\ Len(st) > n
      BY <1>3, <2>1
    <3>. QED BY <1>7, <2>1, <3>1 DEF OneMore
  <2>3. OverDone(out, op) => st2 = job.base
    <3>1. OverDone(out, op) => Depth(out, op) = 0 /\ Jsr(out, op) <= 0
      BY DEF OverDone
    <3>. QED BY <1>3, <1>5, <2>2, <3>1, CountsNothing DEF n
  <2>4. ASSUME ~OverDone(out, op), Len(st2) = n PROVE out.cpu.pc = a
    <3>1. Len(st) = n + 1 /\ Head(st) \in OverFrames(a)
      BY <1>3, <1>7, <2>1, <2>4
    <3>2. CASE Head(st) = [kind |-> "irq", ret |-> a]
      BY <2>1, <3>2
    <3>3. CASE Head(st) = [kind |-> "call", ret |-> a + 1]
      <4>1. n + 1 .. Len(st2) = {}
        BY <1>3, <2>4
      <4>2. Irqs(st2, n) = {} /\ Calls(st2, n) = {}
        BY <4>1 DEF Irqs, Calls
      <4>3. Depth(out, op) = 0 /\ Jsr(out, op) = 0
        BY <1>5, <4>2, FS_EmptySet DEF Balance, n
      <4>4. out.cpu.pc = job.stop
        BY <1>1, <2>1, <3>3
      <4>. QED BY <2>4, <4>3, <4>4 DEF OverDone
    <3>. QED BY <3>1, <3>2, <3>3 DEF OverFrames
  <2>5. ~OverDone(out, op) => OverAt(out.cpu, job.base, a)
    BY <1>1, <2>2, <2>4 DEF OverAt, st2, n
  <2>. QED BY <1>1, <2>3, <2>5 DEF Origin, op, st2
<1>11. CASE op = "brk" /\ Entered(cpu, out.cpu, "brk", cpu.pc + 1)
  <2>1. cpu.pc + 1 \in Addr
    BY <1>11, ProgramShape DEF op, Op, Cpus
  <2>2. Len(st) # n
    BY <1>4, <1>11
  <2>. QED BY <1>8, <1>11, <2>1, <2>2
<1>12. CASE op = "jsr" /\ Entered(cpu, out.cpu, "call", cpu.pc + 1)
  <2>1. cpu.pc + 1 \in Addr
    BY <1>12, ProgramShape DEF op, Op, Cpus
  <2>2. Len(st) = n => [kind |-> "call", ret |-> cpu.pc + 1] \in OverFrames(a)
    BY <1>4 DEF OverFrames
  <2>. QED BY <1>8, <1>12, <2>1, <2>2
<1>13. CASE Entered(cpu, out.cpu, "irq", cpu.pc)
  <2>1. cpu.pc \in Addr
    BY DEF Cpus
  <2>2. Len(st) = n => [kind |-> "irq", ret |-> cpu.pc] \in OverFrames(a)
    BY <1>4 DEF OverFrames
  <2>. QED BY <1>8, <1>13, <2>1, <2>2
<1>. QED BY <1>2, <1>9, <1>10, <1>11, <1>12, <1>13

\* The inductive invariant of a step over or step out that began cleanly.
Nested ==
  /\ AtBoundary /\ job.base \in Seq(Frames)
  /\ Balance(cpu.stack, job.base, job.k, job.depth, job.jsr)
  /\ job.k = "over" => Origin(cpu, job.base, job.stop)
Flowing == InFlow /\ job.clean => Nested

LEMMA NestedKept ==
  ASSUME Flowing, UNCHANGED <<cpu, job>>
  PROVE  Flowing'
BY DEF Flowing, InFlow, Nested, AtBoundary

LEMMA NotFlowing ==
  ASSUME job'.k \notin {"over", "out"}
  PROVE  Flowing'
BY DEF Flowing, InFlow

LEMMA BaseBalance ==
  ASSUME NEW st \in Seq(Frames), NEW k \in {"over", "out"},
         k = "out" => st # <<>> /\ Head(st).kind = "call"
  PROVE  Balance(st, st, k, 0, IF k = "out" THEN 1 ELSE 0)
<1>1. Len(st) \in Nat /\ Len(st) + 1 .. Len(st) = {}
  OBVIOUS
<1>2. Irqs(st, Len(st)) = {} /\ Calls(st, Len(st)) = {} /\ NoBrkInIrq(st, Len(st))
  BY <1>1 DEF Irqs, Calls, NoBrkInIrq
<1>3. OnBase(st, st)
  BY <1>1 DEF OnBase
<1>. QED BY <1>2, <1>3, FS_EmptySet DEF Balance

LEMMA StartsNested ==
  ASSUME Core, NEW k \in {"over", "out"}, NEW stop, NEW clean,
         StartFlow(k, stop, IF k = "out" THEN 1 ELSE 0, clean),
         clean => AtBoundary,
         clean /\ k = "over" => Op(cpu) = "jsr" /\ stop = cpu.pc + 1,
         clean /\ k = "out" => cpu.stack # <<>> /\ Head(cpu.stack).kind = "call"
  PROVE  Flowing'
<1>1. /\ job'.k = k /\ job'.stop = stop /\ job'.jsr = (IF k = "out" THEN 1 ELSE 0)
      /\ job'.depth = 0 /\ job'.base = cpu.stack /\ job'.clean = clean /\ cpu' = cpu
  BY DEF StartFlow, NoJob
<1>2. cpu.stack \in Seq(Frames) /\ cpu.pc \in Addr
  BY DEF Core, Shape, Cpus
<1>. SUFFICES ASSUME clean PROVE Nested'
  BY <1>1 DEF Flowing
<1>3. Balance(cpu.stack, cpu.stack, k, 0, IF k = "out" THEN 1 ELSE 0)
  BY <1>2, BaseBalance
<1>4. Balance(cpu'.stack, job'.base, job'.k, job'.depth, job'.jsr)
  BY <1>1, <1>3
<1>5. k = "over" => Origin(cpu', job'.base, job'.stop)
  <2>. SUFFICES ASSUME k = "over" PROVE Origin(cpu', job'.base, job'.stop)
    OBVIOUS
  <2>1. OverAt(cpu, cpu.stack, cpu.pc)
    BY <1>2 DEF OverAt, Op
  <2>. QED BY <1>1, <1>2, <2>1 DEF Origin
<1>6. AtBoundary' /\ job'.base \in Seq(Frames)
  BY <1>1, <1>2 DEF AtBoundary
<1>. QED BY <1>1, <1>4, <1>5, <1>6 DEF Nested

LEMMA ProcessNested ==
  ASSUME Core, job = NoJob, NEW c, c.op \in CommandOps, Process(c)
  PROVE  Flowing'
<1>1. CASE job' = NoJob \/ job' = job
  BY <1>1, NotFlowing DEF NoJob
<1>2. CASE StepOver
  <2>1. CASE StepBy(StepInstruction(cpu))
    BY <1>1, <2>1 DEF StepBy, PublishStepComplete
  <2>2. CASE \E opcode \in Opcodes :
               /\ opcode = "jsr"
               /\ \E stop \in IF AtBoundary THEN {cpu.pc + 1} ELSE Addr :
                     StartFlow("over", stop, 0, AtBoundary)
    <3>1. PICK stop : /\ StartFlow("over", stop, 0, AtBoundary)
                      /\ AtBoundary => Op(cpu) = "jsr" /\ stop = cpu.pc + 1
      BY <2>2 DEF Opcodes
    <3>. QED BY <3>1, StartsNested
  <2>. QED BY <1>2, <2>1, <2>2 DEF StepOver
<1>3. CASE StepOut
  <2>. DEFINE clean == AtBoundary /\ cpu.stack # <<>> /\ Head(cpu.stack).kind = "call"
  <2>1. StartFlow("out", 0, 1, clean)
    BY <1>3 DEF StepOut
  <2>2. clean => AtBoundary /\ cpu.stack # <<>> /\ Head(cpu.stack).kind = "call"
    OBVIOUS
  <2>. HIDE DEF clean
  <2>. QED BY <2>1, <2>2, StartsNested
<1>4. CASE c.op \in {"runCycles", "runInstructions", "stepFrame", "runToRaster"}
  <2>1. \E k \in {"cycles", "insns", "frame", "raster"} : \E n : Begins(k, n)
    BY <1>4 DEF Process, StartLoop
  <2>2. job'.k \in {"cycles", "insns", "frame", "raster"}
    BY <2>1 DEF Begins, NoJob
  <2>. QED BY <2>2, NotFlowing
<1>5. CASE c.op \in {"quit", "run", "pause", "reset", "runTo"}
  BY <1>1, <1>5 DEF Process, Quit, Run, Pause, Reset, RunToCursor
<1>6. CASE c.op \in {"stepCycle", "stepInstruction"}
  <2>1. StepBy(StepCycle(cpu)) \/ StepBy(StepInstruction(cpu))
    BY <1>6 DEF Process
  <2>2. job' = NoJob
    BY <2>1 DEF StepBy, PublishStepComplete
  <2>. QED BY <1>1, <2>2
<1>7. ASSUME NEW def, Add(def) PROVE job' = job
  BY <1>7 DEF Add, Refuse, Entry
<1>8. CASE c.op \in {"setExecute", "create", "update", "duplicate"}
  <2>1. job' = job
    BY <1>7, <1>8 DEF Process, SetExecute, Update, Duplicate, OfId, Refuse, Entry
  <2>. QED BY <1>1, <2>1
<1>9. CASE c.op \in {"clear", "clearAll", "enable", "rearm"}
  <2>1. job' = job
    BY <1>9 DEF Process, Clear, ClearAll, Enable, Rearm, OfId, Entry
  <2>. QED BY <1>1, <2>1
<1>. QED BY <1>2, <1>3, <1>4, <1>5, <1>6, <1>8, <1>9 DEF Process, CommandOps

\* Where a step that reports its completion has come to rest.
Landed ==
  IF job.k = "over" THEN cpu'.stack = job.base /\ cpu'.pc = job.stop
  ELSE cpu'.stack = Tail(job.base) /\ cpu'.pc = Head(job.base).ret

LEMMA FlowOnNested ==
  ASSUME Core, WellNested, InFlow, job.clean, Nested, FlowOn
  PROVE  Flowing' /\ (StepCompletes => Landed)
<1>1. cpu \in Cpus /\ JobShape
  BY DEF Core, Shape
<1>2. PICK out \in StepInstruction(cpu) :
          /\ cpu' = out.cpu
          /\ \/ PauseFor("BREAKPOINT")
             \/ job' = NoJob /\ (OutDone(out, Op(cpu)) \/ OverDone(out, Op(cpu)))
             \/ /\ ~OutDone(out, Op(cpu)) /\ ~OverDone(out, Op(cpu))
                /\ \/ job' = [job EXCEPT !.left = @ - 1, !.first = FALSE,
                                         !.jsr = Jsr(out, Op(cpu)),
                                         !.depth = Depth(out, Op(cpu))]
                   \/ job' = NoJob /\ exec' = "RUNNING"
  BY DEF FlowOn, Nested, Opcodes, PublishStepComplete
<1>3. job.k = "over" => (Len(cpu.stack) = Len(job.base) => Op(cpu) = "jsr")
  BY DEF Nested, Origin, OverAt, Op
<1>4. /\ out.cpu \in Cpus /\ out.cpu.mid = "no"
      /\ OutDone(out, Op(cpu)) => cpu.stack = job.base /\ Returned(cpu, out.cpu)
      /\ ~OutDone(out, Op(cpu)) =>
           Balance(out.cpu.stack, job.base, job.k, Depth(out, Op(cpu)), Jsr(out, Op(cpu)))
  BY <1>1, <1>3, StepBalance DEF Nested
<1>5. job.k = "over" =>
         /\ OverDone(out, Op(cpu)) => out.cpu.stack = job.base
         /\ ~OverDone(out, Op(cpu)) => Origin(out.cpu, job.base, job.stop)
  BY <1>1, StepOrigin DEF Nested
<1>6. CASE PauseFor("BREAKPOINT")
  BY <1>6, NotFlowing DEF PauseFor, StepCompletes, NoJob
<1>7. CASE job' = NoJob /\ (OutDone(out, Op(cpu)) \/ OverDone(out, Op(cpu)))
  <2>1. Flowing'
    BY <1>7, NotFlowing DEF NoJob
  <2>2. CASE OutDone(out, Op(cpu))
    <3>1. job.k = "out"
      BY <2>2 DEF OutDone
    <3>. QED BY <1>2, <1>4, <2>1, <2>2, <3>1 DEF Returned, Landed
  <2>3. CASE OverDone(out, Op(cpu))
    <3>1. job.k = "over" /\ out.cpu.pc = job.stop
      BY <2>3 DEF OverDone
    <3>. QED BY <1>2, <1>5, <2>1, <2>3, <3>1 DEF Landed
  <2>. QED BY <1>7, <2>2, <2>3
<1>8. CASE job' = NoJob /\ exec' = "RUNNING"
  BY <1>8, NotFlowing DEF NoJob, StepCompletes
<1>9. CASE /\ ~OutDone(out, Op(cpu)) /\ ~OverDone(out, Op(cpu))
           /\ job' = [job EXCEPT !.left = @ - 1, !.first = FALSE,
                                 !.jsr = Jsr(out, Op(cpu)), !.depth = Depth(out, Op(cpu))]
  <2>1. /\ job'.k = job.k /\ job'.base = job.base /\ job'.stop = job.stop
        /\ job'.jsr = Jsr(out, Op(cpu)) /\ job'.depth = Depth(out, Op(cpu))
    BY <1>1, <1>9 DEF JobShape
  <2>2. ~StepCompletes
    BY <2>1 DEF StepCompletes, InFlow, NoJob
  <2>3. job'.k = "over" => Origin(cpu', job'.base, job'.stop)
    BY <1>2, <1>5, <1>9, <2>1
  <2>4. Balance(cpu'.stack, job'.base, job'.k, job'.depth, job'.jsr)
    BY <1>2, <1>4, <1>9, <2>1
  <2>5. AtBoundary' /\ job'.base \in Seq(Frames)
    BY <1>2, <1>4, <2>1 DEF AtBoundary, Nested
  <2>6. Nested'
    BY <2>3, <2>4, <2>5 DEF Nested
  <2>. QED BY <2>2, <2>6 DEF Flowing
<1>. QED BY <1>2, <1>6, <1>7, <1>8, <1>9

LEMMA NextNested ==
  ASSUME IInv, WellNested, Flowing, [Next]_vars
  PROVE  Flowing' /\ (StepCompletes /\ job.clean => Landed)
<1>1. Core /\ Fed /\ queue \in Seq(Commands) /\ JobShape
  BY DEF IInv, Core, Shape, Fed
<1>2. CASE TakeCommand
  <2>1. Head(queue) \in Commands /\ job = NoJob
    BY <1>1, <1>2 DEF TakeCommand, AtTop
  <2>2. Flowing'
    BY <1>1, <1>2, <2>1, KnownCommand, ProcessNested DEF TakeCommand
  <2>3. ~InFlow
    BY <2>1 DEF InFlow, NoJob
  <2>. QED BY <2>2, <2>3 DEF StepCompletes
<1>3. CASE StartBatch
  <2>1. job'.k = "batch" /\ job = NoJob
    BY <1>3 DEF StartBatch, AtTop, NoJob
  <2>. QED BY <2>1, NotFlowing DEF StepCompletes, InFlow, NoJob
<1>4. CASE CycleLoop \/ CycleLoopEnds \/ InstructionLoop
  <2>1. ~InFlow
    BY <1>4 DEF CycleLoop, InCycleLoop, CycleLoopEnds, InstructionLoop, InFlow, CycleJobs
  <2>2. \/ job' = NoJob
        \/ job' = [job EXCEPT !.left = @ - 1]
        \/ job' = [job EXCEPT !.left = @ - 1, !.first = FALSE]
    <3>1. CASE BreakpointStop \/ BrkStop \/ TempStop
      BY <3>1 DEF BreakpointStop, BrkStop, TempStop, PauseFor, PublishStepComplete
    <3>2. CASE CycleOn
      BY <3>2 DEF CycleOn, PauseFor, RunComplete
    <3>3. CASE CycleLoopEnds
      BY <3>3 DEF CycleLoopEnds, RunComplete
    <3>4. CASE InstructionOn
      BY <3>4 DEF InstructionOn, PauseFor
    <3>5. CASE PublishStepComplete(exec)
      BY <3>5 DEF PublishStepComplete
    <3>. QED BY <1>4, <3>1, <3>2, <3>3, <3>4, <3>5 DEF CycleLoop, InstructionLoop
  <2>3. job'.k \notin {"over", "out"}
    BY <1>1, <2>1, <2>2, LessLeft DEF InFlow, NoJob
  <2>. QED BY <2>1, <2>3, NotFlowing DEF StepCompletes
<1>5. CASE FlowLoop
  <2>1. CASE BreakpointStop \/ BrkStop
    BY <2>1, NotFlowing DEF BreakpointStop, BrkStop, PauseFor, StepCompletes, NoJob
  <2>2. CASE FlowOn /\ job.clean
    BY <1>1, <1>5, <2>2, FlowOnNested DEF FlowLoop, Flowing
  <2>3. CASE FlowOn /\ ~job.clean
    <3>1. job' = NoJob \/ job'.clean = job.clean
      <4>1. \/ job' = NoJob
            \/ \E m, d : job' = [job EXCEPT !.left = @ - 1, !.first = FALSE, !.jsr = m, !.depth = d]
        BY <2>3 DEF FlowOn, PauseFor, PublishStepComplete
      <4>. QED BY <1>1, <4>1 DEF JobShape
    <3>. QED BY <2>3, <3>1 DEF Flowing, InFlow, NoJob
  <2>. QED BY <1>5, <2>1, <2>2, <2>3 DEF FlowLoop
<1>6. CASE FlowAbort
  <2>1. cpu' = cpu /\ job' \in {NoJob, job}
    BY <1>6 DEF FlowAbort, FlowQuit
  <2>2. Flowing'
    BY <2>1, NestedKept, NotFlowing DEF NoJob
  <2>3. ~StepCompletes
    <3>. SUFFICES ASSUME StepCompletes PROVE FALSE
      OBVIOUS
    <3>1. job # NoJob /\ job' = NoJob /\ exec' = "PAUSED" /\ reason' = "STEP" /\ alive'
      BY DEF StepCompletes, InFlow, NoJob
    <3>. QED BY <1>6, <3>1 DEF FlowAbort, FlowQuit
  <2>. QED BY <2>2, <2>3
<1>7. CASE Exit \/ Stop \/ (\E c \in scenario.cmds : Post(c)) \/ UNCHANGED vars
  <2>1. UNCHANGED <<cpu, job>>
    BY <1>7 DEF Exit, Stop, Post, vars
  <2>2. ~StepCompletes
    BY <2>1 DEF StepCompletes, InFlow, NoJob
  <2>. QED BY <2>1, <2>2, NestedKept
<1>. QED BY <1>2, <1>3, <1>4, <1>5, <1>6, <1>7 DEF Next, Worker, Loop

\* Step over and step out of runtime_thread.c come to rest where they should, for
\* every program that keeps its frames in order, whatever it calls, however
\* often it recurses and whenever interrupts arrive, nested ones included.
THEOREM StepsReturn == Spec /\ []WellNested => StepReturns
<1>. DEFINE Done == StepCompletes /\ job.clean => Landed
<1>1. Init => Flowing
  BY DEF Init, Flowing, InFlow, NoJob
<1>2. IInv /\ WellNested /\ Flowing /\ [Next]_vars => Flowing'
  BY NextNested
<1>3. IInv /\ WellNested /\ Flowing /\ [Next]_vars => Done
  BY NextNested
<1>. HIDE DEF Done
<1>4. Spec /\ []WellNested => [][Done]_vars
  BY <1>1, <1>2, <1>3, Invariant, PTL DEF Spec
<1>. QED BY <1>4 DEF StepReturns, Done, Landed

-----------------------------------------------------------------------------
(* The breakpoint table.                                                   *)

Entries == [id : Nat, def : Definitions, on : BOOLEAN, cnt : Nat]
Ordered(t, n) ==
  /\ \A i, j \in 1 .. Len(t) : i < j => t[i].id < t[j].id
  /\ \A i \in 1 .. Len(t) : t[i].id < n
TableOK(t, n) == t \in Seq(Entries) /\ n \in Nat /\ Len(t) <= BpCapacity /\ Ordered(t, n)

LEMMA LeastFound ==
  ASSUME NEW S, S \subseteq Nat, S # {}
  PROVE  Min(S) \in S
<1>1. PICK x \in S : \A y \in S : ~(<<y, x>> \in OpToRel(<, Nat))
  BY NatLessThanWellFounded, WFMin
<1>2. \A y \in S : x <= y
  <2>. TAKE y \in S
  <2>1. x \in Nat /\ y \in Nat
    OBVIOUS
  <2>2. ~(y < x)
    <3>. SUFFICES ASSUME y < x PROVE <<y, x>> \in OpToRel(<, Nat)
      BY <1>1
    <3>1. <<y, x>> \in Nat \X Nat /\ <<y, x>>[1] < <<y, x>>[2]
      BY <2>1
    <3>. QED BY <3>1 DEF OpToRel
  <2>. QED BY <2>1, <2>2
<1>. QED BY <1>2 DEF Min

LEMMA IndexFound ==
  ASSUME bps \in Seq(Entries), NEW id
  PROVE  IndexOfId(id) = 0 \/ (IndexOfId(id) \in 1 .. Len(bps) /\ bps[IndexOfId(id)].id = id)
<1>. DEFINE I == {i \in 1 .. Len(bps) : bps[i].id = id}
<1>1. IndexOfId(id) = IF I # {} THEN Min(I) ELSE 0
  BY DEF IndexOfId, SelectInSeq
<1>2. I \subseteq Nat
  OBVIOUS
<1>3. I # {} => Min(I) \in I
  BY <1>2, LeastFound
<1>. QED BY <1>1, <1>3

LEMMA ExecuteFound ==
  ASSUME bps \in Seq(Entries), NEW a
  PROVE  ExecuteAt(a) = 0 \/ ExecuteAt(a) \in 1 .. Len(bps)
<1>. DEFINE I == {i \in 1 .. Len(bps) : /\ bps[i].def.addr = a /\ ~bps[i].def.ranged
                                       /\ "x" \in bps[i].def.acc /\ "break" \in bps[i].def.act}
<1>1. ExecuteAt(a) = IF I # {} THEN Min(I) ELSE 0
  BY DEF ExecuteAt, SelectInSeq
<1>2. I \subseteq Nat
  OBVIOUS
<1>3. I # {} => Min(I) \in I
  BY <1>2, LeastFound
<1>. QED BY <1>1, <1>3

\* Entries are rewritten in place: the ids and the length stay.
LEMMA SameIds ==
  ASSUME NEW t, NEW n, TableOK(t, n), NEW u \in Seq(Entries), Len(u) = Len(t),
         \A i \in 1 .. Len(t) : u[i].id = t[i].id
  PROVE  TableOK(u, n)
BY DEF TableOK, Ordered

LEMMA RecordedEntry ==
  ASSUME NEW b \in Entries
  PROVE  Recorded(b) \in Entries /\ Recorded(b).id = b.id
<1>1. b.def \in Definitions /\ b.cnt \in Nat
  BY DEF Entries
<1>2. b.def.reset \in Nat
  BY <1>1 DEF Definitions
<1>3. CASE ~b.def.use
  BY <1>3 DEF Recorded
<1>4. CASE b.def.use /\ ~Fires(b)
  <2>1. Recorded(b) = [b EXCEPT !.cnt = b.cnt - 1]
    BY <1>4 DEF Recorded, Entries
  <2>2. b.cnt - 1 \in Nat
    BY <1>1, <1>4 DEF Fires
  <2>. QED BY <2>1, <2>2 DEF Entries
<1>5. CASE b.def.use /\ Fires(b)
  <2>. DEFINE on == b.def.reset # 0
  <2>1. Recorded(b) = [b EXCEPT !.cnt = b.def.reset, !.on = on] /\ on \in BOOLEAN
    BY <1>5 DEF Recorded, Entries
  <2>. HIDE DEF on
  <2>. QED BY <1>2, <2>1 DEF Entries
<1>. QED BY <1>3, <1>4, <1>5

LEMMA ScanTable ==
  ASSUME NEW t, NEW n, TableOK(t, n), NEW acc, NEW a
  PROVE  TableOK(Scan(t, acc, a), n)
<1>. DEFINE u == Scan(t, acc, a)
<1>1. t \in Seq(Entries) /\ DOMAIN t = 1 .. Len(t) /\ Len(t) \in Nat
  BY DEF TableOK
<1>2. ASSUME NEW i \in 1 .. Len(t) PROVE u[i] \in Entries /\ u[i].id = t[i].id
  <2>1. t[i] \in Entries
    BY <1>1
  <2>2. u[i] \in {t[i], Recorded(t[i])}
    BY <1>1 DEF Scan
  <2>. QED BY <2>1, <2>2, RecordedEntry
<1>3. u = [i \in 1 .. Len(t) |-> u[i]]
  BY <1>1 DEF Scan
<1>. HIDE DEF u
<1>4. u \in Seq(Entries) /\ Len(u) = Len(t)
  BY <1>1, <1>2, <1>3
<1>. QED BY <1>2, <1>4, SameIds DEF u

LEMMA BreakpointEntry ==
  ASSUME NEW id \in Nat, NEW def \in Definitions
  PROVE  Breakpoint(id, def) \in Entries /\ Breakpoint(id, def).id = id
BY DEF Breakpoint, Entries, Definitions

LEMMA RemoveTable ==
  ASSUME NEW t, NEW n, TableOK(t, n), NEW k \in 1 .. Len(t)
  PROVE  TableOK(RemoveAt(t, k), n)
<1>. DEFINE a == SubSeq(t, 1, k - 1)
            b == SubSeq(t, k + 1, Len(t))
            u == RemoveAt(t, k)
<1>1. t \in Seq(Entries) /\ Len(t) \in Nat /\ k \in 1 .. Len(t) /\ BpCapacity \in Nat
      /\ Len(t) <= BpCapacity /\ Ordered(t, n) /\ n \in Nat
  BY Bounds DEF TableOK
<1>2. a \in Seq(Entries) /\ Len(a) = k - 1 /\ \A i \in 1 .. k - 1 : a[i] = t[i]
  BY <1>1
<1>3. b \in Seq(Entries) /\ Len(b) = Len(t) - k /\ \A i \in 1 .. Len(t) - k : b[i] = t[k + i]
  <2>1. b \in Seq(Entries)
    BY <1>1
  <2>2. Len(b) = Len(t) - k
    BY <1>1
  <2>3. \A i \in 1 .. Len(t) - k : b[i] = t[(k + 1) + i - 1]
    BY <1>1
  <2>4. \A i \in 1 .. Len(t) - k : (k + 1) + i - 1 = k + i
    BY <1>1
  <2>. QED BY <2>1, <2>2, <2>3, <2>4
<1>4. u = a \o b
  BY DEF RemoveAt
<1>. HIDE DEF a, b
<1>5. u \in Seq(Entries) /\ Len(u) = Len(a) + Len(b)
      /\ \A i \in 1 .. Len(a) + Len(b) : u[i] = IF i <= Len(a) THEN a[i] ELSE b[i - Len(a)]
  <2>1. a \in Seq(Entries) /\ b \in Seq(Entries)
    BY <1>2, <1>3
  <2>. QED BY <1>4, <2>1, ConcatProperties
<1>. HIDE DEF u
<1>6. Len(u) = Len(t) - 1
  BY <1>1, <1>2, <1>3, <1>5
<1>7. \A i \in 1 .. Len(u) : u[i] = IF i < k THEN t[i] ELSE t[i + 1]
  <2>. TAKE i \in 1 .. Len(u)
  <2>1. CASE i < k
    <3>1. i \in 1 .. k - 1 /\ i <= Len(a) /\ i \in 1 .. Len(a) + Len(b)
      BY <1>1, <1>2, <1>3, <1>5, <2>1
    <3>. QED BY <1>2, <1>5, <2>1, <3>1
  <2>2. CASE ~(i < k)
    <3>1. /\ ~(i <= Len(a)) /\ i \in 1 .. Len(a) + Len(b)
          /\ i - Len(a) \in 1 .. Len(t) - k /\ k + (i - Len(a)) = i + 1
      BY <1>1, <1>2, <1>3, <1>5, <2>2
    <3>. QED BY <1>3, <1>5, <2>2, <3>1
  <2>. QED BY <2>1, <2>2
<1>8. \A i \in 1 .. Len(u) : u[i].id < n
  <2>. TAKE i \in 1 .. Len(u)
  <2>1. i \in 1 .. Len(t) /\ i + 1 \in 1 .. Len(t)
    BY <1>1, <1>6
  <2>. QED BY <1>1, <1>7, <2>1 DEF Ordered
<1>9. ASSUME NEW i \in 1 .. Len(u), NEW j \in 1 .. Len(u), i < j PROVE u[i].id < u[j].id
  <2>1. PICK p \in 1 .. Len(t), q \in 1 .. Len(t) : p < q /\ u[i] = t[p] /\ u[j] = t[q]
    <3>1. CASE i < k /\ j < k
      <4>1. i \in 1 .. Len(t) /\ j \in 1 .. Len(t)
        BY <1>1, <1>6
      <4>. QED BY <1>7, <1>9, <3>1, <4>1
    <3>2. CASE i < k /\ ~(j < k)
      <4>1. i \in 1 .. Len(t) /\ j + 1 \in 1 .. Len(t) /\ i < j + 1
        BY <1>1, <1>6, <1>9
      <4>. QED BY <1>7, <3>2, <4>1
    <3>3. CASE ~(i < k)
      <4>1. i + 1 \in 1 .. Len(t) /\ j + 1 \in 1 .. Len(t) /\ i + 1 < j + 1 /\ ~(j < k)
        BY <1>1, <1>6, <1>9, <3>3
      <4>. QED BY <1>7, <3>3, <4>1
    <3>. QED BY <3>1, <3>2, <3>3
  <2>. QED BY <1>1, <2>1 DEF Ordered
<1>10. Ordered(u, n)
  BY <1>8, <1>9 DEF Ordered
<1>11. Len(u) <= BpCapacity
  BY <1>1, <1>6
<1>. QED BY <1>1, <1>5, <1>10, <1>11 DEF TableOK, u

LEMMA AppendTable ==
  ASSUME NEW t, NEW n, TableOK(t, n), ~(Len(t) >= BpCapacity),
         NEW e \in Entries, e.id = n
  PROVE  TableOK(Append(t, e), n + 1)
<1>. DEFINE u == Append(t, e)
<1>1. t \in Seq(Entries) /\ Len(t) \in Nat /\ BpCapacity \in Nat /\ Ordered(t, n) /\ n \in Nat
  BY Bounds DEF TableOK
<1>2. u \in Seq(Entries) /\ Len(u) = Len(t) + 1 /\ u[Len(t) + 1] = e
      /\ \A i \in 1 .. Len(t) : u[i] = t[i]
  BY <1>1
<1>. HIDE DEF u
<1>3. \A i \in 1 .. Len(u) : i \in 1 .. Len(t) \/ i = Len(t) + 1
  BY <1>1, <1>2
<1>4. \A i \in 1 .. Len(t) : t[i] \in Entries /\ t[i].id \in Nat /\ t[i].id < n
  <2>1. \A i \in 1 .. Len(t) : t[i] \in Entries
    BY <1>1
  <2>. QED BY <1>1, <2>1 DEF Ordered, Entries
<1>5. \A i \in 1 .. Len(u) : u[i].id < n + 1
  BY <1>1, <1>2, <1>3, <1>4
<1>6. ASSUME NEW i \in 1 .. Len(u), NEW j \in 1 .. Len(u), i < j PROVE u[i].id < u[j].id
  <2>1. i \in 1 .. Len(t)
    BY <1>1, <1>2, <1>6
  <2>. QED BY <1>1, <1>2, <1>3, <1>4, <1>6, <2>1 DEF Ordered
<1>7. Ordered(u, n + 1)
  BY <1>5, <1>6 DEF Ordered
<1>. QED BY <1>1, <1>2, <1>7 DEF TableOK, u

LEMMA ReplacedTable ==
  ASSUME NEW t, NEW n, TableOK(t, n), NEW k \in 1 .. Len(t), NEW e \in Entries, e.id = t[k].id
  PROVE  TableOK([t EXCEPT ![k] = e], n)
<1>. DEFINE u == [t EXCEPT ![k] = e]
<1>1. t \in Seq(Entries)
  BY DEF TableOK
<1>2. u \in Seq(Entries) /\ Len(u) = Len(t)
  BY <1>1
<1>3. \A i \in 1 .. Len(t) : u[i] = IF i = k THEN e ELSE t[i]
  BY <1>1
<1>. HIDE DEF u
<1>4. \A i \in 1 .. Len(t) : u[i].id = t[i].id
  BY <1>3
<1>. QED BY <1>2, <1>4, SameIds DEF u

\* What the type invariant adds to the proofs above.
Reasons == {"NONE", "RESET", "PAUSE_COMMAND", "STEP", "BREAKPOINT", "BRK", "RUN_COMPLETE"}
States == {"RUNNING", "PAUSED", "STOPPED"}
Flags == exec \in States /\ reason \in Reasons /\ pending \in BOOLEAN
Tabled == TableOK(bps, nextId)

LEMMA LookTable ==
  ASSUME Tabled
  PROVE  TableOK(AfterLook, nextId)
BY ScanTable DEF Tabled, AfterLook

LEMMA AccessTypes ==
  ASSUME NEW s, NEW n, TableOK(s.table, n), s.hit \in BOOLEAN, NEW a
  PROVE  TableOK(Access(s, a).table, n) /\ Access(s, a).hit \in BOOLEAN
<1>1. CASE s.hit \/ a = None
  BY <1>1 DEF Access
<1>2. CASE ~(s.hit \/ a = None)
  <2>1. Access(s, a) = [table |-> Scan(s.table, "m", a), hit |-> Stops(s.table, "m", a)]
    BY <1>2 DEF Access
  <2>2. Stops(s.table, "m", a) \in BOOLEAN
    BY DEF Stops
  <2>. QED BY <2>1, <2>2, ScanTable
<1>. QED BY <1>1, <1>2

LEMMA WatchedTypes ==
  ASSUME NEW t, NEW n, TableOK(t, n), pending \in BOOLEAN, NEW out
  PROVE  TableOK(Watched(t, out).table, n) /\ Watched(t, out).hit \in BOOLEAN
<1>. DEFINE s == [table |-> t, hit |-> pending]
<1>1. TableOK(s.table, n) /\ s.hit \in BOOLEAN
  OBVIOUS
<1>. HIDE DEF s
<1>2. TableOK(Access(s, out.before).table, n) /\ Access(s, out.before).hit \in BOOLEAN
  BY <1>1, AccessTypes
<1>. QED BY <1>2, AccessTypes DEF Watched, s

LEMMA WatchTypes ==
  ASSUME Flags, Tabled, NEW out
  PROVE  TableOK(AfterWatch(out), nextId) /\ WatchHit(out) \in BOOLEAN
BY LookTable, WatchedTypes DEF Flags, AfterWatch, WatchHit

LEMMA StayedTable ==
  ASSUME Tabled, StayPut, nextId' = nextId
  PROVE  Tabled'
BY LookTable DEF StayPut, Tabled

LEMMA PauseForFlags ==
  ASSUME NEW why \in {"BREAKPOINT", "BRK"}, PauseFor(why)
  PROVE  Flags'
BY DEF PauseFor, Flags, States, Reasons

LEMMA StopsTypes ==
  ASSUME Flags, Tabled, BreakpointStop \/ BrkStop \/ TempStop
  PROVE  Flags' /\ Tabled'
<1>1. Tabled'
  BY StayedTable DEF BreakpointStop, BrkStop, TempStop
<1>2. Flags'
  <2>1. CASE BreakpointStop \/ BrkStop
    BY <2>1, PauseForFlags DEF BreakpointStop, BrkStop
  <2>2. CASE TempStop
    BY <2>2 DEF TempStop, PublishStepComplete, Flags, States, Reasons
  <2>. QED BY <2>1, <2>2
<1>. QED BY <1>1, <1>2

LEMMA LoopTypes ==
  ASSUME Flags, Tabled, Loop
  PROVE  Flags' /\ Tabled'
<1>1. CASE BreakpointStop \/ BrkStop \/ TempStop
  BY <1>1, StopsTypes
<1>2. CASE CycleOn
  <2>1. PICK out : /\ bps' = AfterWatch(out) /\ nextId' = nextId
                   /\ \/ PauseFor("BREAKPOINT")
                      \/ /\ pending' = WatchHit(out)
                         /\ UNCHANGED <<exec, reason>> \/ RunComplete
    BY <1>2 DEF CycleOn
  <2>2. Tabled'
    BY <2>1, WatchTypes DEF Tabled
  <2>3. Flags'
    BY <2>1, PauseForFlags, WatchTypes DEF Flags, RunComplete, States, Reasons
  <2>. QED BY <2>2, <2>3
<1>3. CASE CycleLoopEnds
  <2>1. UNCHANGED <<bps, nextId, pending>>
    BY <1>3 DEF CycleLoopEnds, table
  <2>2. exec' \in {exec, "PAUSED"} /\ reason' \in {reason, "RUN_COMPLETE"}
    BY <1>3 DEF CycleLoopEnds, RunComplete
  <2>. QED BY <2>1, <2>2 DEF Flags, Tabled, States, Reasons
<1>4. CASE InstructionOn
  <2>1. PICK out : /\ bps' = AfterWatch(out) /\ nextId' = nextId
                   /\ \/ PauseFor("BREAKPOINT")
                      \/ pending' = FALSE /\ UNCHANGED <<exec, reason>>
    BY <1>4 DEF InstructionOn
  <2>2. Tabled'
    BY <2>1, WatchTypes DEF Tabled
  <2>. QED BY <2>1, <2>2, PauseForFlags DEF Flags
<1>5. CASE PublishStepComplete(exec) /\ UNCHANGED <<exec, pending, table>>
  BY <1>5 DEF PublishStepComplete, table, Flags, Tabled, Reasons
<1>6. CASE FlowOn
  <2>1. PICK out : /\ bps' = AfterWatch(out) /\ nextId' = nextId
                   /\ \/ PauseFor("BREAKPOINT")
                      \/ /\ pending' = WatchHit(out)
                         /\ exec' \in {exec, "RUNNING"} /\ reason' \in {reason, "STEP"}
    BY <1>6 DEF FlowOn, PublishStepComplete
  <2>2. Tabled'
    BY <2>1, WatchTypes DEF Tabled
  <2>3. Flags'
    BY <2>1, PauseForFlags, WatchTypes DEF Flags, States, Reasons
  <2>. QED BY <2>2, <2>3
<1>. QED BY <1>1, <1>2, <1>3, <1>4, <1>5, <1>6
         DEF Loop, CycleLoop, InstructionLoop, FlowLoop

LEMMA AbortTypes ==
  ASSUME Flags, Tabled, FlowAbort
  PROVE  Flags' /\ Tabled'
<1>1. UNCHANGED <<bps, nextId, pending>>
  BY DEF FlowAbort, table
<1>2. exec' \in {exec, "PAUSED", "RUNNING"} /\ reason' \in {reason, "PAUSE_COMMAND"}
  BY DEF FlowAbort, FlowQuit
<1>. QED BY <1>1, <1>2 DEF Flags, Tabled, States, Reasons

LEMMA EntryTypes ==
  ASSUME Flags, NEW t, NEW n, NEW heard, Entry(t, n, heard), TableOK(t, n)
  PROVE  Flags' /\ Tabled'
BY DEF Entry, Flags, Tabled

LEMMA RefuseTypes ==
  ASSUME Flags, Tabled, Refuse
  PROVE  Flags' /\ Tabled'
BY EntryTypes DEF Refuse, Tabled

LEMMA AddTypes ==
  ASSUME Flags, Tabled, NEW def \in Definitions, Add(def)
  PROVE  Flags' /\ Tabled'
<1>1. CASE ~Valid(def) \/ Len(bps) >= BpCapacity
  BY <1>1, RefuseTypes DEF Add
<1>2. CASE ~(~Valid(def) \/ Len(bps) >= BpCapacity)
  <2>1. nextId \in Nat
    BY DEF Tabled, TableOK
  <2>2. Breakpoint(nextId, def) \in Entries /\ Breakpoint(nextId, def).id = nextId
    BY <2>1, BreakpointEntry
  <2>3. TableOK(Append(bps, Breakpoint(nextId, def)), nextId + 1)
    BY <1>2, <2>2, AppendTable DEF Tabled
  <2>. QED BY <1>2, <2>3, EntryTypes DEF Add
<1>. QED BY <1>1, <1>2

\* The entry that a command switches on or off.
LEMMA SwitchTypes ==
  ASSUME Flags, Tabled, NEW i \in 1 .. Len(bps), NEW on \in BOOLEAN,
         Entry([bps EXCEPT ![i].on = on], nextId, Silent)
  PROVE  Flags' /\ Tabled'
<1>1. bps \in Seq(Entries) /\ bps[i] \in Entries
  BY DEF Tabled, TableOK
<1>. DEFINE e == [bps[i] EXCEPT !.on = on]
<1>2. e \in Entries /\ e.id = bps[i].id
  BY <1>1 DEF Entries
<1>3. [bps EXCEPT ![i].on = on] = [bps EXCEPT ![i] = e]
  OBVIOUS
<1>. HIDE DEF e
<1>4. TableOK([bps EXCEPT ![i] = e], nextId)
  BY <1>2, ReplacedTable DEF Tabled
<1>. QED BY <1>3, <1>4, EntryTypes

LEMMA RearmTypes ==
  ASSUME Flags, Tabled, Rearm
  PROVE  Flags' /\ Tabled'
<1>. DEFINE u == [i \in DOMAIN bps |->
                    IF bps[i].def.use /\ bps[i].def.reset = 0 /\ ~bps[i].on
                    THEN [bps[i] EXCEPT !.on = TRUE, !.cnt = bps[i].def.init] ELSE bps[i]]
<1>1. bps \in Seq(Entries) /\ DOMAIN bps = 1 .. Len(bps) /\ Len(bps) \in Nat
  BY DEF Tabled, TableOK
<1>2. ASSUME NEW i \in 1 .. Len(bps) PROVE u[i] \in Entries /\ u[i].id = bps[i].id
  <2>1. bps[i] \in Entries
    BY <1>1
  <2>. DEFINE e == [bps[i] EXCEPT !.on = TRUE, !.cnt = bps[i].def.init]
  <2>2. bps[i].def.init \in Nat
    BY <2>1 DEF Entries, Definitions
  <2>3. e \in Entries /\ e.id = bps[i].id
    BY <2>1, <2>2 DEF Entries
  <2>4. u[i] \in {bps[i], e}
    BY <1>1
  <2>. HIDE DEF u, e
  <2>. QED BY <2>1, <2>3, <2>4
<1>3. u = [i \in 1 .. Len(bps) |-> u[i]]
  BY <1>1
<1>4. Entry(u, nextId, Silent)
  BY DEF Rearm
<1>. HIDE DEF u
<1>5. u \in Seq(Entries) /\ Len(u) = Len(bps)
  BY <1>1, <1>2, <1>3
<1>6. TableOK(u, nextId)
  BY <1>2, <1>5, SameIds DEF Tabled
<1>. QED BY <1>4, <1>6, EntryTypes

LEMMA TableTypes ==
  ASSUME Flags, Tabled, NEW c \in Commands, Process(c),
         c.op \in {"setExecute", "create", "update", "duplicate", "clear", "clearAll",
                   "enable", "rearm"}
  PROVE  Flags' /\ Tabled'
<1>1. bps \in Seq(Entries) /\ Len(bps) \in Nat /\ nextId \in Nat
  BY DEF Tabled, TableOK
<1>2. \A i \in 1 .. Len(bps) :
         bps[i] \in Entries /\ bps[i].id \in Nat /\ bps[i].def \in Definitions /\ bps[i].on \in BOOLEAN
  <2>1. \A i \in 1 .. Len(bps) : bps[i] \in Entries
    BY <1>1
  <2>. QED BY <2>1 DEF Entries
<1>3. ASSUME NEW id, IndexOfId(id) # 0
      PROVE  IndexOfId(id) \in 1 .. Len(bps) /\ bps[IndexOfId(id)].id = id
  BY <1>1, <1>3, IndexFound
<1>4. CASE c.op = "setExecute"
  <2>1. SetExecute(c) /\ c.addr \in Nat /\ c.on \in BOOLEAN
    BY <1>4, KnownCommand DEF Process
  <2>2. CASE ExecuteAt(c.addr) = 0
    <3>1. PlainExecute(c.addr, c.on) \in Definitions
      BY <2>1 DEF PlainExecute, Definitions
    <3>2. Add(PlainExecute(c.addr, c.on))
      BY <2>1, <2>2 DEF SetExecute
    <3>. QED BY <2>1, <3>1, <3>2, AddTypes
  <2>3. CASE ExecuteAt(c.addr) # 0
    <3>. DEFINE i == ExecuteAt(c.addr)
    <3>1. i \in 1 .. Len(bps)
      BY <1>1, <2>3, ExecuteFound
    <3>2. Entry([bps EXCEPT ![i].on = c.on], nextId, Silent)
      BY <2>1, <2>3 DEF SetExecute
    <3>. HIDE DEF i
    <3>. QED BY <2>1, <3>1, <3>2, SwitchTypes
  <2>. QED BY <2>2, <2>3
<1>5. CASE c.op = "create"
  <2>1. Add(c.def) /\ c.def \in Definitions
    BY <1>5, KnownCommand DEF Process
  <2>. QED BY <2>1, AddTypes
<1>. DEFINE i == IndexOfId(c.id)
<1>6. CASE c.op \in {"update", "duplicate", "clear", "enable"} /\ i = 0
  <2>1. \E heard : Entry(bps, nextId, heard)
    BY <1>6 DEF Process, Update, Duplicate, Clear, Enable, OfId
  <2>. QED BY <2>1, EntryTypes DEF Tabled
<1>7. CASE c.op = "update" /\ i # 0
  <2>1. \/ Refuse
        \/ Entry([bps EXCEPT ![i] = Breakpoint(c.id, c.def)], nextId, Silent)
    BY <1>7 DEF Process, Update, OfId
  <2>2. i \in 1 .. Len(bps) /\ bps[i].id = c.id /\ c.id \in Nat /\ c.def \in Definitions
    BY <1>2, <1>3, <1>7, KnownCommand
  <2>3. Breakpoint(c.id, c.def) \in Entries /\ Breakpoint(c.id, c.def).id = c.id
    BY <2>2, BreakpointEntry
  <2>. HIDE DEF i
  <2>4. TableOK([bps EXCEPT ![i] = Breakpoint(c.id, c.def)], nextId)
    BY <2>2, <2>3, ReplacedTable DEF Tabled
  <2>. QED BY <2>1, <2>4, EntryTypes, RefuseTypes
<1>8. CASE c.op = "duplicate" /\ i # 0
  <2>1. Add([bps[i].def EXCEPT !.on = bps[i].on])
    BY <1>8 DEF Process, Duplicate, OfId
  <2>2. i \in 1 .. Len(bps)
    BY <1>3, <1>8
  <2>. HIDE DEF i
  <2>3. [bps[i].def EXCEPT !.on = bps[i].on] \in Definitions
    <3>1. \A def \in Definitions, on \in BOOLEAN : [def EXCEPT !.on = on] \in Definitions
      BY DEF Definitions
    <3>. QED BY <1>2, <2>2, <3>1
  <2>. QED BY <2>1, <2>3, AddTypes
<1>9. CASE c.op = "clear" /\ i # 0
  <2>1. Entry(RemoveAt(bps, i), nextId, Silent)
    BY <1>9 DEF Process, Clear, OfId
  <2>2. i \in 1 .. Len(bps)
    BY <1>3, <1>9
  <2>. HIDE DEF i
  <2>3. TableOK(RemoveAt(bps, i), nextId)
    BY <2>2, RemoveTable DEF Tabled
  <2>. QED BY <2>1, <2>3, EntryTypes
<1>10. CASE c.op = "enable" /\ i # 0
  <2>1. Entry([bps EXCEPT ![i].on = c.on], nextId, Silent) /\ c.on \in BOOLEAN
    BY <1>10, KnownCommand DEF Process, Enable, OfId
  <2>2. i \in 1 .. Len(bps)
    BY <1>3, <1>10
  <2>. HIDE DEF i
  <2>. QED BY <2>1, <2>2, SwitchTypes
<1>11. CASE c.op = "clearAll"
  <2>1. Entry(<<>>, nextId, Silent)
    BY <1>11 DEF Process, ClearAll
  <2>2. TableOK(<<>>, nextId)
    BY <1>1, Bounds DEF TableOK, Ordered
  <2>. QED BY <2>1, <2>2, EntryTypes
<1>12. CASE c.op = "rearm"
  BY <1>12, RearmTypes DEF Process
<1>. HIDE DEF i
<1>. QED BY <1>4, <1>5, <1>6, <1>7, <1>8, <1>9, <1>10, <1>11, <1>12

LEMMA ProcessTypes ==
  ASSUME Flags, Tabled, NEW c \in Commands, Process(c)
  PROVE  Flags' /\ Tabled'
<1>1. CASE c.op \in {"setExecute", "create", "update", "duplicate", "clear", "clearAll",
                     "enable", "rearm"}
  BY <1>1, TableTypes
<1>2. CASE c.op \in {"quit", "run", "pause", "runTo"}
  BY <1>2 DEF Process, Quit, Run, Pause, RunToCursor, table, Flags, Tabled, States, Reasons
<1>3. CASE c.op = "reset"
  <2>1. /\ UNCHANGED <<bps, nextId>> /\ pending' = FALSE
        /\ exec' \in {"RUNNING", "PAUSED"} /\ reason' \in {"NONE", "RESET"}
    BY <1>3 DEF Process, Reset, table
  <2>. QED BY <2>1 DEF Flags, Tabled, States, Reasons
<1>4. ASSUME NEW outs, StepBy(outs) PROVE Flags' /\ Tabled'
  <2>1. \E out : bps' = Watched(bps, out).table
    BY <1>4 DEF StepBy
  <2>2. TableOK(bps', nextId)
    BY <2>1, WatchedTypes DEF Tabled, Flags
  <2>. QED BY <1>4, <2>2 DEF StepBy, PublishStepComplete, Flags, Tabled, States, Reasons
<1>5. ASSUME NEW k, NEW stop, NEW n, NEW clean, StartFlow(k, stop, n, clean) PROVE Flags' /\ Tabled'
  BY <1>5 DEF StartFlow, table, Flags, Tabled, States
<1>6. CASE c.op \in {"stepCycle", "stepInstruction", "stepOver", "stepOut"}
  BY <1>4, <1>5, <1>6 DEF Process, StepOver, StepOut
<1>7. ASSUME NEW k, NEW n, NEW e \in {exec, "PAUSED"}, NEW sup, StartLoop(k, n, e, sup)
      PROVE  Flags' /\ Tabled'
  BY <1>7 DEF StartLoop, table, Flags, Tabled, States
<1>8. CASE c.op \in {"runCycles", "runInstructions", "stepFrame", "runToRaster"}
  BY <1>7, <1>8 DEF Process
<1>9. c.op \in CommandOps
  BY KnownCommand
<1>. QED BY <1>1, <1>2, <1>3, <1>6, <1>8, <1>9 DEF CommandOps

Types == Flags /\ Tabled /\ ended \in BOOLEAN /\ Len(queue) <= CommandQueue

LEMMA TypesInitially == Init => Types
<1>. SUFFICES ASSUME Init PROVE Types
  OBVIOUS
<1>. PICK sb : sb = scenario.bps
  OBVIOUS
<1>1. /\ sb \in Seq(Definitions) /\ Len(sb) <= BpCapacity /\ Len(sb) \in Nat
      /\ bps = [i \in 1 .. Len(sb) |-> Breakpoint(i, sb[i])]
  <2>1. sb \in Seq(Definitions) /\ Len(sb) <= BpCapacity
    BY TableFits DEF Init
  <2>2. DOMAIN sb = 1 .. Len(sb)
    BY <2>1
  <2>3. bps = [i \in DOMAIN sb |-> Breakpoint(i, sb[i])]
    BY DEF Init
  <2>. QED BY <2>1, <2>2, <2>3
<1>2. ASSUME NEW i \in 1 .. Len(sb) PROVE bps[i] \in Entries /\ bps[i].id = i
  <2>1. bps[i] = Breakpoint(i, sb[i])
    BY <1>1
  <2>2. sb[i] \in Definitions /\ i \in Nat
    BY <1>1
  <2>. QED BY <2>1, <2>2, BreakpointEntry
<1>3. bps = [i \in 1 .. Len(sb) |-> bps[i]]
  BY <1>1
<1>4. bps \in Seq(Entries) /\ Len(bps) = Len(sb)
  <2>. PICK m \in Nat : m = Len(sb)
    BY <1>1
  <2>1. [i \in 1 .. m |-> bps[i]] \in Seq(Entries) /\ Len([i \in 1 .. m |-> bps[i]]) = m
    BY <1>2
  <2>. QED BY <1>3, <2>1
<1>5. nextId = Len(sb) + 1
  BY DEF Init
<1>6. Tabled
  <2>1. \A i \in 1 .. Len(bps) : bps[i].id = i
    BY <1>2, <1>4
  <2>2. nextId \in Nat /\ nextId = Len(bps) + 1 /\ Len(bps) <= BpCapacity
    BY <1>1, <1>4, <1>5
  <2>3. Ordered(bps, nextId)
    BY <1>4, <2>1, <2>2 DEF Ordered
  <2>. QED BY <1>4, <2>2, <2>3 DEF Tabled, TableOK
<1>7. Flags /\ ended \in BOOLEAN
  BY DEF Init, Flags, States, Reasons
<1>8. Len(queue) <= CommandQueue
  BY Bounds DEF Init
<1>. QED BY <1>6, <1>7, <1>8 DEF Types

LEMMA TypesInductive == IInv /\ Types /\ [Next]_vars => Types'
<1>. SUFFICES ASSUME IInv, Types, [Next]_vars PROVE Types'
  OBVIOUS
<1>1. /\ Flags /\ Tabled /\ ended \in BOOLEAN /\ queue \in Seq(Commands)
      /\ Len(queue) \in Nat /\ Len(queue) <= CommandQueue /\ CommandQueue \in Nat
  BY Bounds DEF IInv, Fed, Types
<1>2. queue # <<>> => Head(queue) \in Commands /\ Len(Tail(queue)) <= CommandQueue
  BY <1>1
<1>3. CASE TakeCommand
  <2>1. /\ Head(queue) \in Commands /\ queue' = Tail(queue) /\ Len(queue') <= CommandQueue
        /\ Process(Head(queue)) /\ ended' = ended
    BY <1>2, <1>3 DEF TakeCommand
  <2>2. Flags' /\ Tabled'
    BY <1>1, <2>1, ProcessTypes
  <2>. QED BY <1>1, <2>1, <2>2 DEF Types
<1>4. CASE Loop
  <2>1. UNCHANGED <<ended, queue>>
    BY <1>4 DEF Loop, client
  <2>. QED BY <1>1, <1>4, <2>1, LoopTypes DEF Types
<1>5. CASE FlowAbort
  <2>1. queue' = Tail(queue) /\ Len(queue') <= CommandQueue /\ ended' = ended
    BY <1>2, <1>5 DEF FlowAbort
  <2>. QED BY <1>1, <1>5, <2>1, AbortTypes DEF Types
<1>6. CASE StartBatch \/ Exit \/ UNCHANGED vars
  <2>1. UNCHANGED <<exec, reason, pending, bps, nextId, queue>> /\ ended' \in {ended, TRUE}
    BY <1>6 DEF StartBatch, Exit, vars, table, client
  <2>. QED BY <1>1, <2>1 DEF Types, Flags, Tabled
<1>7. CASE Stop \/ \E c \in scenario.cmds : Post(c)
  <2>1. UNCHANGED <<exec, reason, pending, bps, nextId, ended>>
    BY <1>7 DEF Stop, Post, table
  <2>2. Len(queue') <= CommandQueue
    <3>1. \/ queue' = queue
          \/ Len(queue) < CommandQueue /\ \E c : queue' = Append(queue, c)
      BY <1>7 DEF Stop, Post
    <3>2. \A c : Len(Append(queue, c)) = Len(queue) + 1
      BY <1>1
    <3>. QED BY <1>1, <3>1, <3>2
  <2>. QED BY <1>1, <2>1, <2>2 DEF Types, Flags, Tabled
<1>. QED BY <1>3, <1>4, <1>5, <1>6, <1>7 DEF Next, Worker

\* Every variable of the worker in runtime_thread.c keeps its kind, for every
\* program and command script: the breakpoint table stays within its capacity
\* with ascending ids and counters that never fall below zero.
THEOREM TypeCorrect == Spec => []TypeOK
<1>1. Spec => []Types
  BY TypesInitially, TypesInductive, Invariant, PTL DEF Spec
<1>2. IInv /\ Types => TypeOK
  <2>. SUFFICES ASSUME IInv, Types PROVE TypeOK
    OBVIOUS
  <2>1. /\ cpu.pc \in Addr /\ cpu.mid \in {"no", "insn", "irq"} /\ cpu.icf \in BOOLEAN
        /\ cpu.stack \in Seq([kind : {"call", "irq", "brk"}, ret : Addr])
    BY DEF IInv, Core, Shape, Cpus, Frames
  <2>2. /\ bps \in Seq([id : Nat, def : Definitions, on : BOOLEAN, cnt : Nat])
        /\ Len(bps) <= BpCapacity /\ DOMAIN bps = 1 .. Len(bps) /\ Ordered(bps, nextId)
    BY DEF Types, Tabled, TableOK, Entries
  <2>3. /\ \A i, j \in DOMAIN bps : i < j => bps[i].id < bps[j].id
        /\ \A i \in DOMAIN bps : bps[i].id < nextId
    BY <2>2 DEF Ordered
  <2>4. /\ {suppress, pending, alive, ended} \subseteq BOOLEAN /\ shown \in {"stop", "reset", "no"}
        /\ job.k \in CycleJobs \cup {"none", "insns", "over", "out"}
        /\ told \in {"RUNNING", "PAUSED", "ERROR"}
    BY DEF IInv, Core, Shape, Excuses, JobShape, Kinds, Believes, Types, Flags
  <2>5. /\ exec \in {"RUNNING", "PAUSED", "STOPPED"}
        /\ reason \in {"NONE", "RESET", "PAUSE_COMMAND", "STEP", "BREAKPOINT", "BRK", "RUN_COMPLETE"}
        /\ Len(queue) <= CommandQueue
    BY DEF Types, Flags, States, Reasons
  <2>. QED BY <2>1, <2>2, <2>3, <2>4, <2>5 DEF TypeOK
<1>. QED BY <1>1, <1>2, Invariant, PTL
==============================================================================
