-------------------------- MODULE A2mWorker_proofs ---------------------------
(***************************************************************************)
(* The a2m worker's command intake, for every queue capacity and every     *)
(* number of commands: reading ahead never reorders, only stale lands are  *)
(* skipped and nothing is lost between the queue and the worker's hands.   *)
(***************************************************************************)
EXTENDS A2mWorker, TLAPS

\* The commands that have left the queue are numbered 1 .. Popped.
Popped == Len(sent) - Len(queue)

\* Commands carry the number of their acceptance, and the queue is what is
\* left of them.
Numbered ==
  /\ \A n \in DOMAIN sent : sent[n].n = n
  /\ Len(queue) <= Len(sent)
  /\ \A i \in DOMAIN queue : queue[i] = sent[Popped + i]

\* A command the worker holds, or has run, is the one that was sent under its
\* number, and has left the queue.
Genuine(c) == c.n \in 1 .. Popped /\ c = sent[c.n]

\* What has run is older than the command in hand, which is older than the one
\* held back, which is no land.
Pipeline ==
  /\ \A i \in DOMAIN executed : Genuine(executed[i]) /\ i <= executed[i].n
  /\ InOrder
  /\ command # None =>
       Genuine(command) /\ \A i \in DOMAIN executed : executed[i].n < command.n
  /\ deferred # None =>
       /\ Genuine(deferred) /\ ~IsInspectorLand(deferred)
       /\ \A i \in DOMAIN executed : executed[i].n < deferred.n
       /\ command # None => command.n < deferred.n

\* Where the worker holds commands.
Control ==
  /\ w_pc \in {"coalesce", "drop", "process"} => command # None
  /\ w_pc \in {"top", "inner", "outer", "wait"} => command = None
  /\ w_pc \in {"wait", "coalesce", "drop"} => deferred = None
  /\ u_pc # "live" => quit_requested
  /\ u_pc \in {"live", "clear", "push"} => Len(sent) <= MaxSends

\* A land that may be skipped.
Stale(n) ==
  /\ IsInspectorLand(sent[n])
  /\ \/ /\ n + 1 \in DOMAIN sent
        /\ IsInspectorLand(sent[n + 1]) \/ PreemptsInspectorLand(sent[n + 1])
     \/ \E m \in 1 .. n - 1 : /\ PreemptsInspectorLand(sent[m])
                              /\ \A k \in m + 1 .. n : IsInspectorLand(sent[k])

\* Until it is told to quit, the worker has run, holds, or rightly skipped
\* whatever has left the queue; reading ahead starts behind the command in hand.
Accounted ==
  quit_requested \/
    /\ \A n \in 1 .. Popped : \/ \E i \in DOMAIN executed : executed[i].n = n
                              \/ command = sent[n] \/ deferred = sent[n]
                              \/ Stale(n)
    /\ w_pc = "coalesce" /\ IsInspectorLand(command) => command.n = Popped
    /\ w_pc = "drop" => /\ PreemptsInspectorLand(command)
                        /\ \A k \in command.n + 1 .. Popped : IsInspectorLand(sent[k])

IInv == TypeOK /\ Numbered /\ Pipeline /\ Control /\ Accounted

LEMMA NoneIsNoCommand ==
  ASSUME NEW c \in CommandOf
  PROVE  c # None /\ c.n \in 1 .. MaxSends + 1
BY BoundsAssumption DEF CommandOf, None

\* Taking a command off the queue takes the oldest that is still there.
LEMMA Pop ==
  ASSUME TypeOK, Numbered, queue # <<>>, queue' = Tail(queue), sent' = sent
  PROVE  /\ queue' \in Seq(CommandOf) /\ Len(queue') <= Capacity
         /\ Popped \in Nat /\ Popped' = Popped + 1 /\ Popped' <= Len(sent)
         /\ Head(queue) \in CommandOf /\ Head(queue) # None
         /\ Head(queue) = sent[Popped'] /\ Head(queue).n = Popped'
         /\ Numbered'
<1>1. /\ Len(queue) \in Nat \ {0} /\ Len(sent) \in Nat
      /\ queue' \in Seq(CommandOf) /\ Len(queue') = Len(queue) - 1
      /\ \A i \in DOMAIN queue' : queue'[i] = queue[i + 1] /\ i + 1 \in DOMAIN queue
      /\ Head(queue) = queue[1] /\ 1 \in DOMAIN queue /\ Head(queue) \in CommandOf
  BY DEF TypeOK
<1>2. Popped \in Nat /\ Popped' = Popped + 1 /\ Popped' <= Len(sent)
  BY <1>1 DEF Popped, Numbered
<1>3. Head(queue) = sent[Popped'] /\ Popped' \in DOMAIN sent
  BY <1>1, <1>2 DEF Numbered, TypeOK
<1>4. Head(queue).n = Popped'
  BY <1>3 DEF Numbered
<1>5. Numbered'
  <2>1. \A i \in DOMAIN queue' : queue'[i] = sent'[Popped' + i]
    <3> SUFFICES ASSUME NEW i \in DOMAIN queue' PROVE queue'[i] = sent'[Popped' + i]
      OBVIOUS
    <3>1. queue'[i] = queue[i + 1] /\ i + 1 \in DOMAIN queue /\ i \in Nat
      BY <1>1
    <3>2. queue[i + 1] = sent[Popped + (i + 1)]
      BY <3>1 DEF Numbered
    <3> QED BY <3>1, <3>2, <1>2
  <2> QED BY <2>1, <1>1, <1>2 DEF Numbered
<1> QED BY <1>1, <1>2, <1>3, <1>4, <1>5, NoneIsNoCommand, BoundsAssumption DEF TypeOK

LEMMA StaleKept ==
  ASSUME NEW n, sent' = sent
  PROVE  Stale(n)' <=> Stale(n)
BY DEF Stale, IsInspectorLand, PreemptsInspectorLand

LEMMA PoppedNat ==
  ASSUME TypeOK, Numbered
  PROVE  Popped \in Nat /\ Popped <= Len(sent) /\ Len(sent) \in Nat
BY DEF TypeOK, Numbered, Popped

LEMMA InitIInv == Init => IInv
<1> SUFFICES ASSUME Init PROVE IInv
  OBVIOUS
<1>1. TypeOK
  <2>1. quit_requested \in BOOLEAN /\ in_drain \in BOOLEAN
    BY DEF Init
  <2> QED BY <2>1, BoundsAssumption DEF Init, TypeOK
<1>2. Popped = 0
  BY DEF Init, Popped
<1>3. Numbered
  BY DEF Init, Numbered
<1>4. Pipeline /\ Control
  BY BoundsAssumption DEF Init, Pipeline, Control, InOrder
<1>5. Accounted
  BY <1>2 DEF Init, Accounted
<1> QED BY <1>1, <1>3, <1>4, <1>5 DEF IInv

\* Steps that move no command.
LEMMA MovesNothing ==
  ASSUME IInv, UNCHANGED <<queue, sent, command, deferred, executed>>,
         quit_requested' = quit_requested \/ quit_requested' = TRUE,
         exec_state' \in {"running", "paused"}, in_drain' \in BOOLEAN,
         w_pc' \in {"top", "inner", "outer", "wait", "coalesce", "drop", "process", "exited"},
         u_pc' \in {"live", "clear", "push", "join", "joined"},
         w_pc' \in {"coalesce", "drop"} => w_pc' = w_pc,
         Control'
  PROVE  IInv'
<1> USE DEF IInv
<1>1. TypeOK'
  BY DEF TypeOK
<1>2. Popped' = Popped
  BY DEF Popped
<1>3. Numbered'
  BY <1>2 DEF Numbered
<1>4. Pipeline'
  BY <1>2 DEF Pipeline, InOrder, Genuine, IsInspectorLand
<1>5. Accounted'
  <2>1. CASE quit_requested'
    BY <2>1 DEF Accounted
  <2>2. CASE ~quit_requested'
    <3>1. \A n : Stale(n)' <=> Stale(n)
      BY StaleKept
    <3> QED BY <1>2, <2>2, <3>1 DEF Accounted, IsInspectorLand, PreemptsInspectorLand
  <2> QED BY <2>1, <2>2
<1> QED BY <1>1, <1>3, <1>4, <1>5

LEMMA TopStep == ASSUME IInv, Top PROVE IInv'
BY MovesNothing DEF Top, WorkerTo, IInv, TypeOK, Control

LEMMA OuterStep == ASSUME IInv, Outer PROVE IInv'
BY MovesNothing DEF Outer, WorkerTo, IInv, TypeOK, Control

\* The command held back is taken in hand.
LEMMA TakeDeferred ==
  ASSUME IInv, w_pc = "inner", deferred # None, command' = deferred, deferred' = None,
         in_drain' = TRUE, w_pc' = "coalesce",
         UNCHANGED <<queue, quit_requested, exec_state, u_pc, sent, executed>>
  PROVE  IInv'
<1> USE DEF IInv
<1>1. TypeOK'
  <2>1. in_drain' \in BOOLEAN
    OBVIOUS
  <2> QED BY <2>1 DEF TypeOK
<1>2. Popped' = Popped /\ command = None
  BY DEF Popped, Control
<1>3. Numbered'
  BY <1>2 DEF Numbered
<1>4. Pipeline'
  BY <1>2 DEF Pipeline, InOrder, Genuine, IsInspectorLand
<1>5. Control'
  BY DEF Control
<1>6. Accounted'
  <2>1. \A n : Stale(n)' <=> Stale(n)
    BY StaleKept
  <2>2. ~IsInspectorLand(command')
    BY DEF Pipeline
  <2> SUFFICES ASSUME ~quit_requested
               PROVE  \A n \in 1 .. Popped :
                        \/ \E i \in DOMAIN executed : executed[i].n = n
                        \/ command' = sent[n] \/ Stale(n)
    BY <1>2, <2>1, <2>2 DEF Accounted, IsInspectorLand
  <2> TAKE n \in 1 .. Popped
  <2>3. None # sent[n]
    BY PoppedNat, NoneIsNoCommand DEF TypeOK
  <2> QED BY <1>2, <2>3 DEF Accounted
<1> QED BY <1>1, <1>3, <1>4, <1>5, <1>6

\* A command is taken off the queue with nothing in hand.
LEMMA TakeFromQueue ==
  ASSUME IInv, w_pc \in {"inner", "wait"}, deferred = None, queue # <<>>,
         command' = Head(queue), queue' = Tail(queue), in_drain' \in BOOLEAN,
         w_pc' \in {"coalesce", "exited"}, w_pc' = "exited" => quit_requested,
         UNCHANGED <<deferred, quit_requested, exec_state, u_pc, sent, executed>>
  PROVE  IInv'
<1> USE DEF IInv
<1>0. /\ queue' \in Seq(CommandOf) /\ Len(queue') <= Capacity
      /\ Popped \in Nat /\ Popped' = Popped + 1 /\ Popped' <= Len(sent)
      /\ command' \in CommandOf /\ command' # None
      /\ command' = sent[Popped'] /\ command'.n = Popped'
      /\ Numbered'
  BY Pop
<1>1. TypeOK'
  BY <1>0 DEF TypeOK
<1>4. Pipeline'
  <2>1. \A i \in DOMAIN executed : /\ executed[i].n \in 1 .. Popped' /\ executed[i] = sent[executed[i].n]
                                   /\ executed[i].n < command'.n
    BY <1>0 DEF Pipeline, Genuine
  <2> QED BY <1>0, <2>1 DEF Pipeline, InOrder, Genuine
<1>5. Control'
  BY <1>0 DEF Control
<1>6. Accounted'
  <2>1. \A n : Stale(n)' <=> Stale(n)
    BY StaleKept
  <2> SUFFICES ASSUME ~quit_requested
               PROVE  \A n \in 1 .. Popped' :
                        \/ \E i \in DOMAIN executed : executed[i].n = n
                        \/ command' = sent[n] \/ Stale(n)
    BY <1>0, <2>1 DEF Accounted
  <2> TAKE n \in 1 .. Popped'
  <2>2. CASE n = Popped'
    BY <2>2, <1>0
  <2>3. CASE n \in 1 .. Popped
    <3>1. None # sent[n] /\ command = None
      BY <2>3, PoppedNat, NoneIsNoCommand DEF TypeOK, Control
    <3> QED BY <2>3, <3>1 DEF Accounted
  <2> QED BY <1>0, <2>2, <2>3
<1> QED BY <1>0, <1>1, <1>4, <1>5, <1>6

LEMMA InnerStep == ASSUME IInv, Inner PROVE IInv'
<1>1. CASE w_pc' \in {"exited", "outer"} /\ UNCHANGED <<queue, command, deferred, in_drain>>
  BY <1>1, MovesNothing DEF Inner, WorkerTo, IInv, TypeOK, Control
<1>2. CASE deferred # None /\ command' = deferred /\ deferred' = None /\ in_drain' = TRUE
           /\ UNCHANGED queue /\ WorkerTo("coalesce")
  BY <1>2, TakeDeferred DEF Inner, WorkerTo
<1>3. CASE deferred = None /\ queue # <<>> /\ command' = Head(queue) /\ queue' = Tail(queue)
           /\ in_drain' = TRUE /\ UNCHANGED deferred /\ WorkerTo("coalesce")
  BY <1>3, TakeFromQueue DEF Inner, WorkerTo
<1> QED BY <1>1, <1>2, <1>3 DEF Inner, WorkerTo

LEMMA WaitPopStep == ASSUME IInv, WaitPop PROVE IInv'
<1>1. CASE queue = <<>>
  BY <1>1, MovesNothing DEF WaitPop, IInv, TypeOK, Control
<1>2. CASE queue # <<>>
  <2>1. deferred = None /\ in_drain' \in BOOLEAN
    BY <1>2 DEF WaitPop, IInv, Control
  <2> QED BY <1>2, <2>1, TakeFromQueue DEF WaitPop
<1> QED BY <1>1, <1>2

\* A land in hand is replaced by the command behind it.
LEMMA Supersede ==
  ASSUME IInv, w_pc = "coalesce", IsInspectorLand(command), queue # <<>>,
         command' = Head(queue), queue' = Tail(queue),
         \/ IsInspectorLand(Head(queue)) /\ w_pc' = "coalesce"
         \/ PreemptsInspectorLand(Head(queue)) /\ w_pc' = "drop",
         UNCHANGED <<deferred, quit_requested, exec_state, in_drain, u_pc, sent, executed>>
  PROVE  IInv'
<1> USE DEF IInv
<1>0. /\ queue' \in Seq(CommandOf) /\ Len(queue') <= Capacity
      /\ Popped \in Nat /\ Popped' = Popped + 1 /\ Popped' <= Len(sent)
      /\ command' \in CommandOf /\ command' # None
      /\ command' = sent[Popped'] /\ command'.n = Popped'
      /\ Numbered'
  BY Pop
<1>1. TypeOK'
  BY <1>0 DEF TypeOK
<1>2. deferred = None /\ command # None
  BY DEF Control
<1>4. Pipeline'
  <2>1. \A i \in DOMAIN executed : /\ executed[i].n \in 1 .. Popped' /\ executed[i] = sent[executed[i].n]
                                   /\ executed[i].n < command'.n
    BY <1>0 DEF Pipeline, Genuine
  <2> QED BY <1>0, <1>2, <2>1 DEF Pipeline, InOrder, Genuine
<1>5. Control'
  BY <1>0 DEF Control
<1>6. Accounted'
  <2>1. \A n : Stale(n)' <=> Stale(n)
    BY StaleKept
  <2> SUFFICES ASSUME ~quit_requested
               PROVE  \A n \in 1 .. Popped' :
                        \/ \E i \in DOMAIN executed : executed[i].n = n
                        \/ command' = sent[n] \/ Stale(n)
    BY <1>0, <1>2, <2>1 DEF Accounted
  <2> TAKE n \in 1 .. Popped'
  <2>2. CASE n = Popped'
    BY <2>2, <1>0
  <2>3. CASE n \in 1 .. Popped /\ command = sent[n]
    <3>1. command.n = Popped /\ Genuine(command)
      BY DEF Accounted, Pipeline, Control
    <3>2. n = Popped
      <4>1. sent[n].n = n
        BY <2>3, PoppedNat DEF Numbered, TypeOK
      <4> QED BY <2>3, <3>1, <4>1
    <3>3. sent[n + 1] = Head(queue) /\ n + 1 \in DOMAIN sent
      BY <1>0, <3>2 DEF TypeOK
    <3>4. Stale(n)
      BY <2>3, <3>3 DEF Stale
    <3> QED BY <3>4
  <2>4. CASE n \in 1 .. Popped /\ command # sent[n]
    <3>1. None # sent[n]
      BY <2>4, PoppedNat, NoneIsNoCommand DEF TypeOK
    <3> QED BY <1>2, <2>4, <3>1 DEF Accounted
  <2> QED BY <1>0, <2>2, <2>3, <2>4
<1> QED BY <1>0, <1>1, <1>4, <1>5, <1>6

\* The command behind the one in hand is held back.
LEMMA HoldBack ==
  ASSUME IInv, w_pc \in {"coalesce", "drop"}, queue # <<>>, ~IsInspectorLand(Head(queue)),
         deferred' = Head(queue), queue' = Tail(queue), w_pc' = "process",
         UNCHANGED <<command, quit_requested, exec_state, in_drain, u_pc, sent, executed>>
  PROVE  IInv'
<1> USE DEF IInv
<1>0. /\ queue' \in Seq(CommandOf) /\ Len(queue') <= Capacity
      /\ Popped \in Nat /\ Popped' = Popped + 1 /\ Popped' <= Len(sent)
      /\ deferred' \in CommandOf /\ deferred' # None
      /\ deferred' = sent[Popped'] /\ deferred'.n = Popped'
      /\ Numbered'
  BY Pop
<1>1. TypeOK'
  BY <1>0 DEF TypeOK
<1>2. deferred = None /\ command # None
  BY DEF Control
<1>4. Pipeline'
  <2>1. \A i \in DOMAIN executed : /\ executed[i].n \in 1 .. Popped' /\ executed[i] = sent[executed[i].n]
                                   /\ executed[i].n < deferred'.n
    BY <1>0 DEF Pipeline, Genuine
  <2>2. command.n \in 1 .. Popped' /\ command = sent[command.n] /\ command.n < deferred'.n
    BY <1>0, <1>2 DEF Pipeline, Genuine
  <2>3. ~IsInspectorLand(deferred')
    OBVIOUS
  <2> QED BY <1>0, <2>1, <2>2, <2>3 DEF Pipeline, InOrder, Genuine, IsInspectorLand
<1>5. Control'
  BY <1>0 DEF Control
<1>6. Accounted'
  <2>1. \A n : Stale(n)' <=> Stale(n)
    BY StaleKept
  <2> SUFFICES ASSUME ~quit_requested
               PROVE  \A n \in 1 .. Popped' :
                        \/ \E i \in DOMAIN executed : executed[i].n = n
                        \/ command = sent[n] \/ deferred' = sent[n] \/ Stale(n)
    BY <1>0, <2>1 DEF Accounted
  <2> TAKE n \in 1 .. Popped'
  <2>2. CASE n = Popped'
    BY <2>2, <1>0
  <2>3. CASE n \in 1 .. Popped
    <3>1. None # sent[n]
      BY <2>3, PoppedNat, NoneIsNoCommand DEF TypeOK
    <3> QED BY <1>2, <2>3, <3>1 DEF Accounted
  <2> QED BY <1>0, <2>2, <2>3
<1> QED BY <1>0, <1>1, <1>4, <1>5, <1>6

LEMMA CoalesceStep == ASSUME IInv, Coalesce PROVE IInv'
<1>1. CASE ~IsInspectorLand(command) \/ queue = <<>>
  BY <1>1, MovesNothing DEF Coalesce, WorkerTo, IInv, TypeOK, Control
<1>2. CASE IsInspectorLand(command) /\ queue # <<>>
  <2>1. CASE IsInspectorLand(Head(queue)) \/ PreemptsInspectorLand(Head(queue))
    <3>1. \/ IsInspectorLand(Head(queue)) /\ w_pc' = "coalesce" /\ command' = Head(queue) /\ UNCHANGED deferred
          \/ PreemptsInspectorLand(Head(queue)) /\ w_pc' = "drop" /\ command' = Head(queue) /\ UNCHANGED deferred
      BY <1>2, <2>1 DEF Coalesce, WorkerTo
    <3> QED BY <1>2, <3>1, Supersede DEF Coalesce, WorkerTo
  <2>2. CASE ~(IsInspectorLand(Head(queue)) \/ PreemptsInspectorLand(Head(queue)))
    BY <1>2, <2>2, HoldBack DEF Coalesce, WorkerTo
  <2> QED BY <2>1, <2>2
<1> QED BY <1>1, <1>2

\* A land behind a preempting command is dropped.
LEMMA DropLand ==
  ASSUME IInv, w_pc = "drop", queue # <<>>, IsInspectorLand(Head(queue)),
         queue' = Tail(queue), w_pc' = "drop",
         UNCHANGED <<command, deferred, quit_requested, exec_state, in_drain, u_pc, sent, executed>>
  PROVE  IInv'
<1> USE DEF IInv
<1>0. /\ queue' \in Seq(CommandOf) /\ Len(queue') <= Capacity
      /\ Popped \in Nat /\ Popped' = Popped + 1 /\ Popped' <= Len(sent)
      /\ Head(queue) = sent[Popped']
      /\ Numbered'
  BY Pop
<1>1. TypeOK'
  BY <1>0 DEF TypeOK
<1>2. deferred = None /\ command # None
  BY DEF Control
<1>3. command.n \in 1 .. Popped /\ command = sent[command.n]
  BY <1>2 DEF Pipeline, Genuine
<1>4. Pipeline'
  <2>1. \A i \in DOMAIN executed : executed[i].n \in 1 .. Popped' /\ executed[i] = sent[executed[i].n]
    BY <1>0 DEF Pipeline, Genuine
  <2> QED BY <1>0, <1>2, <1>3, <2>1 DEF Pipeline, InOrder, Genuine
<1>5. Control'
  BY DEF Control
<1>6. Accounted'
  <2>1. \A n : Stale(n)' <=> Stale(n)
    BY StaleKept
  <2> SUFFICES ASSUME ~quit_requested PROVE Accounted'
    BY DEF Accounted
  <2>2. \A k \in command.n + 1 .. Popped' : IsInspectorLand(sent[k])
    BY <1>0, <1>3 DEF Accounted
  <2>3. PreemptsInspectorLand(sent[command.n])
    BY <1>3 DEF Accounted
  <2>4. Stale(Popped')
    BY <1>0, <1>3, <2>2, <2>3 DEF Stale
  <2>5. \A n \in 1 .. Popped' : \/ \E i \in DOMAIN executed : executed[i].n = n
                                \/ command = sent[n] \/ deferred = sent[n]
                                \/ Stale(n)
    BY <1>0, <2>4 DEF Accounted
  <2> QED BY <1>3, <2>1, <2>2, <2>3, <2>5 DEF Accounted, PreemptsInspectorLand, IsInspectorLand
<1> QED BY <1>0, <1>1, <1>4, <1>5, <1>6

LEMMA DropBacklogStep == ASSUME IInv, DropBacklog PROVE IInv'
<1>1. CASE queue = <<>>
  BY <1>1, MovesNothing DEF DropBacklog, WorkerTo, IInv, TypeOK, Control
<1>2. CASE queue # <<>> /\ IsInspectorLand(Head(queue))
  BY <1>2, DropLand DEF DropBacklog, WorkerTo
<1>3. CASE queue # <<>> /\ ~IsInspectorLand(Head(queue))
  BY <1>3, HoldBack DEF DropBacklog, WorkerTo
<1> QED BY <1>1, <1>2, <1>3

LEMMA ProcessStep == ASSUME IInv, Process PROVE IInv'
<1> USE DEF IInv
<1>0. /\ command # None /\ command \in CommandOf
      /\ executed' = Append(executed, command) /\ command' = None
      /\ UNCHANGED <<queue, sent, deferred, quit_requested, in_drain, u_pc>>
      /\ w_pc' \in {"exited", "inner", "top"}
      /\ exec_state' \in {"running", "paused"}
  BY DEF Process, WorkerTo, Control, TypeOK
<1>1. Popped' = Popped /\ Popped \in Nat /\ Popped <= Len(sent) /\ Len(sent) \in Nat
  BY <1>0, PoppedNat DEF Popped
<1>2. /\ Len(executed) \in Nat /\ Len(executed') = Len(executed) + 1
      /\ executed' \in Seq(CommandOf)
      /\ \A i \in DOMAIN executed : executed'[i] = executed[i] /\ i \in 1 .. Len(executed)
      /\ executed'[Len(executed) + 1] = command
      /\ DOMAIN executed' = 1 .. Len(executed) + 1 /\ DOMAIN executed = 1 .. Len(executed)
  BY <1>0 DEF TypeOK
<1>3. /\ command.n \in 1 .. Popped /\ command = sent[command.n]
      /\ \A i \in DOMAIN executed : executed[i].n < command.n /\ i <= executed[i].n
                                    /\ executed[i].n \in 1 .. Popped
  BY <1>0 DEF Pipeline, Genuine
<1>4. Len(executed) + 1 <= command.n
  <2>1. CASE Len(executed) = 0
    BY <2>1, <1>3
  <2>2. CASE Len(executed) # 0
    <3>1. Len(executed) <= executed[Len(executed)].n /\ executed[Len(executed)].n < command.n
          /\ executed[Len(executed)].n \in Nat
      BY <1>2, <1>3, <1>1, <2>2
    <3> QED BY <1>1, <1>2, <1>3, <3>1
  <2> QED BY <2>1, <2>2
<1>5. TypeOK'
  <2>1. Len(executed') <= MaxSends + 1
    BY <1>1, <1>2, <1>3, <1>4, BoundsAssumption DEF TypeOK
  <2> QED BY <1>0, <1>2, <2>1 DEF TypeOK
<1>6. Numbered'
  BY <1>0, <1>1 DEF Numbered
<1>7. Pipeline'
  <2>1. \A i \in DOMAIN executed' : /\ executed'[i].n \in 1 .. Popped' /\ executed'[i] = sent'[executed'[i].n]
                                    /\ i <= executed'[i].n
    <3> SUFFICES ASSUME NEW i \in DOMAIN executed'
                 PROVE  /\ executed'[i].n \in 1 .. Popped' /\ executed'[i] = sent'[executed'[i].n]
                        /\ i <= executed'[i].n
      OBVIOUS
    <3>1. CASE i \in DOMAIN executed
      BY <3>1, <1>0, <1>1, <1>2 DEF Pipeline, Genuine
    <3>2. CASE i = Len(executed) + 1
      BY <3>2, <1>0, <1>1, <1>2, <1>3, <1>4
    <3> QED BY <1>2, <3>1, <3>2
  <2>2. InOrder'
    <3> SUFFICES ASSUME NEW i \in DOMAIN executed', NEW j \in DOMAIN executed', i < j
                 PROVE  executed'[i].n < executed'[j].n
      BY DEF InOrder
    <3>1. i \in DOMAIN executed
      BY <1>2
    <3>2. CASE j \in DOMAIN executed
      BY <3>1, <3>2, <1>2 DEF Pipeline, InOrder
    <3>3. CASE j = Len(executed) + 1
      BY <3>1, <3>3, <1>2, <1>3
    <3> QED BY <1>2, <3>2, <3>3
  <2>3. deferred # None => /\ deferred.n \in 1 .. Popped /\ deferred = sent[deferred.n]
                           /\ deferred.type # "land"
                           /\ \A i \in DOMAIN executed' : executed'[i].n < deferred.n
    <3> SUFFICES ASSUME deferred # None
                 PROVE  /\ deferred.n \in 1 .. Popped /\ deferred = sent[deferred.n]
                        /\ deferred.type # "land"
                        /\ \A i \in DOMAIN executed' : executed'[i].n < deferred.n
      OBVIOUS
    <3>1. command.n < deferred.n /\ \A i \in DOMAIN executed : executed[i].n < deferred.n
      BY <1>0 DEF Pipeline
    <3>2. \A i \in DOMAIN executed' : executed'[i].n < deferred.n
      BY <3>1, <1>2
    <3> QED BY <3>2 DEF Pipeline, Genuine, IsInspectorLand
  <2> QED BY <1>0, <1>1, <2>1, <2>2, <2>3 DEF Pipeline, Genuine, IsInspectorLand
<1>8. Control'
  BY <1>0 DEF Control
<1>9. Accounted'
  <2>1. \A n : Stale(n)' <=> Stale(n)
    BY <1>0, StaleKept
  <2> SUFFICES ASSUME ~quit_requested
               PROVE  \A n \in 1 .. Popped :
                        \/ \E i \in DOMAIN executed' : executed'[i].n = n
                        \/ deferred = sent[n] \/ Stale(n)
    BY <1>0, <1>1, <2>1 DEF Accounted
  <2> TAKE n \in 1 .. Popped
  <2>2. CASE \E i \in DOMAIN executed : executed[i].n = n
    BY <2>2, <1>2
  <2>3. CASE command = sent[n]
    <3>1. sent[n].n = n
      BY <1>1 DEF Numbered, TypeOK
    <3> QED BY <2>3, <3>1, <1>2
  <2> QED BY <2>2, <2>3 DEF Accounted
<1> QED BY <1>5, <1>6, <1>7, <1>8, <1>9

\* A command is accepted: it goes to the end of both sequences.
LEMMA Accept ==
  ASSUME IInv, NEW c \in CommandOf, c.n = Len(sent) + 1,
         Len(sent) <= MaxSends, Len(queue) < Capacity,
         queue' = Append(queue, c), sent' = Append(sent, c),
         u_pc' \in {"live", "join"}, u_pc' = "live" => Len(sent) < MaxSends,
         u_pc' = "join" => quit_requested,
         UNCHANGED <<quit_requested, exec_state, w_pc, command, deferred, in_drain, executed>>
  PROVE  IInv'
<1> USE DEF IInv
<1>1. /\ Len(sent) \in Nat /\ Len(queue) \in Nat
      /\ Len(sent') = Len(sent) + 1 /\ Len(queue') = Len(queue) + 1
      /\ sent' \in Seq(CommandOf) /\ queue' \in Seq(CommandOf)
      /\ DOMAIN sent = 1 .. Len(sent) /\ DOMAIN sent' = 1 .. Len(sent) + 1
      /\ DOMAIN queue = 1 .. Len(queue) /\ DOMAIN queue' = 1 .. Len(queue) + 1
      /\ \A n \in 1 .. Len(sent) : sent'[n] = sent[n]
      /\ \A n \in 1 .. Len(queue) : queue'[n] = queue[n]
      /\ sent'[Len(sent) + 1] = c /\ queue'[Len(queue) + 1] = c
  BY DEF TypeOK
<1>2. Popped' = Popped /\ Popped \in Nat /\ Popped <= Len(sent)
  BY <1>1, PoppedNat DEF Popped
<1>3. TypeOK'
  BY <1>1, BoundsAssumption DEF TypeOK
<1>4. Numbered'
  <2>1. \A n \in DOMAIN sent' : sent'[n].n = n
    BY <1>1 DEF Numbered
  <2>2. \A i \in DOMAIN queue' : queue'[i] = sent'[Popped' + i]
    <3> SUFFICES ASSUME NEW i \in DOMAIN queue' PROVE queue'[i] = sent'[Popped' + i]
      OBVIOUS
    <3>1. CASE i \in DOMAIN queue
      <4>1. queue[i] = sent[Popped + i] /\ Popped + i \in 1 .. Len(sent)
        BY <3>1, <1>1, <1>2 DEF Numbered, Popped
      <4> QED BY <3>1, <4>1, <1>1, <1>2
    <3>2. CASE i = Len(queue) + 1
      <4>1. Popped + i = Len(sent) + 1
        BY <3>2, <1>1 DEF Popped
      <4> QED BY <3>2, <4>1, <1>1, <1>2
    <3>3. i \in DOMAIN queue \/ i = Len(queue) + 1
      BY <1>1
    <3> QED BY <3>1, <3>2, <3>3
  <2>3. Len(queue') <= Len(sent')
    BY <1>1 DEF Numbered
  <2> QED BY <2>1, <2>2, <2>3 DEF Numbered
<1>5. Pipeline'
  <2>1. \A d : Genuine(d) => d.n \in 1 .. Popped' /\ d = sent'[d.n]
    BY <1>1, <1>2 DEF Genuine
  <2>2. \A i \in DOMAIN executed : /\ executed[i].n \in 1 .. Popped' /\ executed[i] = sent'[executed[i].n]
                                   /\ i <= executed[i].n
    BY <2>1 DEF Pipeline
  <2>3. command # None => command.n \in 1 .. Popped' /\ command = sent'[command.n]
    BY <2>1 DEF Pipeline
  <2>4. deferred # None => deferred.n \in 1 .. Popped' /\ deferred = sent'[deferred.n]
    BY <2>1 DEF Pipeline
  <2> QED BY <2>2, <2>3, <2>4 DEF Pipeline, Genuine, InOrder, IsInspectorLand
<1>6. Control'
  BY <1>1, BoundsAssumption DEF Control
<1>7. Accounted'
  <2> SUFFICES ASSUME ~quit_requested PROVE Accounted'
    BY DEF Accounted
  <2>1. \A n \in 1 .. Popped : Stale(n) => Stale(n)'
    <3> SUFFICES ASSUME NEW n \in 1 .. Popped, Stale(n) PROVE Stale(n)'
      OBVIOUS
    <3>1. sent'[n] = sent[n]
      BY <1>1, <1>2
    <3>2. CASE n + 1 \in DOMAIN sent /\ (IsInspectorLand(sent[n + 1]) \/ PreemptsInspectorLand(sent[n + 1]))
      BY <3>1, <3>2, <1>1 DEF Stale, IsInspectorLand, PreemptsInspectorLand
    <3>3. CASE \E m \in 1 .. n - 1 : /\ PreemptsInspectorLand(sent[m])
                                     /\ \A k \in m + 1 .. n : IsInspectorLand(sent[k])
      <4>1. PICK m \in 1 .. n - 1 : /\ PreemptsInspectorLand(sent[m])
                                    /\ \A k \in m + 1 .. n : IsInspectorLand(sent[k])
        BY <3>3
      <4>2. sent'[m] = sent[m] /\ \A k \in m + 1 .. n : sent'[k] = sent[k]
        BY <1>1, <1>2
      <4> QED BY <3>1, <4>1, <4>2 DEF Stale, IsInspectorLand, PreemptsInspectorLand
    <3> QED BY <3>2, <3>3 DEF Stale
  <2>2. \A n \in 1 .. Popped' : \/ \E i \in DOMAIN executed : executed[i].n = n
                                \/ command = sent'[n] \/ deferred = sent'[n]
                                \/ Stale(n)'
    <3> SUFFICES ASSUME NEW n \in 1 .. Popped
                 PROVE  \/ \E i \in DOMAIN executed : executed[i].n = n
                        \/ command = sent'[n] \/ deferred = sent'[n]
                        \/ Stale(n)'
      BY <1>2
    <3>1. sent'[n] = sent[n]
      BY <1>1, <1>2
    <3> QED BY <3>1, <2>1 DEF Accounted
  <2>3. w_pc = "drop" => \A k \in command.n + 1 .. Popped' : IsInspectorLand(sent'[k])
    <3> SUFFICES ASSUME w_pc = "drop", NEW k \in command.n + 1 .. Popped
                 PROVE  IsInspectorLand(sent'[k])
      BY <1>2
    <3>1. command.n \in 1 .. Popped
      BY DEF Control, Pipeline, Genuine
    <3>2. sent'[k] = sent[k]
      BY <3>1, <1>1, <1>2
    <3> QED BY <3>2 DEF Accounted
  <2> QED BY <1>2, <2>2, <2>3 DEF Accounted, IsInspectorLand, PreemptsInspectorLand
<1> QED BY <1>3, <1>4, <1>5, <1>6, <1>7

LEMMA SendStep == ASSUME IInv, NEW type \in UserTypes, Send(type) PROVE IInv'
<1> DEFINE c == [n |-> Len(sent) + 1, type |-> type]
<1>1. c \in CommandOf /\ c.n = Len(sent) + 1
  BY BoundsAssumption DEF Send, CommandOf, IInv, TypeOK
<1> HIDE DEF c
<1>2. queue' = Append(queue, c) /\ sent' = Append(sent, c)
  BY DEF Send, c
<1>3. Len(sent) < MaxSends /\ Len(sent) <= MaxSends /\ Len(queue) < Capacity /\ u_pc' = "live"
  BY BoundsAssumption DEF Send, UserTo, IInv, TypeOK
<1> QED BY <1>1, <1>2, <1>3, Accept DEF Send, UserTo

LEMMA StopRequestStep == ASSUME IInv, StopRequest PROVE IInv'
BY MovesNothing DEF StopRequest, UserTo, IInv, TypeOK, Control

LEMMA StopClearStep == ASSUME IInv, StopClear PROVE IInv'
<1> USE DEF IInv
<1>0. /\ queue' = <<>> /\ u_pc' = "push" /\ quit_requested
      /\ UNCHANGED <<quit_requested, sent, exec_state, w_pc, command, deferred, in_drain, executed>>
      /\ Len(sent) <= MaxSends
  BY DEF StopClear, UserTo, Control
<1>1. Len(queue') = 0 /\ queue' \in Seq(CommandOf) /\ DOMAIN queue' = {}
  BY <1>0
<1>2. Popped' = Len(sent) /\ Popped \in Nat /\ Popped <= Popped'
  BY <1>0, <1>1, PoppedNat DEF Popped
<1>3. TypeOK'
  BY <1>0, <1>1, BoundsAssumption DEF TypeOK
<1>4. Numbered'
  BY <1>0, <1>1, PoppedNat DEF Numbered
<1>5. Pipeline'
  <2>1. \A d : Genuine(d) => d.n \in 1 .. Popped' /\ d = sent'[d.n]
    BY <1>0, <1>2, PoppedNat DEF Genuine
  <2> QED BY <1>0, <2>1 DEF Pipeline, Genuine, InOrder, IsInspectorLand
<1>6. Control' /\ Accounted'
  BY <1>0 DEF Control, Accounted
<1> QED BY <1>3, <1>4, <1>5, <1>6

LEMMA StopPushStep == ASSUME IInv, StopPush PROVE IInv'
<1>1. CASE Len(queue) < Capacity
  <2> DEFINE c == [n |-> Len(sent) + 1, type |-> "quit"]
  <2>1. c \in CommandOf /\ c.n = Len(sent) + 1
    BY BoundsAssumption DEF StopPush, CommandOf, IInv, TypeOK, Control
  <2> HIDE DEF c
  <2>2. queue' = Append(queue, c) /\ sent' = Append(sent, c)
    BY <1>1 DEF StopPush, c
  <2> QED BY <1>1, <2>1, <2>2, Accept DEF StopPush, UserTo, IInv, Control
<1>2. CASE ~(Len(queue) < Capacity)
  BY <1>2, MovesNothing DEF StopPush, UserTo, IInv, TypeOK, Control
<1> QED BY <1>1, <1>2

LEMMA JoinedStep == ASSUME IInv, Joined PROVE IInv'
BY MovesNothing DEF Joined, UserTo, IInv, TypeOK, Control

LEMMA Stutter == ASSUME IInv, UNCHANGED vars PROVE IInv'
BY MovesNothing DEF vars, IInv, TypeOK, Control

LEMMA NextIInv == IInv /\ [Next]_vars => IInv'
BY TopStep, InnerStep, OuterStep, WaitPopStep, CoalesceStep, DropBacklogStep, ProcessStep,
   SendStep, StopRequestStep, StopClearStep, StopPushStep, JoinedStep, Stutter
   DEF Next, Worker, Stopping, Finished

-----------------------------------------------------------------------------
\* The worker's variables have their types: the queue never holds more than its
\* capacity (runtime_client_push against message_queue_try_push), and the
\* worker never runs more commands than were accepted.
THEOREM TypeCorrect == Spec => []TypeOK
<1>1. IInv => TypeOK
  BY DEF IInv
<1> QED BY InitIInv, NextIInv, <1>1, PTL DEF Spec, SafetySpec

\* runtime_coalesce_inspector_lands reads ahead and runtime_thread_main's loop
\* takes the command held back first: commands run in the order they were sent
\* and none runs twice.
THEOREM RunsInOrder == Spec => []InOrder
<1>1. IInv => InOrder
  BY DEF IInv, Pipeline
<1> QED BY InitIInv, NextIInv, <1>1, PTL DEF Spec, SafetySpec

\* A command that something newer overtook has left the queue and is in none of
\* the worker's hands, so it is stale.
LEMMA SkippedIsStale ==
  ASSUME IInv, ~quit_requested, NEW n \in Skipped
  PROVE  n \in DOMAIN sent /\ Stale(n)
<1> USE DEF IInv
<1>1. /\ n \in DOMAIN sent /\ ~ \E i \in DOMAIN executed : executed[i].n = n
      /\ \E i \in DOMAIN executed : executed[i].n > n
  BY DEF Skipped, Executed
<1>2. PICK i \in DOMAIN executed : executed[i].n > n
  BY <1>1
<1>3. executed[i].n \in 1 .. Popped /\ n \in Nat /\ n >= 1
  BY <1>1, PoppedNat DEF Pipeline, Genuine, TypeOK
<1>4. n \in 1 .. Popped /\ sent[n].n = n
  BY <1>1, <1>2, <1>3, PoppedNat DEF Numbered
<1>5. sent[n] # None
  BY <1>1, NoneIsNoCommand DEF TypeOK
<1>6. command # sent[n] /\ deferred # sent[n]
  <2>1. ASSUME command = sent[n] PROVE FALSE
    <3>1. executed[i].n < n
      BY <1>4, <1>5, <2>1 DEF Pipeline
    <3> QED BY <1>2, <1>3, <3>1
  <2>2. ASSUME deferred = sent[n] PROVE FALSE
    <3>1. executed[i].n < n
      BY <1>4, <1>5, <2>2 DEF Pipeline
    <3> QED BY <1>2, <1>3, <3>1
  <2> QED BY <2>1, <2>2
<1> QED BY <1>1, <1>4, <1>6 DEF Accounted

\* Until the worker is told to quit, runtime_coalesce_inspector_lands skips
\* nothing but lands, and only those superseded by their successor or queued
\* behind a command that takes the Inspector away.
THEOREM SkipsOnlyStaleLands == Spec => []OnlyStaleLandsSkipped
<1>1. IInv => OnlyStaleLandsSkipped
  BY SkippedIsStale DEF OnlyStaleLandsSkipped, Stale
<1> QED BY InitIInv, NextIInv, <1>1, PTL DEF Spec, SafetySpec

\* Until the worker is told to quit, an accepted command is in the queue, in
\* the worker's hand, held back, has run, or is a land.
THEOREM LosesNothing == Spec => []NothingLost
<1>1. IInv => NothingLost
  <2> SUFFICES ASSUME IInv, ~quit_requested, NEW n \in DOMAIN sent
               PROVE  \/ n \in Executed \/ IsInspectorLand(sent[n])
                      \/ command = sent[n] \/ deferred = sent[n]
                      \/ \E i \in DOMAIN queue : queue[i] = sent[n]
    BY DEF NothingLost
  <2> USE DEF IInv
  <2>1. CASE n \in 1 .. Popped
    BY <2>1 DEF Accounted, Stale, Executed
  <2>2. CASE n \notin 1 .. Popped
    <3>1. n - Popped \in DOMAIN queue /\ Popped + (n - Popped) = n
      BY <2>2, PoppedNat DEF TypeOK, Popped
    <3> QED BY <3>1 DEF Numbered
  <2> QED BY <2>1, <2>2
<1> QED BY InitIInv, NextIInv, <1>1, PTL DEF Spec, SafetySpec
==============================================================================
