--------------------------- MODULE C64Client_proofs ---------------------------
(***************************************************************************)
(* c64m's main thread against the worker for every number of requests,     *)
(* connections, breakpoint stops and session slots: no session slot is     *)
(* unaccounted for, and once everything is quiet the mirror is right and   *)
(* no wait is left over.                                                   *)
(***************************************************************************)
EXTENDS C64Client, FiniteSetTheorems, SequenceTheorems, TLAPS

------------------------------------------------------------------------------
(* Types *)

Execs == {"RUNNING", "PAUSED"}
EventKind == [t : {"RUNNING", "PAUSED", "STEP_COMPLETE", "STATE_RUNNING", "STATE_STOPPED",
                   "SESSION", "HISTORY", "CLOSED", "ERROR", "BREAKPOINTS"},
              id : Nat, token : Nat]
CommandKind == [op : {"run", "pause", "step", "state", "open", "close", "history", "update"},
                id : Nat, token : Nat]
Places == {"poll", "session", "open", "pump", "entries", "timeout", "history", "state", "dispatch"}
EntryKind == [op : {"none", "waitPaused", "waitRunning", "waitEvent", "history", "update"},
              token : Nat, epoch : Nat]
PumpKind == [token : Nat, epoch : Nat, ret : {"none", "entries", "history"}]
WKind == [exec : Execs, stepping : BOOLEAN, stops : Nat, burst : Seq(EventKind), dropped : BOOLEAN]

Shape ==
    /\ peer \in [on : BOOLEAN, epoch : Nat, sent : Nat]
    /\ requests \in Seq(Ops)
    /\ pc \in Places
    /\ mirror \in Execs \cup {"ERROR"} /\ latch \subseteq Execs
    /\ entry \in EntryKind
    /\ bind \in [id : Nat, epoch : Nat]
    /\ pump \in PumpKind
    /\ opens \in Nat /\ asks \in Nat
    /\ cmds \in Seq(CommandKind) /\ events \in Seq(EventKind)
    /\ w \in WKind /\ (w.stepping => w.exec = "PAUSED")
    /\ swallowed \in BOOLEAN

\* control_session_ensure has released the old session before it opens one, and
\* its pump waits for the answer to the last open.
Pumping ==
    /\ pc \in {"open", "pump"} => bind.id = 0 /\ pump.ret \in {"entries", "history"}
    /\ pc = "pump" => pump.token = opens /\ opens # 0
    /\ pc \notin {"open", "pump"} => pump = NoPump

TInv == Shape /\ Pumping /\ IsFiniteSet(slots) /\ Cardinality(slots) <= SessionSlots

\* What was published and not yet taken by the main thread.
Unheard == events \o w.burst

------------------------------------------------------------------------------
(* Sessions: what the commands c, the unheard events s, the slots sl, the  *)
(* bound id b, the lost ids lo and the number n of opens are to each other *)

Closes(c, x) == \E i \in DOMAIN c : c[i].op = "close" /\ c[i].id = x
Opens(c, x) == \E i \in DOMAIN c : c[i].op = "open" /\ c[i].token = x
Grants(s, x) == \E i \in DOMAIN s : s[i].t = "SESSION" /\ s[i].id = x
Answers(s, x) == \E i \in DOMAIN s : s[i].t = "SESSION" /\ s[i].token = x

\* Tokens are given out once and asked and answered once.
Numbered(c, s, sl, b, lo, n) ==
    /\ sl \subseteq 1 .. n /\ lo \subseteq 1 .. n /\ b \in 0 .. n
    /\ \A x \in Nat : Closes(c, x) \/ Opens(c, x) \/ Answers(s, x) => x \in 1 .. n
    /\ \A i, j \in DOMAIN c : i # j /\ c[i].op = "open" /\ c[j].op = "open" => c[i].token # c[j].token
    /\ \A i, j \in DOMAIN s : i # j /\ s[i].t = "SESSION" /\ s[j].t = "SESSION"
                                => s[i].token # s[j].token
    /\ \A i \in DOMAIN s : s[i].id # 0 => s[i].t = "SESSION" /\ s[i].id = s[i].token

\* A session not yet granted is nowhere else; one granted but not yet heard of
\* is in use and nowhere else; so is a bound one.
Exclusive(c, s, sl, b, lo) ==
    /\ \A x \in Nat : Opens(c, x) => x # b /\ x \notin lo /\ ~Closes(c, x) /\ ~Answers(s, x)
    /\ \A x \in Nat \ {0} : Grants(s, x) => x \in sl /\ x # b /\ x \notin lo /\ ~Closes(c, x)
    /\ b # 0 => b \in sl /\ b \notin lo /\ ~Closes(c, b)

InUse(c, s, sl, b, lo) == \A x \in sl : x = b \/ Closes(c, x) \/ Grants(s, x) \/ x \in lo
Served(c, sl) ==
    \A i \in DOMAIN c : c[i].op = "history" /\ c[i].id # 0 =>
        /\ c[i].id \in sl
        /\ \A j \in 1 .. i - 1 : c[j].op = "close" => c[j].id # c[i].id

SOK(c, s, sl, b, lo, n) ==
    Numbered(c, s, sl, b, lo, n) /\ Exclusive(c, s, sl, b, lo) /\ InUse(c, s, sl, b, lo) /\ Served(c, sl)
SInv == SOK(cmds, Unheard, slots, bind.id, lost, opens)

------------------------------------------------------------------------------
(* Views: the mirror m and the deferred entry's op against the worker      *)

Meaning(e) == IF e.t \in {"RUNNING", "STATE_RUNNING"} THEN "RUNNING" ELSE "PAUSED"
Talks(s) == \E i \in DOMAIN s : IsState(s[i])
\* The last state event of s means x.
Ends(s, x) == \A i \in DOMAIN s : (IsState(s[i]) /\ \A j \in DOMAIN s : j > i => ~IsState(s[j]))
                                     => Meaning(s[i]) = x
\* Something in s wakes a wait for a pause, or makes it wait for good reason.
Decider(e) == IsMachineState(e) \/ e.t = "RUNNING"
Decides(s) == \E i \in DOMAIN s : Decider(s[i])
\* A stop is followed by the machine's state, or by a resume.
Paired(s) == \A i \in DOMAIN s : s[i].t \in {"PAUSED", "STEP_COMPLETE"} =>
                \E j \in DOMAIN s : j > i /\ Decider(s[j])

Asking == {"run", "pause", "step", "state"}
Asked(c) == \E i \in DOMAIN c : c[i].op \in Asking
\* The worker owes the main thread a state event.
Owes(c, stepping) == Asked(c) \/ stepping

VOK(c, s, m, op, exec, stepping, sw) ==
    /\ Paired(s)
    /\ Owes(c, stepping) \/ (Ends(s, exec) /\ (Talks(s) \/ sw \/ m \in {exec, "ERROR"}))
    /\ (op = "waitPaused" /\ m = "PAUSED") => sw \/ Owes(c, stepping) \/ Decides(s)
    /\ (op = "waitRunning" /\ m = "RUNNING") => Owes(c, stepping) \/ Talks(s)

\* A dropped state event excuses the view until the worker tells the next one.
Excused == w.dropped /\ ~Talks(w.burst)
View == VOK(cmds, Unheard, mirror, entry.op, w.exec, w.stepping, swallowed)
VInv == Excused \/ View
\* What the worker is about to publish ends with the truth.
BInv == Paired(w.burst) /\ Ends(w.burst, w.exec)
LInv == entry.op = "waitEvent" => "PAUSED" \notin latch

IInv == TInv /\ SInv /\ VInv /\ BInv /\ LInv

------------------------------------------------------------------------------
(* Sequences *)

LEMMA TailIs ==
  ASSUME NEW S, NEW s \in Seq(S), s # <<>>
  PROVE  /\ Tail(s) \in Seq(S) /\ Head(s) = s[1] /\ s[1] \in S
         /\ Len(s) \in Nat \ {0} /\ DOMAIN s = 1 .. Len(s)
         /\ DOMAIN Tail(s) = 1 .. Len(s) - 1
         /\ \A i \in 1 .. Len(s) - 1 : Tail(s)[i] = s[i + 1]
OBVIOUS

LEMMA AppendIs ==
  ASSUME NEW S, NEW s \in Seq(S), NEW e \in S
  PROVE  /\ Append(s, e) \in Seq(S) /\ Len(s) \in Nat /\ DOMAIN s = 1 .. Len(s)
         /\ DOMAIN Append(s, e) = 1 .. Len(s) + 1
         /\ Append(s, e)[Len(s) + 1] = e
         /\ \A i \in 1 .. Len(s) : Append(s, e)[i] = s[i]
OBVIOUS

LEMMA HeadCommand ==
  ASSUME NEW c \in Seq(CommandKind), c # <<>>
  PROVE  Head(c) \in CommandKind /\ Head(c).id \in Nat /\ Head(c).token \in Nat
<1>1. Head(c) \in CommandKind
  OBVIOUS
<1>. QED BY <1>1 DEF CommandKind

LEMMA HeadEvent ==
  ASSUME NEW s \in Seq(EventKind), s # <<>>
  PROVE  Head(s) \in EventKind /\ Head(s).id \in Nat /\ Head(s).token \in Nat
<1>1. Head(s) \in EventKind
  OBVIOUS
<1>. QED BY <1>1 DEF EventKind

LEMMA CommandTaken ==
  ASSUME NEW c \in Seq(CommandKind), c # <<>>, NEW x
  PROVE  LET e == Head(c) IN
         /\ Closes(c, x) <=> (e.op = "close" /\ e.id = x) \/ Closes(Tail(c), x)
         /\ Opens(c, x) <=> (e.op = "open" /\ e.token = x) \/ Opens(Tail(c), x)
         /\ Asked(c) <=> e.op \in Asking \/ Asked(Tail(c))
<1>. DEFINE d == Tail(c)
<1>1. /\ Head(c) = c[1] /\ Len(c) \in Nat \ {0} /\ DOMAIN c = 1 .. Len(c)
      /\ DOMAIN d = 1 .. Len(c) - 1 /\ \A i \in 1 .. Len(c) - 1 : d[i] = c[i + 1]
  BY TailIs
<1>. HIDE DEF d
<1>2. \A i \in DOMAIN c : c[i] = Head(c) \/ \E j \in DOMAIN d : d[j] = c[i]
  <2>. TAKE i \in DOMAIN c
  <2>1. i = 1 \/ (i - 1 \in DOMAIN d /\ d[i - 1] = c[i])
    BY <1>1
  <2>. QED BY <1>1, <2>1
<1>3. \A j \in DOMAIN d : \E i \in DOMAIN c : c[i] = d[j]
  <2>. TAKE j \in DOMAIN d
  <2>1. j + 1 \in DOMAIN c /\ c[j + 1] = d[j]
    BY <1>1
  <2>. QED BY <2>1
<1>4. \E i \in DOMAIN c : c[i] = Head(c)
  BY <1>1
<1>5. Closes(c, x) <=> (Head(c).op = "close" /\ Head(c).id = x) \/ Closes(d, x)
  BY <1>2, <1>3, <1>4 DEF Closes
<1>6. Opens(c, x) <=> (Head(c).op = "open" /\ Head(c).token = x) \/ Opens(d, x)
  BY <1>2, <1>3, <1>4 DEF Opens
<1>7. Asked(c) <=> Head(c).op \in Asking \/ Asked(d)
  BY <1>2, <1>3, <1>4 DEF Asked
<1>. QED BY <1>5, <1>6, <1>7 DEF d

LEMMA CommandSent ==
  ASSUME NEW c \in Seq(CommandKind), NEW e \in CommandKind, NEW x
  PROVE  LET d == Append(c, e) IN
         /\ Closes(d, x) <=> (e.op = "close" /\ e.id = x) \/ Closes(c, x)
         /\ Opens(d, x) <=> (e.op = "open" /\ e.token = x) \/ Opens(c, x)
         /\ Asked(d) <=> e.op \in Asking \/ Asked(c)
<1>. DEFINE d == Append(c, e)
            m == Len(c) + 1
<1>1. /\ Len(c) \in Nat /\ DOMAIN c = 1 .. Len(c) /\ DOMAIN d = 1 .. m /\ d[m] = e
      /\ \A i \in 1 .. Len(c) : d[i] = c[i]
  BY AppendIs
<1>. HIDE DEF d
<1>2. \A i \in DOMAIN d : i = m \/ (i \in DOMAIN c /\ d[i] = c[i])
  BY <1>1
<1>3. \A i \in DOMAIN c : i \in DOMAIN d /\ c[i] = d[i]
  BY <1>1
<1>4. m \in DOMAIN d /\ d[m] = e
  BY <1>1
<1>. HIDE DEF m
<1>. QED BY <1>2, <1>3, <1>4 DEF Closes, Opens, Asked, d

LEMMA EventTaken ==
  ASSUME NEW s \in Seq(EventKind), s # <<>>, NEW x
  PROVE  LET e == Head(s) IN
         /\ Grants(s, x) <=> (e.t = "SESSION" /\ e.id = x) \/ Grants(Tail(s), x)
         /\ Answers(s, x) <=> (e.t = "SESSION" /\ e.token = x) \/ Answers(Tail(s), x)
         /\ Talks(s) <=> IsState(e) \/ Talks(Tail(s))
         /\ Decides(s) <=> Decider(e) \/ Decides(Tail(s))
<1>. DEFINE d == Tail(s)
<1>1. /\ Head(s) = s[1] /\ Len(s) \in Nat \ {0} /\ DOMAIN s = 1 .. Len(s)
      /\ DOMAIN d = 1 .. Len(s) - 1 /\ \A i \in 1 .. Len(s) - 1 : d[i] = s[i + 1]
  BY TailIs
<1>. HIDE DEF d
<1>2. \A i \in DOMAIN s : s[i] = Head(s) \/ \E j \in DOMAIN d : d[j] = s[i]
  <2>. TAKE i \in DOMAIN s
  <2>1. i = 1 \/ (i - 1 \in DOMAIN d /\ d[i - 1] = s[i])
    BY <1>1
  <2>. QED BY <1>1, <2>1
<1>3. \A j \in DOMAIN d : \E i \in DOMAIN s : s[i] = d[j]
  <2>. TAKE j \in DOMAIN d
  <2>1. j + 1 \in DOMAIN s /\ s[j + 1] = d[j]
    BY <1>1
  <2>. QED BY <2>1
<1>4. \E i \in DOMAIN s : s[i] = Head(s)
  BY <1>1
<1>5. Grants(s, x) <=> (Head(s).t = "SESSION" /\ Head(s).id = x) \/ Grants(d, x)
  BY <1>2, <1>3, <1>4 DEF Grants
<1>6. Answers(s, x) <=> (Head(s).t = "SESSION" /\ Head(s).token = x) \/ Answers(d, x)
  BY <1>2, <1>3, <1>4 DEF Answers
<1>7. Talks(s) <=> IsState(Head(s)) \/ Talks(d)
  BY <1>2, <1>3, <1>4 DEF Talks
<1>8. Decides(s) <=> Decider(Head(s)) \/ Decides(d)
  BY <1>2, <1>3, <1>4 DEF Decides
<1>. QED BY <1>5, <1>6, <1>7, <1>8 DEF d

LEMMA EventAdded ==
  ASSUME NEW s \in Seq(EventKind), NEW e \in EventKind, NEW x
  PROVE  LET d == Append(s, e) IN
         /\ Grants(d, x) <=> (e.t = "SESSION" /\ e.id = x) \/ Grants(s, x)
         /\ Answers(d, x) <=> (e.t = "SESSION" /\ e.token = x) \/ Answers(s, x)
         /\ Talks(d) <=> IsState(e) \/ Talks(s)
         /\ Decides(d) <=> Decider(e) \/ Decides(s)
<1>. DEFINE d == Append(s, e)
            m == Len(s) + 1
<1>1. /\ Len(s) \in Nat /\ DOMAIN s = 1 .. Len(s) /\ DOMAIN d = 1 .. m /\ d[m] = e
      /\ \A i \in 1 .. Len(s) : d[i] = s[i]
  BY AppendIs
<1>. HIDE DEF d
<1>2. \A i \in DOMAIN d : i = m \/ (i \in DOMAIN s /\ d[i] = s[i])
  BY <1>1
<1>3. \A i \in DOMAIN s : i \in DOMAIN d /\ s[i] = d[i]
  BY <1>1
<1>4. m \in DOMAIN d /\ d[m] = e
  BY <1>1
<1>. HIDE DEF m
<1>. QED BY <1>2, <1>3, <1>4 DEF Grants, Answers, Talks, Decides, d

\* What is unheard is not changed by publishing, loses its head when the main
\* thread takes an event, and grows by what the worker starts to publish.
LEMMA Published ==
  ASSUME NEW s \in Seq(EventKind), NEW b \in Seq(EventKind), b # <<>>
  PROVE  Append(s, Head(b)) \o Tail(b) = s \o b
<1>. DEFINE p == Append(s, Head(b)) \o Tail(b)
            q == s \o b
<1>1. Head(b) = b[1] /\ Len(b) \in Nat \ {0} /\ Len(s) \in Nat /\ b[1] \in EventKind
  OBVIOUS
<1>2. p \in Seq(EventKind) /\ q \in Seq(EventKind) /\ Len(p) = Len(q) /\ Len(q) = Len(s) + Len(b)
  OBVIOUS
<1>3. ASSUME NEW i \in 1 .. Len(q) PROVE p[i] = q[i]
  <2>1. CASE i <= Len(s)
    BY <1>1, <1>2, <2>1
  <2>2. CASE i = Len(s) + 1
    BY <1>1, <1>2, <2>2
  <2>3. CASE i > Len(s) + 1
    BY <1>1, <1>2, <2>3
  <2>. QED BY <1>1, <1>2, <2>1, <2>2, <2>3
<1>. QED BY <1>2, <1>3

LEMMA Taken ==
  ASSUME NEW s \in Seq(EventKind), NEW b \in Seq(EventKind), s # <<>>
  PROVE  /\ Tail(s) \o b = Tail(s \o b) /\ Head(s \o b) = Head(s)
         /\ s \o b \in Seq(EventKind) /\ s \o b # <<>>
<1>. DEFINE p == Tail(s) \o b
            q == s \o b
<1>1. Len(s) \in Nat \ {0} /\ Len(b) \in Nat
  OBVIOUS
<1>2. q \in Seq(EventKind) /\ q # <<>> /\ Len(q) = Len(s) + Len(b)
  OBVIOUS
<1>3. p \in Seq(EventKind) /\ Tail(q) \in Seq(EventKind) /\ Len(p) = Len(q) - 1
      /\ Len(Tail(q)) = Len(q) - 1
  BY <1>2
<1>4. ASSUME NEW i \in 1 .. Len(p) PROVE p[i] = Tail(q)[i]
  <2>1. CASE i <= Len(s) - 1
    BY <1>1, <1>2, <1>3, <2>1
  <2>2. CASE i > Len(s) - 1
    BY <1>1, <1>2, <1>3, <2>2
  <2>. QED BY <1>1, <2>1, <2>2
<1>. QED BY <1>1, <1>2, <1>3, <1>4

\* A released session's close goes to the end of the queue.
LEMMA SentClose ==
  ASSUME NEW c \in Seq(CommandKind), NEW s, NEW sl, NEW b \in Nat \ {0}, NEW lo, NEW n \in Nat,
         SOK(c, s, sl, b, lo, n), NEW e \in CommandKind, e.op = "close", e.id = b
  PROVE  SOK(Append(c, e), s, sl, 0, lo, n)
<1>. DEFINE d == Append(c, e)
<1>1. Numbered(c, s, sl, b, lo, n) /\ Exclusive(c, s, sl, b, lo) /\ InUse(c, s, sl, b, lo) /\ Served(c, sl)
  BY DEF SOK
<1>2. \A x : /\ Closes(d, x) <=> x = b \/ Closes(c, x)
             /\ Opens(d, x) <=> Opens(c, x)
  BY CommandSent
<1>3. /\ Len(c) \in Nat /\ DOMAIN c = 1 .. Len(c) /\ DOMAIN d = 1 .. Len(c) + 1
      /\ d[Len(c) + 1] = e /\ \A i \in 1 .. Len(c) : d[i] = c[i]
  BY AppendIs
<1>. HIDE DEF d
<1>4. Numbered(d, s, sl, 0, lo, n)
  <2>1. \A i, j \in DOMAIN d : i # j /\ d[i].op = "open" /\ d[j].op = "open" => d[i].token # d[j].token
    <3>1. \A i \in DOMAIN d : d[i].op = "open" => i \in DOMAIN c /\ d[i] = c[i]
      BY <1>3
    <3>. QED BY <1>1, <3>1 DEF Numbered
  <2>2. \A x \in Nat : Closes(d, x) \/ Opens(d, x) \/ Answers(s, x) => x \in 1 .. n
    BY <1>1, <1>2 DEF Numbered
  <2>. QED BY <1>1, <2>1, <2>2 DEF Numbered
<1>5. Exclusive(d, s, sl, 0, lo)
  <2>1. \A x \in Nat : Opens(d, x) => x # 0 /\ x \notin lo /\ ~Closes(d, x) /\ ~Answers(s, x)
    BY <1>1, <1>2 DEF Exclusive, Numbered
  <2>2. \A x \in Nat \ {0} : Grants(s, x) => x \in sl /\ x # 0 /\ x \notin lo /\ ~Closes(d, x)
    BY <1>1, <1>2 DEF Exclusive
  <2>. QED BY <2>1, <2>2 DEF Exclusive
<1>6. InUse(d, s, sl, 0, lo)
  BY <1>1, <1>2 DEF InUse
<1>7. Served(d, sl)
  <2>1. \A i \in DOMAIN d : d[i].op = "history" => i \in DOMAIN c /\ d[i] = c[i]
    BY <1>3
  <2>2. \A i \in DOMAIN c : \A j \in 1 .. i - 1 : d[j] = c[j]
    BY <1>3
  <2>. QED BY <1>1, <2>1, <2>2 DEF Served
<1>. QED BY <1>4, <1>5, <1>6, <1>7 DEF SOK, d

\* A close the full queue refuses loses the session.
LEMMA RefusedClose ==
  ASSUME NEW c, NEW s, NEW sl, NEW b \in Nat \ {0}, NEW lo, NEW n \in Nat, SOK(c, s, sl, b, lo, n)
  PROVE  SOK(c, s, sl, 0, lo \cup {b}, n)
<1>. DEFINE lm == lo \cup {b}
<1>1. Numbered(c, s, sl, b, lo, n) /\ Exclusive(c, s, sl, b, lo) /\ InUse(c, s, sl, b, lo) /\ Served(c, sl)
  BY DEF SOK
<1>2. Numbered(c, s, sl, 0, lm, n)
  <2>1. b \in 1 .. n
    BY <1>1 DEF Numbered
  <2>. QED BY <1>1, <2>1 DEF Numbered
<1>3. Exclusive(c, s, sl, 0, lm)
  <2>1. \A x \in Nat : Opens(c, x) => x # 0
    BY <1>1 DEF Numbered
  <2>. QED BY <1>1, <2>1 DEF Exclusive
<1>4. InUse(c, s, sl, 0, lm)
  BY <1>1 DEF InUse
<1>. QED BY <1>1, <1>2, <1>3, <1>4 DEF SOK

\* An open takes a new number.
LEMMA SentOpen ==
  ASSUME NEW c \in Seq(CommandKind), NEW s, NEW sl, NEW b \in Nat, NEW lo, NEW n \in Nat,
         SOK(c, s, sl, b, lo, n), NEW e \in CommandKind, e.op = "open", e.token = n + 1
  PROVE  SOK(Append(c, e), s, sl, b, lo, n + 1)
<1>. DEFINE d == Append(c, e)
            m == n + 1
<1>1. Numbered(c, s, sl, b, lo, n) /\ Exclusive(c, s, sl, b, lo) /\ InUse(c, s, sl, b, lo) /\ Served(c, sl)
  BY DEF SOK
<1>2. \A x : /\ Closes(d, x) <=> Closes(c, x)
             /\ Opens(d, x) <=> x = m \/ Opens(c, x)
  BY CommandSent
<1>3. /\ Len(c) \in Nat /\ DOMAIN c = 1 .. Len(c) /\ DOMAIN d = 1 .. Len(c) + 1
      /\ d[Len(c) + 1] = e /\ \A i \in 1 .. Len(c) : d[i] = c[i]
  BY AppendIs
<1>4. m \in Nat /\ m \in 1 .. m /\ m \notin 1 .. n /\ m \notin 0 .. n
      /\ 1 .. n \subseteq 1 .. m /\ 0 .. n \subseteq 0 .. m
  OBVIOUS
<1>5. e.token = m
  OBVIOUS
<1>. HIDE DEF d, m
<1>6. Numbered(d, s, sl, b, lo, m)
  <2>1. ASSUME NEW i \in DOMAIN d, NEW j \in DOMAIN d, i # j, d[i].op = "open", d[j].op = "open"
        PROVE  d[i].token # d[j].token
    <3>1. \A k \in DOMAIN d : k = Len(c) + 1 \/ (k \in DOMAIN c /\ d[k] = c[k])
      BY <1>3
    <3>2. \A k \in DOMAIN c : c[k].op = "open" => c[k].token # m
      <4>. TAKE k \in DOMAIN c
      <4>. HAVE c[k].op = "open"
      <4>0. c[k] \in CommandKind
        OBVIOUS
      <4>1. Opens(c, c[k].token) /\ c[k].token \in Nat
        <5>1. Opens(c, c[k].token)
          BY DEF Opens
        <5>. QED BY <4>0, <5>1 DEF CommandKind
      <4>. QED BY <1>1, <1>4, <4>1 DEF Numbered
    <3>3. CASE i \in DOMAIN c /\ j \in DOMAIN c
      BY <1>1, <1>3, <2>1, <3>3 DEF Numbered
    <3>4. CASE i = Len(c) + 1
      BY <1>3, <1>5, <2>1, <3>1, <3>2, <3>4
    <3>5. CASE j = Len(c) + 1
      BY <1>3, <1>5, <2>1, <3>1, <3>2, <3>5
    <3>. QED BY <3>1, <3>3, <3>4, <3>5
  <2>2. \A x \in Nat : Closes(d, x) \/ Opens(d, x) \/ Answers(s, x) => x \in 1 .. m
    BY <1>1, <1>2, <1>4 DEF Numbered
  <2>. QED BY <1>1, <1>4, <2>1, <2>2 DEF Numbered
<1>7. Exclusive(d, s, sl, b, lo)
  <2>1. m # b /\ m \notin lo /\ ~Closes(c, m) /\ ~Answers(s, m)
    BY <1>1, <1>4 DEF Numbered
  <2>. QED BY <1>1, <1>2, <2>1 DEF Exclusive
<1>8. InUse(d, s, sl, b, lo)
  BY <1>1, <1>2 DEF InUse
<1>9. Served(d, sl)
  <2>1. \A i \in DOMAIN d : d[i].op = "history" => i \in DOMAIN c /\ d[i] = c[i]
    BY <1>3
  <2>2. \A i \in DOMAIN c : \A j \in 1 .. i - 1 : d[j] = c[j]
    BY <1>3
  <2>. QED BY <1>1, <2>1, <2>2 DEF Served
<1>. QED BY <1>6, <1>7, <1>8, <1>9 DEF SOK, d, m

\* Any other command; a history request is for the bound session or for none.
LEMMA SentOther ==
  ASSUME NEW c \in Seq(CommandKind), NEW s, NEW sl, NEW b \in Nat, NEW lo, NEW n \in Nat,
         SOK(c, s, sl, b, lo, n), NEW e \in CommandKind, e.op \notin {"open", "close"},
         e.op = "history" => e.id \in {0, b}
  PROVE  SOK(Append(c, e), s, sl, b, lo, n)
<1>. DEFINE d == Append(c, e)
<1>1. Numbered(c, s, sl, b, lo, n) /\ Exclusive(c, s, sl, b, lo) /\ InUse(c, s, sl, b, lo) /\ Served(c, sl)
  BY DEF SOK
<1>2. \A x : /\ Closes(d, x) <=> Closes(c, x)
             /\ Opens(d, x) <=> Opens(c, x)
  BY CommandSent
<1>3. /\ Len(c) \in Nat /\ DOMAIN c = 1 .. Len(c) /\ DOMAIN d = 1 .. Len(c) + 1
      /\ d[Len(c) + 1] = e /\ \A i \in 1 .. Len(c) : d[i] = c[i]
  BY AppendIs
<1>. HIDE DEF d
<1>4. Numbered(d, s, sl, b, lo, n)
  <2>1. \A i, j \in DOMAIN d : i # j /\ d[i].op = "open" /\ d[j].op = "open" => d[i].token # d[j].token
    <3>1. \A i \in DOMAIN d : d[i].op = "open" => i \in DOMAIN c /\ d[i] = c[i]
      BY <1>3
    <3>. QED BY <1>1, <3>1 DEF Numbered
  <2>2. \A x \in Nat : Closes(d, x) \/ Opens(d, x) \/ Answers(s, x) => x \in 1 .. n
    BY <1>1, <1>2 DEF Numbered
  <2>. QED BY <1>1, <2>1, <2>2 DEF Numbered
<1>5. Exclusive(d, s, sl, b, lo)
  BY <1>1, <1>2 DEF Exclusive
<1>6. InUse(d, s, sl, b, lo)
  BY <1>1, <1>2 DEF InUse
<1>7. Served(d, sl)
  <2>. SUFFICES ASSUME NEW i \in DOMAIN d, d[i].op = "history", d[i].id # 0
                PROVE  /\ d[i].id \in sl
                       /\ \A j \in 1 .. i - 1 : d[j].op = "close" => d[j].id # d[i].id
    BY DEF Served
  <2>1. \A j \in 1 .. i - 1 : j \in DOMAIN c /\ d[j] = c[j]
    BY <1>3
  <2>2. CASE i \in DOMAIN c
    BY <1>1, <1>3, <2>1, <2>2 DEF Served
  <2>3. CASE i \notin DOMAIN c
    <3>1. d[i] = e /\ e.op = "history" /\ e.id = b /\ b # 0
      BY <1>3, <2>3
    <3>2. b \in sl /\ ~Closes(c, b)
      BY <1>1, <3>1 DEF Exclusive
    <3>. QED BY <2>1, <3>1, <3>2 DEF Closes
  <2>. QED BY <2>2, <2>3
<1>. QED BY <1>4, <1>5, <1>6, <1>7 DEF SOK, d

\* A command that leaves the queue takes nothing from the others with it.
LEMMA QueueShorter ==
  ASSUME NEW c \in Seq(CommandKind), c # <<>>, NEW s, NEW sl, NEW b, NEW lo, NEW n \in Nat,
         SOK(c, s, sl, b, lo, n)
  PROVE  /\ Numbered(Tail(c), s, sl, b, lo, n) /\ Exclusive(Tail(c), s, sl, b, lo)
         /\ Served(Tail(c), sl)
         /\ Head(c).op = "close" => \A i \in DOMAIN Tail(c) :
               Tail(c)[i].op = "history" /\ Tail(c)[i].id # 0 => Tail(c)[i].id # Head(c).id
         /\ Head(c).op = "open" => ~Opens(Tail(c), Head(c).token)
<1>. DEFINE d == Tail(c)
<1>1. Numbered(c, s, sl, b, lo, n) /\ Exclusive(c, s, sl, b, lo) /\ Served(c, sl)
  BY DEF SOK
<1>2. \A x : (Closes(d, x) => Closes(c, x)) /\ (Opens(d, x) => Opens(c, x))
  BY CommandTaken
<1>3. /\ Head(c) = c[1] /\ Len(c) \in Nat \ {0} /\ DOMAIN c = 1 .. Len(c)
      /\ DOMAIN d = 1 .. Len(c) - 1 /\ \A i \in 1 .. Len(c) - 1 : d[i] = c[i + 1]
  BY TailIs
<1>. HIDE DEF d
<1>4. \A i \in DOMAIN d : i + 1 \in DOMAIN c /\ c[i + 1] = d[i] /\ i \in Nat /\ i + 1 # 1
  BY <1>3
<1>5. Numbered(d, s, sl, b, lo, n)
  <2>1. ASSUME NEW i \in DOMAIN d, NEW j \in DOMAIN d, i # j, d[i].op = "open", d[j].op = "open"
        PROVE  d[i].token # d[j].token
    <3>1. i + 1 # j + 1
      BY <1>4, <2>1
    <3>. QED BY <1>1, <1>4, <2>1, <3>1 DEF Numbered
  <2>2. \A x \in Nat : Closes(d, x) \/ Opens(d, x) \/ Answers(s, x) => x \in 1 .. n
    BY <1>1, <1>2 DEF Numbered
  <2>. QED BY <1>1, <2>1, <2>2 DEF Numbered
<1>6. Exclusive(d, s, sl, b, lo)
  BY <1>1, <1>2 DEF Exclusive
<1>7. Served(d, sl)
  <2>. SUFFICES ASSUME NEW i \in DOMAIN d, d[i].op = "history", d[i].id # 0
                PROVE  /\ d[i].id \in sl
                       /\ \A j \in 1 .. i - 1 : d[j].op = "close" => d[j].id # d[i].id
    BY DEF Served
  <2>1. \A j \in 1 .. i - 1 : j + 1 \in 1 .. (i + 1) - 1 /\ d[j] = c[j + 1]
    BY <1>3
  <2>. QED BY <1>1, <1>4, <2>1 DEF Served
<1>8. ASSUME Head(c).op = "close", NEW i \in DOMAIN d, d[i].op = "history", d[i].id # 0
      PROVE  d[i].id # Head(c).id
  <2>1. 1 \in 1 .. (i + 1) - 1
    BY <1>4
  <2>. QED BY <1>1, <1>3, <1>4, <1>8, <2>1 DEF Served
<1>9. ASSUME Head(c).op = "open", Opens(d, Head(c).token) PROVE FALSE
  <2>1. PICK i \in DOMAIN d : d[i].op = "open" /\ d[i].token = Head(c).token
    BY <1>9 DEF Opens
  <2>2. 1 \in DOMAIN c
    BY <1>3
  <2>. QED BY <1>1, <1>3, <1>4, <1>9, <2>1, <2>2 DEF Numbered
<1>. QED BY <1>5, <1>6, <1>7, <1>8, <1>9 DEF d

\* A command taken or dropped that is not a close.
LEMMA TookOther ==
  ASSUME NEW c \in Seq(CommandKind), c # <<>>, NEW s, NEW sl, NEW b, NEW lo, NEW n \in Nat,
         SOK(c, s, sl, b, lo, n), Head(c).op # "close"
  PROVE  SOK(Tail(c), s, sl, b, lo, n)
<1>1. InUse(Tail(c), s, sl, b, lo)
  BY CommandTaken DEF SOK, InUse
<1>. QED BY <1>1, QueueShorter DEF SOK

\* A close taken frees its slot; one dropped by a step loses it.
LEMMA TookClose ==
  ASSUME NEW c \in Seq(CommandKind), c # <<>>, NEW s, NEW sl, NEW b \in Nat, NEW lo, NEW n \in Nat,
         SOK(c, s, sl, b, lo, n), Head(c).op = "close"
  PROVE  SOK(Tail(c), s, sl \ {Head(c).id}, b, lo, n)
<1>. DEFINE d == Tail(c)
            y == Head(c).id
            sm == sl \ {y}
<1>1. /\ Numbered(d, s, sl, b, lo, n) /\ Exclusive(d, s, sl, b, lo) /\ Served(d, sl)
      /\ \A i \in DOMAIN d : d[i].op = "history" /\ d[i].id # 0 => d[i].id # y
  BY QueueShorter
<1>2. \A x : Closes(c, x) <=> x = y \/ Closes(d, x)
  BY CommandTaken
<1>3. Exclusive(c, s, sl, b, lo) /\ InUse(c, s, sl, b, lo)
  BY DEF SOK
<1>. HIDE DEF d, y
<1>4. Numbered(d, s, sm, b, lo, n)
  BY <1>1 DEF Numbered
<1>5. Exclusive(d, s, sm, b, lo)
  <2>1. b # 0 => b # y
    BY <1>2, <1>3 DEF Exclusive
  <2>2. \A x \in Nat \ {0} : Grants(s, x) => x # y
    BY <1>2, <1>3 DEF Exclusive
  <2>. QED BY <1>1, <2>1, <2>2 DEF Exclusive
<1>6. InUse(d, s, sm, b, lo)
  BY <1>2, <1>3 DEF InUse
<1>7. Served(d, sm)
  BY <1>1 DEF Served
<1>. QED BY <1>4, <1>5, <1>6, <1>7 DEF SOK, d, y

LEMMA DroppedClose ==
  ASSUME NEW c \in Seq(CommandKind), c # <<>>, NEW s, NEW sl, NEW b \in Nat, NEW lo, NEW n \in Nat,
         SOK(c, s, sl, b, lo, n), Head(c).op = "close"
  PROVE  SOK(Tail(c), s, sl, b, lo \cup {Head(c).id}, n)
<1>. DEFINE d == Tail(c)
            y == Head(c).id
            lm == lo \cup {y}
<1>1. Numbered(d, s, sl, b, lo, n) /\ Exclusive(d, s, sl, b, lo) /\ Served(d, sl)
  BY QueueShorter
<1>2. \A x : /\ Closes(c, x) <=> x = y \/ Closes(d, x)
             /\ Opens(d, x) => Opens(c, x)
  BY CommandTaken
<1>3. Numbered(c, s, sl, b, lo, n) /\ Exclusive(c, s, sl, b, lo) /\ InUse(c, s, sl, b, lo)
  BY DEF SOK
<1>4. y \in Nat
  BY HeadCommand
<1>. HIDE DEF d, y
<1>5. y \in 1 .. n /\ Closes(c, y)
  BY <1>2, <1>3, <1>4 DEF Numbered
<1>6. Numbered(d, s, sl, b, lm, n)
  BY <1>1, <1>5 DEF Numbered
<1>7. Exclusive(d, s, sl, b, lm)
  BY <1>1, <1>2, <1>3, <1>5 DEF Exclusive
<1>8. InUse(d, s, sl, b, lm)
  BY <1>2, <1>3 DEF InUse
<1>. QED BY <1>1, <1>6, <1>7, <1>8 DEF SOK, d, y

\* d is s without its event at p: f tells where each event of d was.
Without(d, s, p) ==
    \E f \in [DOMAIN d -> DOMAIN s] :
        /\ \A i \in DOMAIN d : f[i] # p /\ s[f[i]] = d[i]
        /\ \A i, j \in DOMAIN d : i # j => f[i] # f[j]
        /\ \A k \in DOMAIN s : k = p \/ \E i \in DOMAIN d : f[i] = k

\* Taking the first event, and dropping the one at the head of the burst b.
LEMMA HeadGone ==
  ASSUME NEW s \in Seq(EventKind), s # <<>>
  PROVE  Tail(s) \in Seq(EventKind) /\ Without(Tail(s), s, 1) /\ 1 \in DOMAIN s /\ s[1] = Head(s)
<1>. DEFINE d == Tail(s)
            f == [i \in DOMAIN d |-> i + 1]
<1>1. /\ Head(s) = s[1] /\ Len(s) \in Nat \ {0} /\ DOMAIN s = 1 .. Len(s) /\ d \in Seq(EventKind)
      /\ DOMAIN d = 1 .. Len(s) - 1 /\ \A i \in 1 .. Len(s) - 1 : d[i] = s[i + 1]
  BY TailIs
<1>. HIDE DEF d
<1>2. f \in [DOMAIN d -> DOMAIN s]
  BY <1>1
<1>3. \A i \in DOMAIN d : f[i] = i + 1 /\ i \in Nat \ {0} /\ s[i + 1] = d[i]
  BY <1>1
<1>4. \A k \in DOMAIN s : k = 1 \/ (k - 1 \in DOMAIN d /\ (k - 1) + 1 = k)
  BY <1>1
<1>. HIDE DEF f
<1>5. \A k \in DOMAIN s : k = 1 \/ \E i \in DOMAIN d : f[i] = k
  BY <1>3, <1>4
<1>6. \A i, j \in DOMAIN d : i # j => f[i] # f[j]
  BY <1>3
<1>7. \A i \in DOMAIN d : f[i] # 1 /\ s[f[i]] = d[i]
  BY <1>3
<1>8. Without(d, s, 1)
  BY <1>2, <1>5, <1>6, <1>7 DEF Without
<1>. QED BY <1>1, <1>8 DEF d

LEMMA MiddleGone ==
  ASSUME NEW a \in Seq(EventKind), NEW b \in Seq(EventKind), b # <<>>
  PROVE  LET s == a \o b  d == a \o Tail(b)  p == Len(a) + 1 IN
         /\ s \in Seq(EventKind) /\ d \in Seq(EventKind) /\ Without(d, s, p)
         /\ p \in DOMAIN s /\ s[p] = Head(b)
<1>. DEFINE s == a \o b
            d == a \o Tail(b)
            n == Len(a)
            p == n + 1
            f == [i \in DOMAIN d |-> IF i <= n THEN i ELSE i + 1]
<1>1. Len(b) \in Nat \ {0} /\ n \in Nat /\ Head(b) = b[1]
  OBVIOUS
<1>2. /\ s \in Seq(EventKind) /\ DOMAIN s = 1 .. n + Len(b)
      /\ \A i \in 1 .. n + Len(b) : s[i] = IF i <= n THEN a[i] ELSE b[i - n]
  OBVIOUS
<1>3. /\ Tail(b) \in Seq(EventKind) /\ Len(Tail(b)) = Len(b) - 1
      /\ \A i \in 1 .. Len(b) - 1 : Tail(b)[i] = b[i + 1]
  OBVIOUS
<1>4. /\ d \in Seq(EventKind) /\ DOMAIN d = 1 .. n + (Len(b) - 1)
      /\ \A i \in 1 .. n + (Len(b) - 1) : d[i] = IF i <= n THEN a[i] ELSE Tail(b)[i - n]
  BY <1>3
<1>. HIDE DEF s, d, n
<1>5. \A i \in DOMAIN d : f[i] = IF i <= n THEN i ELSE i + 1
  OBVIOUS
<1>6. f \in [DOMAIN d -> DOMAIN s]
  BY <1>1, <1>2, <1>4
<1>. HIDE DEF f
<1>7. ASSUME NEW i \in DOMAIN d PROVE f[i] # p /\ s[f[i]] = d[i]
  <2>1. CASE i <= n
    <3>1. f[i] = i /\ i # p /\ i \in 1 .. n + Len(b)
      BY <1>1, <1>4, <1>5, <2>1
    <3>2. s[i] = a[i] /\ d[i] = a[i]
      BY <1>2, <1>4, <2>1, <3>1
    <3>. QED BY <3>1, <3>2
  <2>2. CASE i > n
    <3>1. f[i] = i + 1 /\ i + 1 \in 1 .. n + Len(b) /\ ~(i + 1 <= n) /\ i - n \in 1 .. Len(b) - 1
      BY <1>1, <1>4, <1>5, <2>2
    <3>2. i \in Int /\ ~(i <= n) /\ (i + 1) - n = (i - n) + 1
      BY <1>1, <1>4, <2>2
    <3>3. s[i + 1] = b[(i + 1) - n]
      BY <1>2, <3>1
    <3>4. d[i] = Tail(b)[i - n]
      BY <1>4, <3>2
    <3>5. s[i + 1] = b[(i + 1) - n] /\ d[i] = Tail(b)[i - n] /\ (i + 1) - n = (i - n) + 1
      BY <3>2, <3>3, <3>4
    <3>6. Tail(b)[i - n] = b[(i - n) + 1]
      BY <1>3, <3>1
    <3>. QED BY <1>1, <1>4, <2>2, <3>1, <3>5, <3>6
  <2>. QED BY <1>1, <1>4, <2>1, <2>2
<1>8. \A i, j \in DOMAIN d : i # j => f[i] # f[j]
  BY <1>1, <1>4, <1>5
<1>9. ASSUME NEW k \in DOMAIN s, k # p PROVE \E i \in DOMAIN d : f[i] = k
  <2>1. CASE k <= n
    <3>1. k \in DOMAIN d /\ f[k] = k
      BY <1>1, <1>2, <1>4, <1>5, <2>1
    <3>. QED BY <3>1
  <2>2. CASE k > n
    <3>1. k - 1 \in DOMAIN d /\ f[k - 1] = k
      BY <1>1, <1>2, <1>4, <1>5, <1>9, <2>2
    <3>. QED BY <3>1
  <2>. QED BY <1>1, <1>2, <2>1, <2>2
<1>10. Without(d, s, p)
  BY <1>6, <1>7, <1>8, <1>9 DEF Without
<1>11. p \in DOMAIN s /\ s[p] = Head(b)
  BY <1>1, <1>2
<1>. QED BY <1>2, <1>4, <1>10, <1>11 DEF s, d, n

LEMMA EventGone ==
  ASSUME NEW s \in Seq(EventKind), NEW d \in Seq(EventKind), NEW p \in DOMAIN s, Without(d, s, p), NEW x
  PROVE  LET e == s[p] IN
         /\ Grants(s, x) <=> (e.t = "SESSION" /\ e.id = x) \/ Grants(d, x)
         /\ Answers(s, x) <=> (e.t = "SESSION" /\ e.token = x) \/ Answers(d, x)
<1>1. PICK f \in [DOMAIN d -> DOMAIN s] :
        /\ \A i \in DOMAIN d : f[i] # p /\ s[f[i]] = d[i]
        /\ \A k \in DOMAIN s : k = p \/ \E i \in DOMAIN d : f[i] = k
  BY DEF Without
<1>2. \A k \in DOMAIN s : k = p \/ \E i \in DOMAIN d : d[i] = s[k]
  BY <1>1
<1>3. \A i \in DOMAIN d : \E k \in DOMAIN s : s[k] = d[i]
  BY <1>1
<1>4. Grants(s, x) <=> (s[p].t = "SESSION" /\ s[p].id = x) \/ Grants(d, x)
  <2>1. ASSUME Grants(s, x) PROVE (s[p].t = "SESSION" /\ s[p].id = x) \/ Grants(d, x)
    <3>1. PICK k \in DOMAIN s : s[k].t = "SESSION" /\ s[k].id = x
      BY <2>1 DEF Grants
    <3>2. CASE k = p
      BY <3>1, <3>2
    <3>3. CASE k # p
      <4>1. PICK i \in DOMAIN d : d[i] = s[k]
        BY <1>2, <3>3
      <4>. QED BY <3>1, <4>1 DEF Grants
    <3>. QED BY <3>2, <3>3
  <2>2. ASSUME Grants(d, x) PROVE Grants(s, x)
    <3>1. PICK i \in DOMAIN d : d[i].t = "SESSION" /\ d[i].id = x
      BY <2>2 DEF Grants
    <3>2. PICK k \in DOMAIN s : s[k] = d[i]
      BY <1>3
    <3>. QED BY <3>1, <3>2 DEF Grants
  <2>3. ASSUME s[p].t = "SESSION", s[p].id = x PROVE Grants(s, x)
    BY <2>3 DEF Grants
  <2>. QED BY <2>1, <2>2, <2>3
<1>5. Answers(s, x) <=> (s[p].t = "SESSION" /\ s[p].token = x) \/ Answers(d, x)
  <2>1. ASSUME Answers(s, x) PROVE (s[p].t = "SESSION" /\ s[p].token = x) \/ Answers(d, x)
    <3>1. PICK k \in DOMAIN s : s[k].t = "SESSION" /\ s[k].token = x
      BY <2>1 DEF Answers
    <3>2. CASE k = p
      BY <3>1, <3>2
    <3>3. CASE k # p
      <4>1. PICK i \in DOMAIN d : d[i] = s[k]
        BY <1>2, <3>3
      <4>. QED BY <3>1, <4>1 DEF Answers
    <3>. QED BY <3>2, <3>3
  <2>2. ASSUME Answers(d, x) PROVE Answers(s, x)
    <3>1. PICK i \in DOMAIN d : d[i].t = "SESSION" /\ d[i].token = x
      BY <2>2 DEF Answers
    <3>2. PICK k \in DOMAIN s : s[k] = d[i]
      BY <1>3
    <3>. QED BY <3>1, <3>2 DEF Answers
  <2>3. ASSUME s[p].t = "SESSION", s[p].token = x PROVE Answers(s, x)
    BY <2>3 DEF Answers
  <2>. QED BY <2>1, <2>2, <2>3
<1>. QED BY <1>4, <1>5

\* An event leaves the queue.
LEMMA EventsShorter ==
  ASSUME NEW c, NEW s \in Seq(EventKind), NEW sl, NEW b, NEW lo, NEW n \in Nat,
         SOK(c, s, sl, b, lo, n), NEW d \in Seq(EventKind), NEW p \in DOMAIN s, Without(d, s, p)
  PROVE  LET e == s[p] IN
         /\ Numbered(c, d, sl, b, lo, n) /\ Exclusive(c, d, sl, b, lo)
         /\ e.id # 0 => /\ e.t = "SESSION" /\ e.id = e.token /\ ~Answers(d, e.token)
                        /\ ~Grants(d, e.id) /\ Grants(s, e.id) /\ e.id \in 1 .. n
<1>. DEFINE e == s[p]
<1>1. Numbered(c, s, sl, b, lo, n) /\ Exclusive(c, s, sl, b, lo)
  BY DEF SOK
<1>2. \A x : /\ Grants(s, x) <=> (e.t = "SESSION" /\ e.id = x) \/ Grants(d, x)
             /\ Answers(s, x) <=> (e.t = "SESSION" /\ e.token = x) \/ Answers(d, x)
  BY EventGone
<1>3. e = s[p] /\ e \in EventKind
  OBVIOUS
<1>. HIDE DEF e
<1>4. PICK f \in [DOMAIN d -> DOMAIN s] :
        /\ \A i \in DOMAIN d : f[i] # p /\ s[f[i]] = d[i]
        /\ \A i, j \in DOMAIN d : i # j => f[i] # f[j]
  BY DEF Without
<1>5. Numbered(c, d, sl, b, lo, n)
  <2>1. ASSUME NEW i \in DOMAIN d, NEW j \in DOMAIN d, i # j, d[i].t = "SESSION", d[j].t = "SESSION"
        PROVE  d[i].token # d[j].token
    <3>1. f[i] # f[j] /\ f[i] \in DOMAIN s /\ f[j] \in DOMAIN s
      BY <1>4, <2>1
    <3>2. s[f[i]] = d[i] /\ s[f[j]] = d[j]
      BY <1>4
    <3>. QED BY <1>1, <2>1, <3>1, <3>2 DEF Numbered
  <2>2. \A x \in Nat : Closes(c, x) \/ Opens(c, x) \/ Answers(d, x) => x \in 1 .. n
    BY <1>1, <1>2 DEF Numbered
  <2>3. \A i \in DOMAIN d : d[i].id # 0 => d[i].t = "SESSION" /\ d[i].id = d[i].token
    <3>1. \A i \in DOMAIN d : f[i] \in DOMAIN s /\ s[f[i]] = d[i]
      BY <1>4
    <3>. QED BY <1>1, <3>1 DEF Numbered
  <2>. QED BY <1>1, <2>1, <2>2, <2>3 DEF Numbered
<1>6. Exclusive(c, d, sl, b, lo)
  BY <1>1, <1>2 DEF Exclusive
<1>7. ASSUME e.id # 0
      PROVE  /\ e.t = "SESSION" /\ e.id = e.token /\ ~Answers(d, e.token)
             /\ ~Grants(d, e.id) /\ Grants(s, e.id) /\ e.id \in 1 .. n
  <2>1. e.t = "SESSION" /\ e.id = e.token
    BY <1>1, <1>3, <1>7 DEF Numbered
  <2>2. ~Answers(d, e.token)
    <3>. SUFFICES ASSUME NEW i \in DOMAIN d, d[i].t = "SESSION", d[i].token = e.token PROVE FALSE
      BY DEF Answers
    <3>1. f[i] \in DOMAIN s /\ f[i] # p /\ s[f[i]] = d[i]
      BY <1>4
    <3>. QED BY <1>1, <1>3, <2>1, <3>1 DEF Numbered
  <2>3. ~Grants(d, e.id)
    <3>. SUFFICES ASSUME NEW i \in DOMAIN d, d[i].t = "SESSION", d[i].id = e.id PROVE FALSE
      BY DEF Grants
    <3>1. d[i].token = e.token
      BY <1>5, <1>7, <2>1 DEF Numbered
    <3>. QED BY <2>2, <3>1 DEF Answers
  <2>4. Answers(s, e.token) /\ e.token \in Nat
    BY <1>2, <1>3, <2>1 DEF EventKind
  <2>5. e.token \in 1 .. n
    BY <1>1, <2>4 DEF Numbered
  <2>. QED BY <1>2, <2>1, <2>2, <2>3, <2>5
<1>. QED BY <1>5, <1>6, <1>7 DEF e

\* Taken by a loop that does not wait for it, or dropped, a grant is lost.
LEMMA HeardStray ==
  ASSUME NEW c, NEW s \in Seq(EventKind), NEW sl, NEW b \in Nat, NEW lo, NEW n \in Nat,
         SOK(c, s, sl, b, lo, n), NEW d \in Seq(EventKind), NEW p \in DOMAIN s, Without(d, s, p),
         NEW lm, lm = lo \cup ({s[p].id} \cap sl)
  PROVE  SOK(c, d, sl, b, lm, n)
<1>. DEFINE e == s[p]
            y == e.id
<1>1. /\ Numbered(c, s, sl, b, lo, n) /\ Exclusive(c, s, sl, b, lo) /\ InUse(c, s, sl, b, lo)
      /\ Served(c, sl)
  BY DEF SOK
<1>2. /\ Numbered(c, d, sl, b, lo, n) /\ Exclusive(c, d, sl, b, lo)
      /\ y # 0 => /\ y = e.token /\ ~Answers(d, y) /\ ~Grants(d, y) /\ Grants(s, y)
                  /\ y \in 1 .. n /\ e.t = "SESSION"
  <2>1. /\ Numbered(c, d, sl, b, lo, n) /\ Exclusive(c, d, sl, b, lo)
        /\ s[p].id # 0 => /\ s[p].t = "SESSION" /\ s[p].id = s[p].token /\ ~Answers(d, s[p].token)
                          /\ ~Grants(d, s[p].id) /\ Grants(s, s[p].id) /\ s[p].id \in 1 .. n
    BY EventsShorter
  <2>. QED BY <2>1
<1>3. /\ \A x : Grants(s, x) <=> (e.t = "SESSION" /\ y = x) \/ Grants(d, x)
      /\ \A x : Answers(s, x) <=> (e.t = "SESSION" /\ e.token = x) \/ Answers(d, x)
  BY EventGone
<1>4. sl \subseteq 1 .. n /\ 0 \notin sl /\ \A x \in sl : x \in Nat
  BY <1>1 DEF Numbered
<1>. HIDE DEF e, y
<1>5. lm = IF y \in sl THEN lo \cup {y} ELSE lo
  BY DEF e, y
<1>6. Numbered(c, d, sl, b, lm, n)
  BY <1>2, <1>4, <1>5 DEF Numbered
<1>7. Exclusive(c, d, sl, b, lm)
  <2>1. CASE y \in sl
    <3>1. y # 0 /\ y \in Nat /\ Answers(s, y) /\ Grants(s, y) /\ ~Grants(d, y)
      BY <1>2, <1>3, <1>4, <2>1
    <3>2. ~Opens(c, y) /\ (b # 0 => y # b)
      BY <1>1, <3>1 DEF Exclusive
    <3>. QED BY <1>2, <1>5, <2>1, <3>1, <3>2 DEF Exclusive
  <2>2. CASE y \notin sl
    BY <1>2, <1>5, <2>2 DEF Exclusive
  <2>. QED BY <2>1, <2>2
<1>8. InUse(c, d, sl, b, lm)
  BY <1>1, <1>3, <1>5 DEF InUse
<1>. QED BY <1>1, <1>6, <1>7, <1>8 DEF SOK

\* Taken by the pump that waits for it, a grant is bound.
LEMMA HeardAnswer ==
  ASSUME NEW c, NEW s \in Seq(EventKind), s # <<>>, NEW sl, NEW lo, NEW n \in Nat,
         SOK(c, s, sl, 0, lo, n), Head(s).t = "SESSION"
  PROVE  SOK(c, Tail(s), sl, Head(s).id, lo, n)
<1>. DEFINE d == Tail(s)
            e == Head(s)
            y == e.id
<1>1. /\ Numbered(c, s, sl, 0, lo, n) /\ Exclusive(c, s, sl, 0, lo) /\ InUse(c, s, sl, 0, lo)
      /\ Served(c, sl)
  BY DEF SOK
<1>2. /\ Numbered(c, d, sl, 0, lo, n) /\ Exclusive(c, d, sl, 0, lo)
      /\ y # 0 => /\ y = e.token /\ ~Answers(d, y) /\ ~Grants(d, y) /\ Grants(s, y) /\ y \in 1 .. n
  <2>1. d \in Seq(EventKind) /\ Without(d, s, 1) /\ 1 \in DOMAIN s /\ s[1] = e
    BY HeadGone
  <2>. HIDE DEF d, e
  <2>2. /\ Numbered(c, d, sl, 0, lo, n) /\ Exclusive(c, d, sl, 0, lo)
        /\ s[1].id # 0 => /\ s[1].t = "SESSION" /\ s[1].id = s[1].token /\ ~Answers(d, s[1].token)
                          /\ ~Grants(d, s[1].id) /\ Grants(s, s[1].id) /\ s[1].id \in 1 .. n
    BY <2>1, EventsShorter
  <2>. QED BY <2>1, <2>2
<1>3. /\ \A x : Grants(s, x) <=> y = x \/ Grants(d, x)
      /\ \A x : Answers(s, x) <=> e.token = x \/ Answers(d, x)
  BY EventTaken
<1>4. y \in Nat
  BY HeadEvent
<1>. HIDE DEF d, e, y
<1>5. Numbered(c, d, sl, y, lo, n)
  BY <1>2, <1>4 DEF Numbered
<1>6. Exclusive(c, d, sl, y, lo)
  <2>1. CASE y = 0
    BY <1>2, <2>1
  <2>2. CASE y # 0
    <3>1. Answers(s, y) /\ Grants(s, y) /\ ~Grants(d, y)
      BY <1>2, <1>3, <2>2
    <3>2. ~Opens(c, y) /\ y \in sl /\ y \notin lo /\ ~Closes(c, y)
      BY <1>1, <1>4, <2>2, <3>1 DEF Exclusive
    <3>. QED BY <1>2, <3>1, <3>2 DEF Exclusive
  <2>. QED BY <2>1, <2>2
<1>7. InUse(c, d, sl, y, lo)
  <2>1. 0 \notin sl
    BY <1>1 DEF Numbered
  <2>. QED BY <1>1, <1>3, <2>1 DEF InUse
<1>. QED BY <1>1, <1>5, <1>6, <1>7 DEF SOK, d, e, y

\* An event that is no grant is published.
LEMMA SaidOther ==
  ASSUME NEW c, NEW s \in Seq(EventKind), NEW sl, NEW b, NEW lo, NEW n \in Nat,
         SOK(c, s, sl, b, lo, n), NEW e \in EventKind, e.t # "SESSION", e.id = 0
  PROVE  SOK(c, Append(s, e), sl, b, lo, n)
<1>. DEFINE d == Append(s, e)
<1>1. /\ Numbered(c, s, sl, b, lo, n) /\ Exclusive(c, s, sl, b, lo) /\ InUse(c, s, sl, b, lo)
      /\ Served(c, sl)
  BY DEF SOK
<1>2. \A x : (Grants(d, x) <=> Grants(s, x)) /\ (Answers(d, x) <=> Answers(s, x))
  BY EventAdded
<1>3. /\ Len(s) \in Nat /\ DOMAIN s = 1 .. Len(s) /\ DOMAIN d = 1 .. Len(s) + 1
      /\ d[Len(s) + 1] = e /\ \A i \in 1 .. Len(s) : d[i] = s[i]
  BY AppendIs
<1>. HIDE DEF d
<1>4. \A i \in DOMAIN d : d[i] = e \/ (i \in DOMAIN s /\ d[i] = s[i])
  BY <1>3
<1>5. Numbered(c, d, sl, b, lo, n)
  <2>1. \A i, j \in DOMAIN d : i # j /\ d[i].t = "SESSION" /\ d[j].t = "SESSION"
                                 => d[i].token # d[j].token
    BY <1>1, <1>4 DEF Numbered
  <2>2. \A i \in DOMAIN d : d[i].id # 0 => d[i].t = "SESSION" /\ d[i].id = d[i].token
    BY <1>1, <1>4 DEF Numbered
  <2>3. \A x \in Nat : Closes(c, x) \/ Opens(c, x) \/ Answers(d, x) => x \in 1 .. n
    BY <1>1, <1>2 DEF Numbered
  <2>. QED BY <1>1, <2>1, <2>2, <2>3 DEF Numbered
<1>6. Exclusive(c, d, sl, b, lo) /\ InUse(c, d, sl, b, lo)
  BY <1>1, <1>2 DEF Exclusive, InUse
<1>. QED BY <1>1, <1>5, <1>6 DEF SOK, d

\* An open is answered, with a slot or without one.
LEMMA TookOpen ==
  ASSUME NEW c \in Seq(CommandKind), c # <<>>, NEW s \in Seq(EventKind), NEW sl, NEW b \in Nat,
         NEW lo, NEW n \in Nat, SOK(c, s, sl, b, lo, n), Head(c).op = "open",
         NEW g \in {0, Head(c).token}, NEW sm, sm = IF g = 0 THEN sl ELSE sl \cup {g},
         NEW e \in EventKind, e.t = "SESSION", e.id = g, e.token = Head(c).token
  PROVE  SOK(Tail(c), Append(s, e), sm, b, lo, n)
<1>. DEFINE d == Tail(c)
            z == Append(s, e)
            y == Head(c).token
<1>0. Head(c).op = "open" /\ g \in {0, y} /\ e.token = y
  OBVIOUS
<1>1. /\ Numbered(c, s, sl, b, lo, n) /\ Exclusive(c, s, sl, b, lo)
  BY DEF SOK
<1>2. SOK(d, s, sl, b, lo, n)
  BY TookOther
<1>3. /\ Numbered(d, s, sl, b, lo, n) /\ Exclusive(d, s, sl, b, lo) /\ InUse(d, s, sl, b, lo)
      /\ Served(d, sl)
  BY <1>2 DEF SOK
<1>4. ~Opens(d, y)
  BY QueueShorter
<1>5. \A x : (Closes(d, x) => Closes(c, x)) /\ (Opens(c, x) <=> x = y \/ Opens(d, x))
  BY CommandTaken
<1>6. \A x : /\ Grants(z, x) <=> x = g \/ Grants(s, x)
             /\ Answers(z, x) <=> x = y \/ Answers(s, x)
  BY EventAdded
<1>7. /\ Len(s) \in Nat /\ DOMAIN s = 1 .. Len(s) /\ DOMAIN z = 1 .. Len(s) + 1
      /\ z[Len(s) + 1] = e /\ \A i \in 1 .. Len(s) : z[i] = s[i]
  BY AppendIs
<1>8. y \in Nat
  BY HeadCommand
<1>. HIDE DEF d, z, y
<1>9. y \in 1 .. n /\ y # b /\ y \notin lo /\ ~Closes(c, y) /\ ~Answers(s, y)
  BY <1>1, <1>5, <1>8 DEF Numbered, Exclusive
<1>10. \A i \in DOMAIN z : i = Len(s) + 1 \/ (i \in DOMAIN s /\ z[i] = s[i])
  BY <1>7
<1>11. Numbered(d, z, sm, b, lo, n)
  <2>1. ASSUME NEW i \in DOMAIN z, NEW j \in DOMAIN z, i # j, z[i].t = "SESSION", z[j].t = "SESSION"
        PROVE  z[i].token # z[j].token
    <3>1. \A k \in DOMAIN s : s[k].t = "SESSION" => s[k].token # y
      BY <1>9 DEF Answers
    <3>2. CASE i \in DOMAIN s /\ j \in DOMAIN s
      BY <1>3, <1>7, <2>1, <3>2 DEF Numbered
    <3>3. CASE i = Len(s) + 1
      BY <1>0, <1>7, <1>10, <2>1, <3>1, <3>3
    <3>4. CASE j = Len(s) + 1
      BY <1>0, <1>7, <1>10, <2>1, <3>1, <3>4
    <3>. QED BY <1>10, <3>2, <3>3, <3>4
  <2>2. \A i \in DOMAIN z : z[i].id # 0 => z[i].t = "SESSION" /\ z[i].id = z[i].token
    <3>. TAKE i \in DOMAIN z
    <3>1. CASE i = Len(s) + 1
      BY <1>0, <1>7, <3>1
    <3>2. CASE i \in DOMAIN s /\ z[i] = s[i]
      BY <1>3, <3>2 DEF Numbered
    <3>. QED BY <1>10, <3>1, <3>2
  <2>3. \A x \in Nat : Closes(d, x) \/ Opens(d, x) \/ Answers(z, x) => x \in 1 .. n
    BY <1>3, <1>6, <1>9 DEF Numbered
  <2>4. sm \subseteq 1 .. n
    BY <1>0, <1>3, <1>9 DEF Numbered
  <2>. QED BY <1>3, <2>1, <2>2, <2>3, <2>4 DEF Numbered
<1>12. Exclusive(d, z, sm, b, lo)
  <2>1. \A x \in Nat : Opens(d, x) => x # b /\ x \notin lo /\ ~Closes(d, x) /\ ~Answers(z, x)
    BY <1>3, <1>4, <1>6 DEF Exclusive
  <2>2. \A x \in Nat \ {0} : Grants(z, x) => x \in sm /\ x # b /\ x \notin lo /\ ~Closes(d, x)
    BY <1>0, <1>3, <1>5, <1>6, <1>9 DEF Exclusive
  <2>3. b # 0 => b \in sm /\ b \notin lo /\ ~Closes(d, b)
    BY <1>3 DEF Exclusive
  <2>. QED BY <2>1, <2>2, <2>3 DEF Exclusive
<1>13. InUse(d, z, sm, b, lo)
  BY <1>0, <1>3, <1>6 DEF InUse
<1>14. Served(d, sm)
  BY <1>3 DEF Served
<1>. QED BY <1>11, <1>12, <1>13, <1>14 DEF SOK, d, z

------------------------------------------------------------------------------
(* Views: how the last word of the worker reaches the mirror *)

LEMMA WordTaken ==
  ASSUME NEW s \in Seq(EventKind), s # <<>>
  PROVE  LET e == Head(s) IN
         /\ \A x : Ends(s, x) => /\ Ends(Tail(s), x)
                                 /\ IsState(e) /\ ~Talks(Tail(s)) => Meaning(e) = x
         /\ Paired(s) => /\ Paired(Tail(s))
                         /\ e.t \in {"PAUSED", "STEP_COMPLETE"} => Decides(Tail(s))
<1>. DEFINE d == Tail(s)
            e == Head(s)
<1>1. /\ e = s[1] /\ Len(s) \in Nat \ {0} /\ DOMAIN s = 1 .. Len(s)
      /\ DOMAIN d = 1 .. Len(s) - 1 /\ \A i \in 1 .. Len(s) - 1 : d[i] = s[i + 1]
  BY TailIs
<1>. HIDE DEF d, e
<1>2. \A i \in DOMAIN d : i \in Nat /\ i + 1 \in DOMAIN s /\ s[i + 1] = d[i]
  BY <1>1
<1>3. \A j \in DOMAIN s : \A i \in DOMAIN d : j > i + 1 => j - 1 \in DOMAIN d /\ d[j - 1] = s[j] /\ j - 1 > i
  BY <1>1
<1>4. \A j \in DOMAIN s : j > 1 => j - 1 \in DOMAIN d /\ d[j - 1] = s[j]
  BY <1>1
<1>5. 1 \in DOMAIN s
  BY <1>1
<1>6. ASSUME NEW x, Ends(s, x) PROVE Ends(d, x)
  <2>. SUFFICES ASSUME NEW i \in DOMAIN d, IsState(d[i]), \A j \in DOMAIN d : j > i => ~IsState(d[j])
                PROVE  Meaning(d[i]) = x
    BY DEF Ends
  <2>1. \A j \in DOMAIN s : j > i + 1 => ~IsState(s[j])
    BY <1>3
  <2>. QED BY <1>2, <1>6, <2>1 DEF Ends
<1>7. ASSUME NEW x, Ends(s, x), IsState(e), ~Talks(d) PROVE Meaning(e) = x
  <2>1. \A j \in DOMAIN s : j > 1 => ~IsState(s[j])
    BY <1>4, <1>7 DEF Talks
  <2>. QED BY <1>1, <1>5, <1>7, <2>1 DEF Ends
<1>8. ASSUME Paired(s) PROVE Paired(d)
  <2>. SUFFICES ASSUME NEW i \in DOMAIN d, d[i].t \in {"PAUSED", "STEP_COMPLETE"}
                PROVE  \E j \in DOMAIN d : j > i /\ Decider(d[j])
    BY DEF Paired
  <2>1. PICK j \in DOMAIN s : j > i + 1 /\ Decider(s[j])
    BY <1>2, <1>8 DEF Paired
  <2>. QED BY <1>3, <2>1
<1>9. ASSUME Paired(s), e.t \in {"PAUSED", "STEP_COMPLETE"} PROVE Decides(d)
  <2>1. PICK j \in DOMAIN s : j > 1 /\ Decider(s[j])
    BY <1>1, <1>5, <1>9 DEF Paired
  <2>. QED BY <1>4, <2>1 DEF Decides
<1>. QED BY <1>6, <1>7, <1>8, <1>9 DEF d, e

LEMMA WordAdded ==
  ASSUME NEW s \in Seq(EventKind), NEW e \in EventKind
  PROVE  LET d == Append(s, e) IN
         /\ IsState(e) => Ends(d, Meaning(e))
         /\ ~IsState(e) => \A x : Ends(s, x) => Ends(d, x)
         /\ Decider(e) => Paired(d)
         /\ Paired(s) /\ e.t \notin {"PAUSED", "STEP_COMPLETE"} => Paired(d)
<1>. DEFINE d == Append(s, e)
            m == Len(s) + 1
<1>1. /\ Len(s) \in Nat /\ DOMAIN s = 1 .. Len(s) /\ DOMAIN d = 1 .. m /\ d[m] = e
      /\ \A i \in 1 .. Len(s) : d[i] = s[i]
  BY AppendIs
<1>. HIDE DEF d
<1>2. \A i \in DOMAIN d : i = m \/ (i \in DOMAIN s /\ d[i] = s[i] /\ m > i)
  BY <1>1
<1>3. m \in DOMAIN d /\ \A i \in DOMAIN s : i \in DOMAIN d
  BY <1>1
<1>4. ASSUME IsState(e) PROVE Ends(d, Meaning(e))
  BY <1>1, <1>2, <1>3, <1>4 DEF Ends
<1>5. ASSUME ~IsState(e), NEW x, Ends(s, x) PROVE Ends(d, x)
  BY <1>1, <1>2, <1>3, <1>5 DEF Ends
<1>6. ASSUME Decider(e) PROVE Paired(d)
  <2>. SUFFICES ASSUME NEW i \in DOMAIN d, d[i].t \in {"PAUSED", "STEP_COMPLETE"}
                PROVE  \E j \in DOMAIN d : j > i /\ Decider(d[j])
    BY DEF Paired
  <2>1. i # m
    BY <1>1, <1>6 DEF Decider, IsMachineState
  <2>2. m > i
    BY <1>2, <2>1
  <2>. QED BY <1>1, <1>3, <1>6, <2>2
<1>7. ASSUME Paired(s), e.t \notin {"PAUSED", "STEP_COMPLETE"} PROVE Paired(d)
  <2>. SUFFICES ASSUME NEW i \in DOMAIN d, d[i].t \in {"PAUSED", "STEP_COMPLETE"}
                PROVE  \E j \in DOMAIN d : j > i /\ Decider(d[j])
    BY DEF Paired
  <2>1. i \in DOMAIN s /\ d[i] = s[i]
    BY <1>1, <1>2, <1>7
  <2>2. PICK j \in DOMAIN s : j > i /\ Decider(s[j])
    BY <1>7, <2>1 DEF Paired
  <2>. QED BY <1>1, <1>3, <2>2
<1>. QED BY <1>4, <1>5, <1>6, <1>7 DEF d

\* What the worker has published so far is overruled by what it is about to
\* publish, if that speaks of the state at all.
LEMMA WordJoined ==
  ASSUME NEW a \in Seq(EventKind), NEW b \in Seq(EventKind)
  PROVE  LET s == a \o b IN
         /\ Talks(s) <=> Talks(a) \/ Talks(b)
         /\ Decides(s) <=> Decides(a) \/ Decides(b)
         /\ \A x : Talks(b) /\ Ends(b, x) => Ends(s, x)
         /\ \A x : ~Talks(b) => (Ends(s, x) <=> Ends(a, x))
         /\ Decides(b) /\ Paired(b) => Paired(s)
         /\ ~Talks(b) => (Paired(s) <=> Paired(a))
         /\ Talks(b) /\ Paired(b) => Decides(b)
         /\ Decides(b) => Talks(b)
<1>. DEFINE s == a \o b
            n == Len(a)
<1>1. n \in Nat /\ Len(b) \in Nat /\ DOMAIN a = 1 .. n /\ DOMAIN b = 1 .. Len(b)
  OBVIOUS
<1>2. /\ DOMAIN s = 1 .. n + Len(b)
      /\ \A i \in 1 .. n : s[i] = a[i]
      /\ \A i \in 1 .. Len(b) : s[n + i] = b[i]
  <2>1. \A i \in 1 .. Len(b) : n + i \in 1 .. n + Len(b) /\ (n + i) - n = i /\ ~(n + i <= n)
    BY <1>1
  <2>2. /\ DOMAIN s = 1 .. n + Len(b)
        /\ \A i \in 1 .. n + Len(b) : s[i] = IF i <= n THEN a[i] ELSE b[i - n]
    OBVIOUS
  <2>. QED BY <1>1, <2>1, <2>2
<1>. HIDE DEF s, n
<1>3. \A i \in DOMAIN a : i \in DOMAIN s /\ s[i] = a[i] /\ i \in Nat
  BY <1>1, <1>2
<1>4. \A i \in DOMAIN b : n + i \in DOMAIN s /\ s[n + i] = b[i] /\ i \in Nat \ {0}
  BY <1>1, <1>2
<1>5. \A k \in DOMAIN s : \/ k \in DOMAIN a /\ s[k] = a[k]
                          \/ k > n /\ k - n \in DOMAIN b /\ s[k] = b[k - n] /\ n + (k - n) = k
  <2>. TAKE k \in DOMAIN s
  <2>1. CASE k <= n
    BY <1>1, <1>2, <2>1
  <2>2. CASE k > n
    <3>1. k - n \in 1 .. Len(b) /\ n + (k - n) = k
      BY <1>1, <1>2, <2>2
    <3>. QED BY <1>1, <1>2, <2>2, <3>1
  <2>. QED BY <1>1, <1>2, <2>1, <2>2
<1>6. Talks(s) <=> Talks(a) \/ Talks(b)
  <2>1. Talks(s) => Talks(a) \/ Talks(b)
    BY <1>5 DEF Talks
  <2>2. Talks(a) => Talks(s)
    BY <1>3 DEF Talks
  <2>3. Talks(b) => Talks(s)
    BY <1>4 DEF Talks
  <2>. QED BY <2>1, <2>2, <2>3
<1>7. Decides(s) <=> Decides(a) \/ Decides(b)
  <2>1. Decides(s) => Decides(a) \/ Decides(b)
    BY <1>5 DEF Decides
  <2>2. Decides(a) => Decides(s)
    BY <1>3 DEF Decides
  <2>3. Decides(b) => Decides(s)
    BY <1>4 DEF Decides
  <2>. QED BY <2>1, <2>2, <2>3
<1>8. ASSUME NEW x, Talks(b), Ends(b, x) PROVE Ends(s, x)
  <2>. SUFFICES ASSUME NEW k \in DOMAIN s, IsState(s[k]), \A j \in DOMAIN s : j > k => ~IsState(s[j])
                PROVE  Meaning(s[k]) = x
    BY DEF Ends
  <2>1. PICK t \in DOMAIN b : IsState(b[t])
    BY <1>8 DEF Talks
  <2>2. k \notin DOMAIN a
    <3>1. n + t \in DOMAIN s /\ IsState(s[n + t])
      BY <1>4, <2>1
    <3>2. k \in DOMAIN a => n + t > k
      BY <1>1, <1>4, <2>1
    <3>. QED BY <3>1, <3>2
  <2>3. k - n \in DOMAIN b /\ s[k] = b[k - n] /\ k > n
    BY <1>5, <2>2
  <2>4. \A j \in DOMAIN b : j > k - n => ~IsState(b[j])
    <3>. SUFFICES ASSUME NEW j \in DOMAIN b, j > k - n PROVE ~IsState(b[j])
      OBVIOUS
    <3>1. k \in Nat
      BY <1>1, <1>2
    <3>2. n + j > k
      BY <1>1, <1>4, <3>1
    <3>. QED BY <1>4, <3>2
  <2>. QED BY <1>8, <2>3, <2>4 DEF Ends
<1>9. ASSUME NEW x, ~Talks(b), Ends(s, x) PROVE Ends(a, x)
  <2>. SUFFICES ASSUME NEW k \in DOMAIN a, IsState(a[k]), \A j \in DOMAIN a : j > k => ~IsState(a[j])
                PROVE  Meaning(a[k]) = x
    BY DEF Ends
  <2>1. \A j \in DOMAIN s : j > k => ~IsState(s[j])
    BY <1>5, <1>9 DEF Talks
  <2>. QED BY <1>3, <1>9, <2>1 DEF Ends
<1>10. ASSUME NEW x, ~Talks(b), Ends(a, x) PROVE Ends(s, x)
  <2>. SUFFICES ASSUME NEW k \in DOMAIN s, IsState(s[k]), \A j \in DOMAIN s : j > k => ~IsState(s[j])
                PROVE  Meaning(s[k]) = x
    BY DEF Ends
  <2>1. k \in DOMAIN a /\ s[k] = a[k]
    BY <1>5, <1>10 DEF Talks
  <2>2. \A j \in DOMAIN a : j > k => ~IsState(a[j])
    BY <1>3
  <2>. QED BY <1>10, <2>1, <2>2 DEF Ends
<1>11. ASSUME Decides(b), Paired(b) PROVE Paired(s)
  <2>. SUFFICES ASSUME NEW k \in DOMAIN s, s[k].t \in {"PAUSED", "STEP_COMPLETE"}
                PROVE  \E j \in DOMAIN s : j > k /\ Decider(s[j])
    BY DEF Paired
  <2>1. CASE k \in DOMAIN a
    <3>1. PICK t \in DOMAIN b : Decider(b[t])
      BY <1>11 DEF Decides
    <3>2. n + t > k
      BY <1>1, <1>4, <2>1
    <3>. QED BY <1>4, <3>1, <3>2
  <2>2. CASE k > n /\ k - n \in DOMAIN b /\ s[k] = b[k - n]
    <3>1. PICK t \in DOMAIN b : t > k - n /\ Decider(b[t])
      BY <1>11, <2>2 DEF Paired
    <3>2. k \in Nat
      BY <1>1, <1>2
    <3>3. n + t > k
      BY <1>1, <1>4, <3>1, <3>2
    <3>. QED BY <1>4, <3>1, <3>3
  <2>. QED BY <1>5, <2>1, <2>2
<1>12. ASSUME ~Talks(b) PROVE Paired(s) <=> Paired(a)
  <2>1. \A k \in DOMAIN s : IsState(s[k]) => k \in DOMAIN a /\ s[k] = a[k]
    BY <1>5, <1>12 DEF Talks
  <2>2. \A k \in DOMAIN s : s[k].t \in {"PAUSED", "STEP_COMPLETE"} \/ Decider(s[k]) => IsState(s[k])
    BY DEF IsState, Decider
  <2>3. ASSUME Paired(s) PROVE Paired(a)
    BY <1>3, <2>1, <2>2, <2>3 DEF Paired
  <2>4. ASSUME Paired(a) PROVE Paired(s)
    BY <1>3, <2>1, <2>2, <2>4 DEF Paired
  <2>. QED BY <2>3, <2>4
<1>13. Talks(b) /\ Paired(b) => Decides(b)
  BY DEF Talks, Paired, Decides, IsState, Decider
<1>14. Decides(b) => Talks(b)
  BY DEF Talks, Decides, IsState, Decider
<1>. QED BY <1>6, <1>7, <1>8, <1>9, <1>10, <1>11, <1>12, <1>13, <1>14 DEF s

LEMMA HearIs ==
  ASSUME NEW m, NEW e \in EventKind
  PROVE  /\ IsState(e) => Hear(m, e) \in {Meaning(e), "ERROR"}
         /\ IsState(e) /\ ~IsMachineState(e) => Hear(m, e) = Meaning(e)
         /\ ~IsState(e) => Hear(m, e) \in {m, "ERROR"}
         /\ m \in Execs \cup {"ERROR"} => Hear(m, e) \in Execs \cup {"ERROR"}
BY DEF Hear, IsState, IsMachineState, Meaning, EventKind, Execs

\* The main loop takes an event; a wait it serves is gone.
LEMMA ViewPolled ==
  ASSUME NEW c, NEW s \in Seq(EventKind), s # <<>>, NEW m, NEW op, NEW exec, NEW stepping, NEW sw,
         VOK(c, s, m, op, exec, stepping, sw), NEW op2,
         \/ op2 = "none"
         \/ /\ op2 = op
            /\ op = "waitPaused" => ~(IsMachineState(Head(s)) /\ Hear(m, Head(s)) = "PAUSED")
            /\ op = "waitRunning" => Hear(m, Head(s)) # "RUNNING"
  PROVE  VOK(c, Tail(s), Hear(m, Head(s)), op2, exec, stepping, sw /\ ~IsMachineState(Head(s)))
<1>. DEFINE d == Tail(s)
            e == Head(s)
            q == Hear(m, e)
<1>1. e \in EventKind
  BY HeadEvent
<1>2. /\ Talks(s) <=> IsState(e) \/ Talks(d)
      /\ Decides(s) <=> Decider(e) \/ Decides(d)
  BY EventTaken
<1>3. /\ \A x : Ends(s, x) => Ends(d, x) /\ (IsState(e) /\ ~Talks(d) => Meaning(e) = x)
      /\ Paired(d) /\ (e.t \in {"PAUSED", "STEP_COMPLETE"} => Decides(d))
  BY WordTaken DEF VOK
<1>4. /\ IsState(e) => q \in {Meaning(e), "ERROR"}
      /\ IsState(e) /\ ~IsMachineState(e) => q = Meaning(e)
      /\ ~IsState(e) => q \in {m, "ERROR"}
  BY <1>1, HearIs
<1>5. \/ op2 = "none"
      \/ /\ op2 = op
         /\ op = "waitPaused" => ~(IsMachineState(e) /\ q = "PAUSED")
         /\ op = "waitRunning" => q # "RUNNING"
  OBVIOUS
<1>. HIDE DEF d, e, q
<1>6. Owes(c, stepping) \/ (Ends(d, exec) /\ (Talks(d) \/ (sw /\ ~IsMachineState(e)) \/ q \in {exec, "ERROR"}))
  <2>. SUFFICES ASSUME ~Owes(c, stepping), ~Talks(d), ~(sw /\ ~IsMachineState(e)) PROVE q \in {exec, "ERROR"}
    BY <1>3 DEF VOK
  <2>1. Ends(s, exec) /\ (Talks(s) \/ sw \/ m \in {exec, "ERROR"})
    BY DEF VOK
  <2>2. CASE IsState(e)
    BY <1>3, <1>4, <2>1, <2>2
  <2>3. CASE ~IsState(e)
    BY <1>2, <1>4, <2>1, <2>3 DEF IsState
  <2>. QED BY <2>2, <2>3
<1>7. (op2 = "waitPaused" /\ q = "PAUSED") => (sw /\ ~IsMachineState(e)) \/ Owes(c, stepping) \/ Decides(d)
  <2>. SUFFICES ASSUME op2 = "waitPaused", q = "PAUSED"
                PROVE  (sw /\ ~IsMachineState(e)) \/ Owes(c, stepping) \/ Decides(d)
    OBVIOUS
  <2>1. op = "waitPaused" /\ ~IsMachineState(e)
    BY <1>5
  <2>2. CASE IsState(e)
    <3>1. e.t \in {"PAUSED", "STEP_COMPLETE"}
      BY <1>4, <2>1, <2>2 DEF IsState, Meaning
    <3>. QED BY <1>3, <3>1
  <2>3. CASE ~IsState(e)
    <3>1. sw \/ Owes(c, stepping) \/ Decides(s)
      BY <1>4, <2>1, <2>3 DEF VOK
    <3>2. e.t # "RUNNING"
      BY <2>3 DEF IsState
    <3>. QED BY <1>2, <2>1, <3>1, <3>2 DEF Decider
  <2>. QED BY <2>2, <2>3
<1>8. (op2 = "waitRunning" /\ q = "RUNNING") => Owes(c, stepping) \/ Talks(d)
  BY <1>5
<1>9. Paired(d)
  BY <1>3 DEF VOK
<1>. QED BY <1>6, <1>7, <1>8, <1>9 DEF VOK, d, e, q

\* The pump leaves op2 of the entry op: a wait for running stays only if the
\* mirror does not show it.
PumpLeaves(op2, op, m, e) ==
    op2 = "none" \/ (op2 = op /\ (op = "waitRunning" /\ IsState(e) => m # "RUNNING"))

\* The session pump takes an event.
LEMMA ViewPumped ==
  ASSUME NEW c, NEW s \in Seq(EventKind), s # <<>>, NEW m, NEW op, NEW exec, NEW stepping, NEW sw,
         VOK(c, s, m, op, exec, stepping, sw), NEW op2,
         PumpLeaves(op2, op, m, Head(s)), NEW sw2 \in BOOLEAN, sw \/ IsState(Head(s)) => sw2
  PROVE  VOK(c, Tail(s), m, op2, exec, stepping, sw2)
<1>. DEFINE d == Tail(s)
            e == Head(s)
<1>2. /\ Talks(s) <=> IsState(e) \/ Talks(d)
      /\ Decides(s) <=> Decider(e) \/ Decides(d)
  BY EventTaken
<1>3. (\A x : Ends(s, x) => Ends(d, x)) /\ Paired(d)
  BY WordTaken DEF VOK
<1>5. op2 = "none" \/ (op2 = op /\ (op = "waitRunning" /\ IsState(e) => m # "RUNNING"))
  BY DEF PumpLeaves
<1>10. sw \/ IsState(e) => sw2
  OBVIOUS
<1>. HIDE DEF d, e
<1>6. Owes(c, stepping) \/ (Ends(d, exec) /\ (Talks(d) \/ sw2 \/ m \in {exec, "ERROR"}))
  BY <1>2, <1>3, <1>10 DEF VOK
<1>7. (op2 = "waitPaused" /\ m = "PAUSED") => sw2 \/ Owes(c, stepping) \/ Decides(d)
  BY <1>2, <1>5, <1>10 DEF VOK, IsState, Decider
<1>8. (op2 = "waitRunning" /\ m = "RUNNING") => Owes(c, stepping) \/ Talks(d)
  BY <1>2, <1>5 DEF VOK
<1>9. Paired(d)
  BY <1>3 DEF VOK
<1>. QED BY <1>6, <1>7, <1>8, <1>9 DEF VOK, d, e

\* The worker ends its word with a state event that tells what it does.
LEMMA ViewTold ==
  ASSUME NEW c, NEW s \in Seq(EventKind), NEW e \in EventKind, NEW m, NEW op, NEW sw, Decider(e)
  PROVE  VOK(c, Append(s, e), m, op, Meaning(e), FALSE, sw)
<1>. DEFINE d == Append(s, e)
<1>1. IsState(e)
  BY DEF IsState, Decider
<1>2. Ends(d, Meaning(e)) /\ Paired(d)
  BY <1>1, WordAdded
<1>3. Talks(d) /\ Decides(d)
  BY <1>1, EventAdded
<1>. HIDE DEF d
<1>. QED BY <1>2, <1>3 DEF VOK, d

\* A step begins; the worker owes the outcome.
LEMMA ViewStepping ==
  ASSUME NEW c, NEW s, Paired(s), NEW m, NEW op, NEW exec, NEW sw
  PROVE  VOK(c, s, m, op, exec, TRUE, sw)
BY DEF VOK, Owes

\* A command without an effect on execution, and its event.
LEMMA ViewQuiet ==
  ASSUME NEW c \in Seq(CommandKind), c # <<>>, Head(c).op \notin Asking, NEW s \in Seq(EventKind),
         NEW m, NEW op, NEW exec, NEW sw, VOK(c, s, m, op, exec, FALSE, sw),
         NEW b \in Seq(EventKind), ~Talks(b)
  PROVE  VOK(Tail(c), s \o b, m, op, exec, FALSE, sw)
<1>. DEFINE d == s \o b
<1>1. Asked(Tail(c)) <=> Asked(c)
  BY CommandTaken
<1>2. /\ Talks(d) <=> Talks(s)
      /\ Decides(d) <=> Decides(s)
      /\ \A x : Ends(s, x) <=> Ends(d, x)
      /\ Paired(d) <=> Paired(s)
  BY WordJoined
<1>. HIDE DEF d
<1>. QED BY <1>1, <1>2 DEF VOK, Owes, d

\* More commands and another entry are fine, as long as the entry does not
\* wait for what the mirror shows.
LEMMA ViewSent ==
  ASSUME NEW c, NEW c2, NEW s, NEW m, NEW op, NEW op2, NEW exec, NEW stepping, NEW sw,
         VOK(c, s, m, op, exec, stepping, sw), Asked(c) => Asked(c2),
         \/ op2 = op
         \/ op2 \notin {"waitPaused", "waitRunning"}
         \/ op2 = "waitPaused" /\ m # "PAUSED"
         \/ op2 = "waitRunning" /\ m # "RUNNING"
  PROVE  VOK(c2, s, m, op2, exec, stepping, sw)
BY DEF VOK, Owes

\* A request for the state is on its way: the mirror may be ahead.
LEMMA ViewAsked ==
  ASSUME NEW c, NEW c2, NEW s, NEW m, NEW m2, NEW op, NEW exec, NEW stepping, NEW sw,
         VOK(c, s, m, op, exec, stepping, sw), Asked(c2)
  PROVE  VOK(c2, s, m2, op, exec, stepping, sw)
BY DEF VOK, Owes

------------------------------------------------------------------------------
(* The worker's steps *)

LEMMA Kinds ==
  /\ \A t \in {"RUNNING", "PAUSED", "STEP_COMPLETE", "HISTORY", "CLOSED", "ERROR", "BREAKPOINTS"} :
        Event(t) \in EventKind /\ Event(t).t = t /\ Event(t).id = 0
  /\ \A x \in Execs : /\ MachineState(x) \in EventKind /\ MachineState(x).id = 0
                      /\ MachineState(x).t # "SESSION"
                      /\ IsMachineState(MachineState(x)) /\ Meaning(MachineState(x)) = x
  /\ \A i, n \in Nat : /\ Grant(i, n) \in EventKind /\ Grant(i, n).t = "SESSION"
                       /\ Grant(i, n).id = i /\ Grant(i, n).token = n
  /\ \A n \in Nat : LET e == [Event("HISTORY") EXCEPT !.token = n] IN
        e \in EventKind /\ e.t = "HISTORY" /\ e.id = 0
BY DEF Event, MachineState, Grant, EventKind, Execs, IsMachineState, Meaning

LEMMA Saying ==
  ASSUME NEW s \in Seq(EventKind), NEW e \in EventKind, NEW f \in EventKind
  PROVE  /\ s \o <<>> = s /\ s \o <<e>> = Append(s, e)
         /\ s \o <<e, f>> = Append(Append(s, e), f)
         /\ <<>> \in Seq(EventKind) /\ <<e>> \in Seq(EventKind) /\ <<e, f>> \in Seq(EventKind)
         /\ <<e>> = Append(<<>>, e) /\ <<e, f>> = Append(Append(<<>>, e), f)
<1>1. s \o <<>> = s
  OBVIOUS
<1>2. s \o <<e>> = Append(s, e)
  OBVIOUS
<1>3. s \o <<e, f>> = Append(Append(s, e), f)
  OBVIOUS
<1>4. <<e>> = Append(<<>>, e) /\ <<e, f>> = Append(Append(<<>>, e), f)
  OBVIOUS
<1>. QED BY <1>1, <1>2, <1>3, <1>4

LEMMA NothingYet ==
  /\ \A x : ~Closes(<<>>, x) /\ ~Opens(<<>>, x) /\ ~Grants(<<>>, x) /\ ~Answers(<<>>, x)
  /\ ~Asked(<<>>) /\ ~Talks(<<>>) /\ ~Decides(<<>>) /\ Paired(<<>>) /\ \A x : Ends(<<>>, x)
BY DEF Closes, Opens, Grants, Answers, Asked, Talks, Decides, Paired, Ends

LEMMA TwoSaid ==
  ASSUME NEW e \in EventKind, NEW f \in EventKind
  PROVE  Append(Append(<<>>, e), f) = <<e, f>>
<1>1. ASSUME NEW s \in Seq(EventKind) PROVE Append(Append(<<>>, e), f) = <<e, f>>
  BY Saying
<1>2. <<e>> \in Seq(EventKind)
  OBVIOUS
<1>. QED BY <1>1, <1>2

\* A burst that ends with a word on the state is well formed and speaks; one
\* that says nothing of it is well formed too.
LEMMA Bursts ==
  ASSUME NEW e \in EventKind, NEW f \in EventKind
  PROVE  /\ Decider(e) => Talks(<<e>>) /\ Paired(<<e>>) /\ Ends(<<e>>, Meaning(e))
         /\ Decider(f) => Talks(<<e, f>>) /\ Paired(<<e, f>>) /\ Ends(<<e, f>>, Meaning(f))
         /\ ~IsState(e) => ~Talks(<<e>>) /\ Paired(<<e>>) /\ \A x : Ends(<<e>>, x)
         /\ ~IsState(e) /\ ~IsState(f) => ~Talks(<<e, f>>) /\ Paired(<<e, f>>) /\ \A x : Ends(<<e, f>>, x)
<1>. DEFINE n == <<>>
            a == Append(n, e)
            b == Append(a, f)
<1>1. n \in Seq(EventKind) /\ a \in Seq(EventKind) /\ b \in Seq(EventKind) /\ a = <<e>> /\ b = <<e, f>>
  <2>1. n \in Seq(EventKind) /\ a \in Seq(EventKind) /\ a = <<e>>
    OBVIOUS
  <2>2. b \in Seq(EventKind)
    BY <2>1
  <2>3. b = <<e, f>>
    BY TwoSaid
  <2>. QED BY <2>1, <2>2, <2>3
<1>2. ~Talks(n) /\ Paired(n) /\ \A x : Ends(n, x)
  BY NothingYet
<1>3. \A z \in EventKind : Decider(z) => IsState(z)
  BY DEF Decider, IsState
<1>4. \A z \in EventKind : ~IsState(z) => z.t \notin {"PAUSED", "STEP_COMPLETE"}
  BY DEF IsState
<1>. HIDE DEF n
<1>5. /\ Talks(a) <=> IsState(e) \/ Talks(n)
      /\ IsState(e) => Ends(a, Meaning(e))
      /\ ~IsState(e) => \A x : Ends(n, x) => Ends(a, x)
      /\ Decider(e) => Paired(a)
      /\ Paired(n) /\ e.t \notin {"PAUSED", "STEP_COMPLETE"} => Paired(a)
  BY <1>1, EventAdded, WordAdded
<1>. HIDE DEF a
<1>6. /\ Talks(b) <=> IsState(f) \/ Talks(a)
      /\ IsState(f) => Ends(b, Meaning(f))
      /\ ~IsState(f) => \A x : Ends(a, x) => Ends(b, x)
      /\ Decider(f) => Paired(b)
      /\ Paired(a) /\ f.t \notin {"PAUSED", "STEP_COMPLETE"} => Paired(b)
  BY <1>1, EventAdded, WordAdded
<1>. HIDE DEF b
<1>7. Decider(e) => Talks(a) /\ Paired(a) /\ Ends(a, Meaning(e))
  BY <1>3, <1>5
<1>8. Decider(f) => Talks(b) /\ Paired(b) /\ Ends(b, Meaning(f))
  BY <1>3, <1>6
<1>9. ~IsState(e) => ~Talks(a) /\ Paired(a) /\ \A x : Ends(a, x)
  BY <1>2, <1>4, <1>5
<1>10. ~IsState(e) /\ ~IsState(f) => ~Talks(b) /\ Paired(b) /\ \A x : Ends(b, x)
  BY <1>4, <1>6, <1>9
<1>. QED BY <1>1, <1>7, <1>8, <1>9, <1>10

\* What an idle worker does next: it says b and goes on as x, st.
Speaks(b, x, st) ==
    /\ w'.burst = b /\ w'.exec = x /\ w'.stepping = st /\ w'.dropped = w.dropped
    /\ w' \in WKind /\ w.burst = <<>>

LEMMA Spoken ==
  ASSUME Shape, UNCHANGED events, NEW b, NEW x, NEW st, Speaks(b, x, st)
  PROVE  Unheard = events /\ events \in Seq(EventKind) /\ Unheard' = events \o b /\ b \in Seq(EventKind)
<1>1. events \in Seq(EventKind) /\ events' = events /\ w.burst = <<>> /\ w'.burst = b /\ w' \in WKind
  BY DEF Shape, Speaks
<1>2. events \o <<>> = events
  BY <1>1
<1>3. Unheard = events
  BY <1>1, <1>2 DEF Unheard
<1>4. Unheard' = events \o b
  BY <1>1 DEF Unheard
<1>5. b \in Seq(EventKind)
  BY <1>1 DEF WKind
<1>. QED BY <1>1, <1>3, <1>4, <1>5

\* A spoken step keeps the shape of everything else.
LEMMA SpokenShape ==
  ASSUME TInv, NEW b, NEW x, NEW st, Speaks(b, x, st), st => x = "PAUSED", cmds' \in Seq(CommandKind),
         UNCHANGED <<peer, events, mainVars>>,
         IsFiniteSet(slots'), Cardinality(slots') <= SessionSlots
  PROVE  TInv'
<1>1. w' \in WKind /\ (w'.stepping => w'.exec = "PAUSED")
  BY DEF Speaks
<1>2. Shape'
  BY <1>1 DEF TInv, Shape, mainVars
<1>3. Pumping'
  BY DEF TInv, Pumping, mainVars
<1>. QED BY <1>2, <1>3 DEF TInv

LEMMA WorkerRecord ==
  ASSUME w \in WKind, NEW b \in Seq(EventKind), NEW x \in Execs, NEW st \in BOOLEAN
  PROVE  LET v == [w EXCEPT !.exec = x, !.stepping = st, !.burst = b] IN
         /\ v \in WKind /\ v.exec = x /\ v.stepping = st /\ v.burst = b /\ v.stops = w.stops
         /\ v.dropped = w.dropped
BY DEF WKind

LEMMA WorkerSays ==
  ASSUME w \in WKind, NEW b \in Seq(EventKind)
  PROVE  LET v == [w EXCEPT !.burst = b] IN
         /\ v \in WKind /\ v.exec = w.exec /\ v.stepping = w.stepping /\ v.burst = b /\ v.stops = w.stops
         /\ v.dropped = w.dropped
BY DEF WKind

\* What each way of changing the worker comes to.
LEMMA Deeds ==
  ASSUME Shape, w.burst = <<>>
  PROVE  /\ w' = Resume => Speaks(<<Event("RUNNING")>>, "RUNNING", FALSE)
         /\ w' = Halt => Speaks(<<Event("PAUSED"), MachineState("PAUSED")>>, "PAUSED", FALSE)
         /\ w' = [w EXCEPT !.exec = "PAUSED", !.stepping = TRUE] => Speaks(<<>>, "PAUSED", TRUE)
         /\ w' = w => Speaks(<<>>, w.exec, w.stepping)
         /\ \A b \in Seq(EventKind) : w' = [w EXCEPT !.burst = b] => Speaks(b, w.exec, w.stepping)
<1>1. w \in WKind /\ w.exec \in Execs /\ w.stepping \in BOOLEAN
  BY DEF Shape, WKind
<1>2. /\ <<Event("RUNNING")>> \in Seq(EventKind)
      /\ <<Event("PAUSED"), MachineState("PAUSED")>> \in Seq(EventKind)
  BY Kinds DEF Execs
<1>3. ASSUME w' = Resume PROVE Speaks(<<Event("RUNNING")>>, "RUNNING", FALSE)
  BY <1>1, <1>2, <1>3, WorkerRecord DEF Resume, Speaks, Execs
<1>4. ASSUME w' = Halt PROVE Speaks(<<Event("PAUSED"), MachineState("PAUSED")>>, "PAUSED", FALSE)
  BY <1>1, <1>2, <1>4, WorkerRecord DEF Halt, Stopped, Speaks, Execs
<1>5. ASSUME w' = [w EXCEPT !.exec = "PAUSED", !.stepping = TRUE] PROVE Speaks(<<>>, "PAUSED", TRUE)
  BY <1>1, <1>5 DEF Speaks, WKind, Execs
<1>6. ASSUME w' = w PROVE Speaks(<<>>, w.exec, w.stepping)
  BY <1>1, <1>6 DEF Speaks
<1>7. ASSUME NEW b \in Seq(EventKind), w' = [w EXCEPT !.burst = b] PROVE Speaks(b, w.exec, w.stepping)
  BY <1>1, <1>7, WorkerSays DEF Speaks
<1>. QED BY <1>3, <1>4, <1>5, <1>6, <1>7

\* A step of the worker needs a view only if nothing it said is missing.
LEMMA WorkerStep ==
  ASSUME IInv, NEW b, NEW x, NEW st, Speaks(b, x, st), st => x = "PAUSED", cmds' \in Seq(CommandKind),
         UNCHANGED <<peer, events, mainVars>>,
         IsFiniteSet(slots'), Cardinality(slots') <= SessionSlots, Paired(b), Ends(b, x),
         SOK(cmds', Unheard', slots', bind.id, lost', opens),
         \/ w.dropped /\ ~Talks(b)
         \/ VOK(cmds', Unheard', mirror, entry.op, x, st, swallowed)
  PROVE  IInv'
<1>1. TInv'
  BY SpokenShape DEF IInv
<1>2. /\ bind' = bind /\ opens' = opens /\ mirror' = mirror /\ entry' = entry
      /\ swallowed' = swallowed /\ latch' = latch
  BY DEF mainVars
<1>3. w'.exec = x /\ w'.stepping = st /\ w'.burst = b /\ w'.dropped = w.dropped
  BY DEF Speaks
<1>4. SInv'
  BY <1>2 DEF SInv
<1>5. VInv'
  BY <1>2, <1>3 DEF VInv, View, Excused
<1>6. LInv' /\ BInv'
  BY <1>2, <1>3 DEF IInv, LInv, BInv
<1>. QED BY <1>1, <1>4, <1>5, <1>6 DEF IInv

\* The invariant of a worker that has nothing left to publish.
LEMMA Idle ==
  ASSUME IInv, w.burst = <<>>
  PROVE  /\ events \in Seq(EventKind) /\ cmds \in Seq(CommandKind) /\ bind.id \in Nat /\ opens \in Nat
         /\ w.exec \in Execs /\ w.stepping \in BOOLEAN /\ w.dropped \in BOOLEAN
         /\ SOK(cmds, events, slots, bind.id, lost, opens)
         /\ w.dropped \/ VOK(cmds, events, mirror, entry.op, w.exec, w.stepping, swallowed)
         /\ Shape /\ IsFiniteSet(slots) /\ Cardinality(slots) <= SessionSlots
<1>1. /\ events \in Seq(EventKind) /\ cmds \in Seq(CommandKind) /\ bind.id \in Nat /\ opens \in Nat
      /\ w.exec \in Execs /\ w.stepping \in BOOLEAN /\ w.dropped \in BOOLEAN
  BY DEF IInv, TInv, Shape, WKind
<1>2. events \o <<>> = events
  BY <1>1
<1>3. Unheard = events
  BY <1>2 DEF Unheard
<1>. QED BY <1>1, <1>3 DEF IInv, SInv, VInv, View, Excused, TInv

\* Saying that the machine stopped, or that it runs.
LEMMA SaidStop ==
  ASSUME NEW c, NEW s \in Seq(EventKind), NEW sl, NEW b, NEW lo, NEW n \in Nat,
         SOK(c, s, sl, b, lo, n), NEW t \in {"PAUSED", "STEP_COMPLETE"}
  PROVE  SOK(c, s \o <<Event(t), MachineState("PAUSED")>>, sl, b, lo, n)
<1>1. Event(t) \in EventKind /\ Event(t).t # "SESSION" /\ Event(t).id = 0
  BY Kinds
<1>2. "PAUSED" \in Execs
  BY DEF Execs
<1>3. /\ MachineState("PAUSED") \in EventKind /\ MachineState("PAUSED").t # "SESSION"
      /\ MachineState("PAUSED").id = 0
  BY <1>2, Kinds
<1>4. SOK(c, Append(s, Event(t)), sl, b, lo, n) /\ Append(s, Event(t)) \in Seq(EventKind)
  BY <1>1, SaidOther
<1>5. SOK(c, Append(Append(s, Event(t)), MachineState("PAUSED")), sl, b, lo, n)
  BY <1>3, <1>4, SaidOther
<1>. QED BY <1>1, <1>3, <1>5, Saying

LEMMA ToldStop ==
  ASSUME NEW c, NEW s \in Seq(EventKind), NEW t \in {"PAUSED", "STEP_COMPLETE"}, NEW m, NEW op, NEW sw
  PROVE  LET b == <<Event(t), MachineState("PAUSED")>> IN
         VOK(c, s \o b, m, op, "PAUSED", FALSE, sw) /\ Paired(b) /\ Ends(b, "PAUSED")
<1>. DEFINE e == MachineState("PAUSED")
            f == Event(t)
            d == Append(s, f)
<1>1. f \in EventKind /\ d \in Seq(EventKind)
  BY Kinds
<1>2. "PAUSED" \in Execs
  BY DEF Execs
<1>3. e \in EventKind /\ IsMachineState(e) /\ Meaning(e) = "PAUSED"
  BY <1>2, Kinds
<1>. HIDE DEF e, f
<1>4. s \o <<f, e>> = Append(d, e)
  BY <1>1, <1>3, Saying
<1>5. Decider(e)
  BY <1>3 DEF Decider
<1>. HIDE DEF d
<1>6. VOK(c, Append(d, e), m, op, Meaning(e), FALSE, sw)
  BY <1>1, <1>3, <1>5, ViewTold
<1>7. Paired(<<f, e>>) /\ Ends(<<f, e>>, "PAUSED")
  BY <1>1, <1>3, <1>5, Bursts
<1>. QED BY <1>3, <1>4, <1>6, <1>7 DEF e, f

LEMMA ToldRun ==
  ASSUME NEW c, NEW s \in Seq(EventKind), NEW m, NEW op, NEW sw
  PROVE  LET b == <<Event("RUNNING")>> IN
         VOK(c, s \o b, m, op, "RUNNING", FALSE, sw) /\ Paired(b) /\ Ends(b, "RUNNING")
<1>. DEFINE e == Event("RUNNING")
<1>1. e \in EventKind /\ e.t = "RUNNING"
  BY Kinds
<1>2. Meaning(e) = "RUNNING" /\ Decider(e)
  BY <1>1 DEF Meaning, Decider
<1>. HIDE DEF e
<1>3. s \o <<e>> = Append(s, e)
  BY <1>1, Saying
<1>4. VOK(c, Append(s, e), m, op, Meaning(e), FALSE, sw)
  BY <1>1, <1>2, ViewTold
<1>5. Paired(<<e>>) /\ Ends(<<e>>, "RUNNING")
  BY <1>1, <1>2, Bursts
<1>. QED BY <1>2, <1>3, <1>4, <1>5 DEF e

LEMMA SaidRun ==
  ASSUME NEW c, NEW s \in Seq(EventKind), NEW sl, NEW b, NEW lo, NEW n \in Nat, SOK(c, s, sl, b, lo, n)
  PROVE  SOK(c, s \o <<Event("RUNNING")>>, sl, b, lo, n)
<1>1. Event("RUNNING") \in EventKind /\ Event("RUNNING").t # "SESSION" /\ Event("RUNNING").id = 0
  BY Kinds
<1>. DEFINE e == Event("RUNNING")
<1>. HIDE DEF e
<1>2. SOK(c, Append(s, e), sl, b, lo, n)
  BY <1>1, SaidOther DEF e
<1>3. s \o <<e>> = Append(s, e)
  BY <1>1, Saying DEF e
<1>. QED BY <1>2, <1>3 DEF e

\* Commands that end or begin a run, for TakeCommand and StepTakes alike.
LEMMA TookRun ==
  ASSUME IInv, w.burst = <<>>, cmds # <<>>, Head(cmds).op = "run", cmds' = Tail(cmds), w' = Resume,
         UNCHANGED <<peer, events, slots, lost, mainVars>>
  PROVE  IInv'
<1>. DEFINE b == <<Event("RUNNING")>>
<1>1. /\ events \in Seq(EventKind) /\ cmds \in Seq(CommandKind) /\ bind.id \in Nat /\ opens \in Nat
      /\ SOK(cmds, events, slots, bind.id, lost, opens) /\ Shape
      /\ IsFiniteSet(slots) /\ Cardinality(slots) <= SessionSlots
  BY Idle
<1>2. Speaks(b, "RUNNING", FALSE)
  BY <1>1, Deeds
<1>3. SOK(Tail(cmds), events, slots, bind.id, lost, opens)
  BY <1>1, TookOther
<1>4. SOK(Tail(cmds), events \o b, slots, bind.id, lost, opens)
  BY <1>1, <1>3, SaidRun
<1>5. /\ VOK(Tail(cmds), events \o b, mirror, entry.op, "RUNNING", FALSE, swallowed)
      /\ Paired(b) /\ Ends(b, "RUNNING")
  BY <1>1, ToldRun
<1>. HIDE DEF b
<1>6. Unheard' = events \o b
  BY <1>1, <1>2, Spoken
<1>7. Tail(cmds) \in Seq(CommandKind)
  BY <1>1
<1>. QED BY <1>1, <1>2, <1>4, <1>5, <1>6, <1>7, WorkerStep

LEMMA TookPause ==
  ASSUME IInv, w.burst = <<>>, cmds # <<>>, Head(cmds).op = "pause", cmds' = Tail(cmds), w' = Halt,
         UNCHANGED <<peer, events, slots, lost, mainVars>>
  PROVE  IInv'
<1>. DEFINE b == <<Event("PAUSED"), MachineState("PAUSED")>>
<1>1. /\ events \in Seq(EventKind) /\ cmds \in Seq(CommandKind) /\ bind.id \in Nat /\ opens \in Nat
      /\ SOK(cmds, events, slots, bind.id, lost, opens) /\ Shape
      /\ IsFiniteSet(slots) /\ Cardinality(slots) <= SessionSlots
  BY Idle
<1>2. Speaks(b, "PAUSED", FALSE)
  BY <1>1, Deeds
<1>3. SOK(Tail(cmds), events, slots, bind.id, lost, opens)
  BY <1>1, TookOther
<1>4. SOK(Tail(cmds), events \o b, slots, bind.id, lost, opens)
  BY <1>1, <1>3, SaidStop
<1>5. /\ VOK(Tail(cmds), events \o b, mirror, entry.op, "PAUSED", FALSE, swallowed)
      /\ Paired(b) /\ Ends(b, "PAUSED")
  BY <1>1, ToldStop
<1>. HIDE DEF b
<1>6. Unheard' = events \o b
  BY <1>1, <1>2, Spoken
<1>7. Tail(cmds) \in Seq(CommandKind)
  BY <1>1
<1>. QED BY <1>1, <1>2, <1>4, <1>5, <1>6, <1>7, WorkerStep

\* A command whose events b say nothing of the machine's state.
LEMMA TookQuiet ==
  ASSUME IInv, w.burst = <<>>, ~w.stepping, cmds # <<>>, Head(cmds).op \notin Asking, cmds' = Tail(cmds),
         NEW b \in Seq(EventKind), w' = [w EXCEPT !.burst = b], ~Talks(b), Paired(b), Ends(b, w.exec),
         UNCHANGED <<peer, events, lost, mainVars>>,
         IsFiniteSet(slots'), Cardinality(slots') <= SessionSlots,
         SOK(Tail(cmds), events \o b, slots', bind.id, lost, opens)
  PROVE  IInv'
<1>1. /\ events \in Seq(EventKind) /\ cmds \in Seq(CommandKind) /\ Shape
      /\ w.dropped \/ VOK(cmds, events, mirror, entry.op, w.exec, w.stepping, swallowed)
      /\ w.stepping = FALSE
  BY Idle
<1>2. Speaks(b, w.exec, FALSE)
  BY <1>1, Deeds
<1>3. Unheard' = events \o b
  BY <1>1, <1>2, Spoken
<1>4. w.dropped \/ VOK(Tail(cmds), events \o b, mirror, entry.op, w.exec, FALSE, swallowed)
  BY <1>1, ViewQuiet
<1>5. Tail(cmds) \in Seq(CommandKind)
  BY <1>1
<1>. QED BY <1>2, <1>3, <1>4, <1>5, WorkerStep

LEMMA TookAsk ==
  ASSUME IInv, w.burst = <<>>, ~w.stepping, cmds # <<>>, Head(cmds).op = "history", cmds' = Tail(cmds),
         w' = [w EXCEPT !.burst = <<[Event("HISTORY") EXCEPT !.token = Head(cmds).token]>>],
         UNCHANGED <<peer, events, slots, lost, mainVars>>
  PROVE  IInv'
<1>1. /\ events \in Seq(EventKind) /\ cmds \in Seq(CommandKind) /\ bind.id \in Nat /\ opens \in Nat
      /\ SOK(cmds, events, slots, bind.id, lost, opens)
      /\ IsFiniteSet(slots) /\ Cardinality(slots) <= SessionSlots
  BY Idle
<1>. DEFINE e == [Event("HISTORY") EXCEPT !.token = Head(cmds).token]
<1>2. Head(cmds).token \in Nat
  BY <1>1, HeadCommand
<1>3. e \in EventKind /\ e.t = "HISTORY" /\ e.id = 0 /\ w' = [w EXCEPT !.burst = <<e>>]
  BY <1>2, Kinds
<1>. HIDE DEF e
<1>4. SOK(Tail(cmds), events, slots, bind.id, lost, opens)
  BY <1>1, TookOther
<1>5. SOK(Tail(cmds), Append(events, e), slots, bind.id, lost, opens)
  BY <1>1, <1>3, <1>4, SaidOther
<1>6. Append(events, e) = events \o <<e>> /\ <<e>> \in Seq(EventKind)
  BY <1>1, <1>3, Saying
<1>7. ~Talks(<<e>>) /\ Paired(<<e>>) /\ Ends(<<e>>, w.exec)
  BY <1>3, Bursts DEF IsState, IsMachineState
<1>8. Head(cmds).op \notin Asking
  BY DEF Asking
<1>. QED BY <1>1, <1>3, <1>5, <1>6, <1>7, <1>8, TookQuiet

\* A breakpoint update is answered with the table, after an error if it is
\* rejected.
LEMMA TookUpdate ==
  ASSUME IInv, w.burst = <<>>, ~w.stepping, cmds # <<>>, Head(cmds).op = "update", cmds' = Tail(cmds),
         w' \in {[w EXCEPT !.burst = <<Event("BREAKPOINTS")>>],
                 [w EXCEPT !.burst = <<Event("ERROR"), Event("BREAKPOINTS")>>]},
         UNCHANGED <<peer, events, slots, lost, mainVars>>
  PROVE  IInv'
<1>1. /\ events \in Seq(EventKind) /\ cmds \in Seq(CommandKind) /\ bind.id \in Nat /\ opens \in Nat
      /\ SOK(cmds, events, slots, bind.id, lost, opens)
      /\ IsFiniteSet(slots) /\ Cardinality(slots) <= SessionSlots
  BY Idle
<1>. DEFINE e == Event("ERROR")
            f == Event("BREAKPOINTS")
<1>2. e \in EventKind /\ e.t = "ERROR" /\ e.id = 0 /\ f \in EventKind /\ f.t = "BREAKPOINTS" /\ f.id = 0
  BY Kinds
<1>3. w' = [w EXCEPT !.burst = <<f>>] \/ w' = [w EXCEPT !.burst = <<e, f>>]
  OBVIOUS
<1>. HIDE DEF e, f
<1>4. SOK(Tail(cmds), events, slots, bind.id, lost, opens)
  BY <1>1, TookOther
<1>5. SOK(Tail(cmds), Append(events, f), slots, bind.id, lost, opens)
  BY <1>1, <1>2, <1>4, SaidOther
<1>6. SOK(Tail(cmds), Append(events, e), slots, bind.id, lost, opens) /\ Append(events, e) \in Seq(EventKind)
  BY <1>1, <1>2, <1>4, SaidOther
<1>7. SOK(Tail(cmds), Append(Append(events, e), f), slots, bind.id, lost, opens)
  BY <1>1, <1>2, <1>6, SaidOther
<1>8. /\ Append(events, f) = events \o <<f>> /\ Append(Append(events, e), f) = events \o <<e, f>>
      /\ <<f>> \in Seq(EventKind) /\ <<e, f>> \in Seq(EventKind)
  BY <1>1, <1>2, Saying
<1>9. ~IsState(e) /\ ~IsState(f)
  BY <1>2 DEF IsState, IsMachineState
<1>10. /\ ~Talks(<<f>>) /\ Paired(<<f>>) /\ Ends(<<f>>, w.exec)
       /\ ~Talks(<<e, f>>) /\ Paired(<<e, f>>) /\ Ends(<<e, f>>, w.exec)
  BY <1>2, <1>9, Bursts
<1>11. Head(cmds).op \notin Asking
  BY DEF Asking
<1>12. CASE w' = [w EXCEPT !.burst = <<f>>]
  BY <1>1, <1>5, <1>8, <1>10, <1>11, <1>12, TookQuiet
<1>13. CASE w' = [w EXCEPT !.burst = <<e, f>>]
  BY <1>1, <1>7, <1>8, <1>10, <1>11, <1>13, TookQuiet
<1>. QED BY <1>3, <1>12, <1>13

LEMMA TookCloseStep ==
  ASSUME IInv, w.burst = <<>>, ~w.stepping, cmds # <<>>, Head(cmds).op = "close", cmds' = Tail(cmds),
         w' = [w EXCEPT !.burst = <<Event("CLOSED")>>], slots' = slots \ {Head(cmds).id},
         UNCHANGED <<peer, events, lost, mainVars>>
  PROVE  IInv'
<1>1. /\ events \in Seq(EventKind) /\ cmds \in Seq(CommandKind) /\ bind.id \in Nat /\ opens \in Nat
      /\ SOK(cmds, events, slots, bind.id, lost, opens)
      /\ IsFiniteSet(slots) /\ Cardinality(slots) <= SessionSlots
  BY Idle
<1>. DEFINE e == Event("CLOSED")
<1>3. e \in EventKind /\ e.t = "CLOSED" /\ e.id = 0 /\ w' = [w EXCEPT !.burst = <<e>>]
  BY Kinds
<1>. HIDE DEF e
<1>4. SOK(Tail(cmds), events, slots', bind.id, lost, opens)
  BY <1>1, TookClose
<1>5. SOK(Tail(cmds), Append(events, e), slots', bind.id, lost, opens)
  BY <1>1, <1>3, <1>4, SaidOther
<1>6. Append(events, e) = events \o <<e>> /\ <<e>> \in Seq(EventKind)
  BY <1>1, <1>3, Saying
<1>7. ~Talks(<<e>>) /\ Paired(<<e>>) /\ Ends(<<e>>, w.exec)
  BY <1>3, Bursts DEF IsState, IsMachineState
<1>8. IsFiniteSet(slots') /\ Cardinality(slots') <= SessionSlots
  <2>1. IsFiniteSet(slots') /\ Cardinality(slots') <= Cardinality(slots)
    BY <1>1, FS_Subset
  <2>2. Cardinality(slots) \in Nat /\ Cardinality(slots') \in Nat /\ SessionSlots \in Nat
    BY <1>1, <2>1, FS_CardinalityType, Bounds
  <2>. QED BY <1>1, <2>1, <2>2
<1>9. Head(cmds).op \notin Asking
  BY DEF Asking
<1>. QED BY <1>3, <1>5, <1>6, <1>7, <1>8, <1>9, TookQuiet

LEMMA TookOpenStep ==
  ASSUME IInv, w.burst = <<>>, ~w.stepping, cmds # <<>>, Head(cmds).op = "open", cmds' = Tail(cmds),
         Open(Head(cmds)), UNCHANGED <<peer, events, lost, mainVars>>
  PROVE  IInv'
<1>1. /\ events \in Seq(EventKind) /\ cmds \in Seq(CommandKind) /\ bind.id \in Nat /\ opens \in Nat
      /\ SOK(cmds, events, slots, bind.id, lost, opens)
      /\ IsFiniteSet(slots) /\ Cardinality(slots) <= SessionSlots
  BY Idle
<1>. DEFINE y == Head(cmds).token
            g == IF Cardinality(slots) < SessionSlots THEN y ELSE 0
            e == Grant(g, y)
<1>2. y \in Nat /\ Head(cmds).op = "open"
  BY <1>1, HeadCommand
<1>3. y # 0
  <2>1. Opens(cmds, y)
    BY <1>1, <1>2, CommandTaken
  <2>2. y \in 1 .. opens
    BY <1>1, <1>2, <2>1 DEF SOK, Numbered
  <2>. QED BY <2>2
<1>4. /\ slots' = IF g = 0 THEN slots ELSE slots \cup {g}
      /\ w' = [w EXCEPT !.burst = <<e>>] /\ g \in {0, y}
  BY <1>3 DEF Open
<1>6. g = 0 \/ Cardinality(slots) < SessionSlots
  OBVIOUS
<1>. HIDE DEF g
<1>5. e \in EventKind /\ e.t = "SESSION" /\ e.id = g /\ e.token = y
  <2>1. g \in Nat /\ y \in Nat
    BY <1>2, <1>4
  <2>. QED BY <2>1, Kinds
<1>. HIDE DEF e
<1>7. SOK(Tail(cmds), Append(events, e), slots', bind.id, lost, opens)
  BY <1>1, <1>2, <1>4, <1>5, TookOpen
<1>8. Append(events, e) = events \o <<e>> /\ <<e>> \in Seq(EventKind)
  BY <1>1, <1>5, Saying
<1>9. ~Talks(<<e>>) /\ Paired(<<e>>) /\ Ends(<<e>>, w.exec)
  BY <1>5, Bursts DEF IsState, IsMachineState
<1>10. Head(cmds).op \notin Asking
  BY DEF Asking
<1>12. IsFiniteSet(slots') /\ Cardinality(slots') <= SessionSlots
  <2>1. CASE g = 0
    BY <1>1, <1>4, <2>1
  <2>2. CASE g # 0
    <3>1. slots' = slots \cup {g} /\ Cardinality(slots) < SessionSlots
      BY <1>4, <1>6, <2>2
    <3>2. /\ IsFiniteSet(slots')
          /\ Cardinality(slots') = IF g \in slots THEN Cardinality(slots) ELSE Cardinality(slots) + 1
      BY <1>1, <3>1, FS_AddElement
    <3>3. Cardinality(slots) \in Nat /\ SessionSlots \in Nat
      BY <1>1, FS_CardinalityType, Bounds
    <3>. QED BY <3>1, <3>2, <3>3
  <2>. QED BY <2>1, <2>2
<1>. QED BY <1>4, <1>7, <1>8, <1>9, <1>10, <1>12, TookQuiet

LEMMA TookStep ==
  ASSUME IInv, w.burst = <<>>, cmds # <<>>, Head(cmds).op = "step", cmds' = Tail(cmds),
         w' = [w EXCEPT !.exec = "PAUSED", !.stepping = TRUE],
         UNCHANGED <<peer, events, slots, lost, mainVars>>
  PROVE  IInv'
<1>. DEFINE b == <<>>
<1>1. /\ events \in Seq(EventKind) /\ cmds \in Seq(CommandKind) /\ bind.id \in Nat /\ opens \in Nat
      /\ SOK(cmds, events, slots, bind.id, lost, opens) /\ Shape
      /\ w.dropped \/ VOK(cmds, events, mirror, entry.op, w.exec, w.stepping, swallowed)
      /\ IsFiniteSet(slots) /\ Cardinality(slots) <= SessionSlots
  BY Idle
<1>2. Speaks(b, "PAUSED", TRUE)
  BY <1>1, Deeds
<1>3. Unheard' = events
  <2>1. Unheard' = events \o b
    BY <1>1, <1>2, Spoken
  <2>. QED BY <1>1, <2>1
<1>4. SOK(Tail(cmds), events, slots, bind.id, lost, opens)
  BY <1>1, TookOther
<1>5. w.dropped \/ VOK(Tail(cmds), events, mirror, entry.op, "PAUSED", TRUE, swallowed)
  BY <1>1, ViewStepping DEF VOK
<1>6. Tail(cmds) \in Seq(CommandKind)
  BY <1>1
<1>7. ~Talks(b) /\ Paired(b) /\ Ends(b, "PAUSED")
  BY NothingYet
<1>. HIDE DEF b
<1>. QED BY <1>1, <1>2, <1>3, <1>4, <1>5, <1>6, <1>7, WorkerStep

LEMMA TookState ==
  ASSUME IInv, w.burst = <<>>, ~w.stepping, cmds # <<>>, Head(cmds).op = "state", cmds' = Tail(cmds),
         w' = [w EXCEPT !.burst = <<MachineState(w.exec)>>],
         UNCHANGED <<peer, events, slots, lost, mainVars>>
  PROVE  IInv'
<1>1. /\ events \in Seq(EventKind) /\ cmds \in Seq(CommandKind) /\ bind.id \in Nat /\ opens \in Nat
      /\ SOK(cmds, events, slots, bind.id, lost, opens) /\ Shape
      /\ IsFiniteSet(slots) /\ Cardinality(slots) <= SessionSlots /\ w.stepping = FALSE /\ w.exec \in Execs
  BY Idle
<1>. DEFINE e == MachineState(w.exec)
<1>2. /\ e \in EventKind /\ e.id = 0 /\ e.t # "SESSION" /\ IsMachineState(e) /\ Meaning(e) = w.exec
      /\ w' = [w EXCEPT !.burst = <<e>>]
  BY <1>1, Kinds
<1>. HIDE DEF e
<1>3. Append(events, e) = events \o <<e>> /\ <<e>> \in Seq(EventKind)
  BY <1>1, <1>2, Saying
<1>4. Speaks(<<e>>, w.exec, FALSE)
  BY <1>1, <1>2, <1>3, Deeds
<1>5. Unheard' = Append(events, e)
  BY <1>1, <1>3, <1>4, Spoken
<1>6. SOK(Tail(cmds), events, slots, bind.id, lost, opens)
  BY <1>1, TookOther
<1>7. SOK(Tail(cmds), Append(events, e), slots, bind.id, lost, opens)
  BY <1>1, <1>2, <1>6, SaidOther
<1>8. Decider(e)
  BY <1>2 DEF Decider
<1>9. VOK(Tail(cmds), Append(events, e), mirror, entry.op, Meaning(e), FALSE, swallowed)
  BY <1>1, <1>2, <1>8, ViewTold
<1>10. Paired(<<e>>) /\ Ends(<<e>>, w.exec)
  BY <1>2, <1>8, Bursts
<1>11. Tail(cmds) \in Seq(CommandKind)
  BY <1>1
<1>. QED BY <1>1, <1>2, <1>4, <1>5, <1>7, <1>9, <1>10, <1>11, WorkerStep

LEMMA TakeCommandInv ==
  ASSUME IInv, TakeCommand
  PROVE  IInv'
<1>1. /\ w.burst = <<>> /\ ~w.stepping /\ cmds # <<>> /\ cmds' = Tail(cmds)
      /\ UNCHANGED <<peer, events, lost, mainVars>>
  BY DEF TakeCommand, Publishes
<1>2. Head(cmds).op \in {"run", "pause", "step", "state", "open", "close", "history", "update"}
  <2>1. Head(cmds) \in CommandKind
    BY <1>1, HeadCommand DEF IInv, TInv, Shape
  <2>. QED BY <2>1 DEF CommandKind
<1>3. CASE Head(cmds).op = "run"
  <2>1. w' = Resume /\ UNCHANGED slots
    BY <1>3 DEF TakeCommand
  <2>. QED BY <1>1, <1>3, <2>1, TookRun
<1>4. CASE Head(cmds).op = "pause"
  <2>1. w' = Halt /\ UNCHANGED slots
    BY <1>4 DEF TakeCommand
  <2>. QED BY <1>1, <1>4, <2>1, TookPause
<1>5. CASE Head(cmds).op = "step"
  <2>1. w' = [w EXCEPT !.exec = "PAUSED", !.stepping = TRUE] /\ UNCHANGED slots
    BY <1>5 DEF TakeCommand
  <2>. QED BY <1>1, <1>5, <2>1, TookStep
<1>6. CASE Head(cmds).op = "state"
  <2>1. w' = [w EXCEPT !.burst = <<MachineState(w.exec)>>] /\ UNCHANGED slots
    BY <1>6 DEF TakeCommand
  <2>. QED BY <1>1, <1>6, <2>1, TookState
<1>7. CASE Head(cmds).op = "open"
  <2>1. Open(Head(cmds))
    BY <1>7 DEF TakeCommand
  <2>. QED BY <1>1, <1>7, <2>1, TookOpenStep
<1>8. CASE Head(cmds).op = "history"
  <2>1. /\ w' = [w EXCEPT !.burst = <<[Event("HISTORY") EXCEPT !.token = Head(cmds).token]>>]
        /\ UNCHANGED slots
    BY <1>8 DEF TakeCommand
  <2>. QED BY <1>1, <1>8, <2>1, TookAsk
<1>9. CASE Head(cmds).op = "close"
  <2>1. slots' = slots \ {Head(cmds).id} /\ w' = [w EXCEPT !.burst = <<Event("CLOSED")>>]
    BY <1>9 DEF TakeCommand
  <2>. QED BY <1>1, <1>9, <2>1, TookCloseStep
<1>10. CASE Head(cmds).op = "update"
  <2>1. /\ w' \in {[w EXCEPT !.burst = <<Event("BREAKPOINTS")>>],
                   [w EXCEPT !.burst = <<Event("ERROR"), Event("BREAKPOINTS")>>]}
        /\ UNCHANGED slots
    BY <1>10 DEF TakeCommand
  <2>. QED BY <1>1, <1>10, <2>1, TookUpdate
<1>. QED BY <1>2, <1>3, <1>4, <1>5, <1>6, <1>7, <1>8, <1>9, <1>10

\* A step looks for run and pause and loses every other command it finds.
LEMMA StepTakesInv ==
  ASSUME IInv, StepTakes
  PROVE  IInv'
<1>1. /\ w.burst = <<>> /\ w.stepping /\ cmds # <<>> /\ cmds' = Tail(cmds)
      /\ UNCHANGED <<peer, events, slots, mainVars>>
      /\ w' = CASE Head(cmds).op = "run" -> Resume [] Head(cmds).op = "pause" -> Halt [] OTHER -> w
      /\ lost' = IF Head(cmds).op = "close" THEN lost \cup {Head(cmds).id} ELSE lost
  BY DEF StepTakes, Publishes
<1>3. CASE Head(cmds).op = "run"
  <2>1. w' = Resume /\ UNCHANGED lost
    BY <1>1, <1>3
  <2>. QED BY <1>1, <1>3, <2>1, TookRun
<1>4. CASE Head(cmds).op = "pause"
  <2>1. w' = Halt /\ UNCHANGED lost
    BY <1>1, <1>4
  <2>. QED BY <1>1, <1>4, <2>1, TookPause
<1>5. CASE Head(cmds).op \notin {"run", "pause"}
  <2>1. /\ events \in Seq(EventKind) /\ cmds \in Seq(CommandKind) /\ bind.id \in Nat /\ opens \in Nat
        /\ SOK(cmds, events, slots, bind.id, lost, opens) /\ Shape
        /\ w.dropped \/ VOK(cmds, events, mirror, entry.op, w.exec, w.stepping, swallowed)
        /\ IsFiniteSet(slots) /\ Cardinality(slots) <= SessionSlots /\ w.stepping = TRUE
    BY <1>1, Idle
  <2>2. w' = w
    BY <1>1, <1>5
  <2>. DEFINE b == <<>>
  <2>3. Speaks(b, w.exec, TRUE)
    BY <1>1, <2>1, <2>2, Deeds
  <2>4. Unheard' = events
    <3>1. Unheard' = events \o b
      BY <1>1, <2>1, <2>3, Spoken
    <3>. QED BY <2>1, <3>1
  <2>5. SOK(Tail(cmds), events, slots, bind.id, lost', opens)
    <3>1. CASE Head(cmds).op = "close"
      BY <1>1, <2>1, <3>1, DroppedClose
    <3>2. CASE Head(cmds).op # "close"
      BY <1>1, <2>1, <3>2, TookOther
    <3>. QED BY <3>1, <3>2
  <2>6. w.exec = "PAUSED"
    BY <1>1, <2>1 DEF Shape
  <2>7. w.dropped \/ VOK(Tail(cmds), events, mirror, entry.op, w.exec, TRUE, swallowed)
    BY <2>1, ViewStepping DEF VOK
  <2>8. Tail(cmds) \in Seq(CommandKind)
    BY <1>1, <2>1
  <2>9. ~Talks(b) /\ Paired(b) /\ Ends(b, w.exec)
    BY NothingYet
  <2>. HIDE DEF b
  <2>. QED BY <1>1, <2>1, <2>3, <2>4, <2>5, <2>6, <2>7, <2>8, <2>9, WorkerStep
<1>. QED BY <1>3, <1>4, <1>5

\* A worker that stops of its own accord says so, and then its state.
LEMMA StopsInv ==
  ASSUME IInv, w.burst = <<>>, NEW t \in {"PAUSED", "STEP_COMPLETE"},
         Speaks(<<Event(t), MachineState("PAUSED")>>, "PAUSED", FALSE),
         UNCHANGED <<peer, cmds, events, slots, lost, mainVars>>
  PROVE  IInv'
<1>. DEFINE b == <<Event(t), MachineState("PAUSED")>>
<1>1. /\ events \in Seq(EventKind) /\ cmds \in Seq(CommandKind) /\ opens \in Nat
      /\ SOK(cmds, events, slots, bind.id, lost, opens) /\ Shape
      /\ IsFiniteSet(slots) /\ Cardinality(slots) <= SessionSlots
  BY Idle
<1>2. SOK(cmds, events \o b, slots, bind.id, lost, opens)
  BY <1>1, SaidStop
<1>3. /\ VOK(cmds, events \o b, mirror, entry.op, "PAUSED", FALSE, swallowed)
      /\ Paired(b) /\ Ends(b, "PAUSED")
  BY <1>1, ToldStop
<1>4. Speaks(b, "PAUSED", FALSE)
  OBVIOUS
<1>. HIDE DEF b
<1>5. Unheard' = events \o b
  BY <1>1, <1>4, Spoken
<1>. QED BY <1>1, <1>2, <1>3, <1>4, <1>5, WorkerStep

LEMMA StepEndsInv ==
  ASSUME IInv, StepEnds
  PROVE  IInv'
<1>1. w.burst = <<>> /\ w.stepping /\ UNCHANGED <<peer, cmds, events, slots, lost, mainVars>>
  BY DEF StepEnds, Publishes
<1>2. /\ events \in Seq(EventKind) /\ cmds \in Seq(CommandKind) /\ bind.id \in Nat /\ opens \in Nat
      /\ SOK(cmds, events, slots, bind.id, lost, opens) /\ Shape
      /\ IsFiniteSet(slots) /\ Cardinality(slots) <= SessionSlots
  BY <1>1, Idle
<1>3. w.exec = "PAUSED" /\ w \in WKind
  BY <1>1, <1>2 DEF Shape
<1>4. CASE w' = [w EXCEPT !.stepping = FALSE, !.burst = Stopped("STEP_COMPLETE")]
  <2>1. <<Event("STEP_COMPLETE"), MachineState("PAUSED")>> \in Seq(EventKind)
    BY Kinds DEF Execs
  <2>2. Speaks(<<Event("STEP_COMPLETE"), MachineState("PAUSED")>>, "PAUSED", FALSE)
    BY <1>1, <1>3, <1>4, <2>1 DEF Speaks, Stopped, WKind
  <2>. QED BY <1>1, <2>2, StopsInv
<1>5. CASE w' = Halt
  <2>1. Speaks(<<Event("PAUSED"), MachineState("PAUSED")>>, "PAUSED", FALSE)
    BY <1>1, <1>2, <1>5, Deeds
  <2>. QED BY <1>1, <2>1, StopsInv
<1>6. CASE w' = [w EXCEPT !.exec = "RUNNING", !.stepping = FALSE, !.burst = <<Event("RUNNING")>>]
  <2>. DEFINE b == <<Event("RUNNING")>>
  <2>1. Speaks(b, "RUNNING", FALSE)
    BY <1>1, <1>2, <1>6, Deeds DEF Resume
  <2>2. SOK(cmds, events \o b, slots, bind.id, lost, opens)
    BY <1>2, SaidRun
  <2>3. /\ VOK(cmds, events \o b, mirror, entry.op, "RUNNING", FALSE, swallowed)
        /\ Paired(b) /\ Ends(b, "RUNNING")
    BY <1>2, ToldRun
  <2>. HIDE DEF b
  <2>4. Unheard' = events \o b
    BY <1>1, <1>2, <2>1, Spoken
  <2>. QED BY <1>1, <1>2, <2>1, <2>2, <2>3, <2>4, WorkerStep
<1>. QED BY <1>4, <1>5, <1>6 DEF StepEnds

LEMMA BreakpointHitInv ==
  ASSUME IInv, BreakpointHit
  PROVE  IInv'
<1>1. /\ w.burst = <<>> /\ UNCHANGED <<peer, cmds, events, slots, lost, mainVars>>
      /\ w.exec = "RUNNING"
      /\ w' = [w EXCEPT !.exec = "PAUSED", !.stops = @ + 1, !.burst = Stopped("PAUSED")]
  BY DEF BreakpointHit, Publishes
<1>2. Shape
  BY <1>1, Idle
<1>3. w.stepping = FALSE /\ w \in WKind
  BY <1>1, <1>2 DEF Shape, WKind
<1>4. <<Event("PAUSED"), MachineState("PAUSED")>> \in Seq(EventKind)
  BY Kinds DEF Execs
<1>. DEFINE b == <<Event("PAUSED"), MachineState("PAUSED")>>
            more == w.stops + 1
<1>5. w' = [w EXCEPT !.exec = "PAUSED", !.stops = more, !.burst = b]
  BY <1>1 DEF Stopped
<1>6. more \in Nat
  BY <1>3 DEF WKind
<1>. HIDE DEF b, more
<1>7. b \in Seq(EventKind)
  BY <1>4 DEF b
<1>8. Speaks(b, "PAUSED", FALSE)
  BY <1>1, <1>3, <1>5, <1>6, <1>7 DEF Speaks, WKind, Execs
<1>. QED BY <1>1, <1>8, StopsInv DEF b

\* What the worker publishes reaches the main thread's queue.
LEMMA EmitFits ==
  ASSUME IInv, w.burst # <<>>, events' = Append(events, Head(w.burst)),
         w' = [w EXCEPT !.burst = Tail(@), !.dropped = IF IsState(Head(w.burst)) THEN FALSE ELSE @],
         UNCHANGED <<peer, cmds, slots, lost, mainVars>>
  PROVE  IInv'
<1>2. events \in Seq(EventKind) /\ w \in WKind /\ w.burst \in Seq(EventKind)
  BY DEF IInv, TInv, Shape, WKind
<1>3. Tail(w.burst) \in Seq(EventKind) /\ Head(w.burst) \in EventKind
  BY <1>2
<1>4. /\ w' \in WKind /\ w'.exec = w.exec /\ w'.stepping = w.stepping /\ w'.burst = Tail(w.burst)
      /\ w'.dropped = IF IsState(Head(w.burst)) THEN FALSE ELSE w.dropped
  BY <1>2, <1>3 DEF WKind
<1>5. events' \in Seq(EventKind)
  BY <1>2, <1>3
<1>6. Unheard' = Unheard
  BY <1>2, <1>4, Published DEF Unheard
<1>7. Shape'
  BY <1>4, <1>5 DEF IInv, TInv, Shape, mainVars
<1>8. TInv'
  BY <1>7 DEF IInv, TInv, Pumping, mainVars
<1>9. SInv'
  BY <1>6 DEF IInv, SInv, mainVars
<1>10. View => View'
  BY <1>4, <1>6 DEF View, mainVars
<1>11. Talks(w.burst) <=> IsState(Head(w.burst)) \/ Talks(Tail(w.burst))
  BY <1>2, EventTaken
<1>12. VInv'
  BY <1>4, <1>10, <1>11 DEF IInv, VInv, Excused
<1>13. BInv'
  BY <1>2, <1>4, WordTaken DEF IInv, BInv
<1>14. LInv'
  BY DEF IInv, LInv, mainVars
<1>. QED BY <1>8, <1>9, <1>12, <1>13, <1>14 DEF IInv

\* It meets a full queue: a grant loses its session, and a word on the state is
\* missing until the next one.
LEMMA EmitDrops ==
  ASSUME IInv, w.burst # <<>>, events' = events,
         w' = [w EXCEPT !.burst = Tail(@), !.dropped = IF IsState(Head(w.burst)) THEN TRUE ELSE @],
         lost' = lost \cup ({Head(w.burst).id} \cap slots),
         UNCHANGED <<peer, cmds, slots, mainVars>>
  PROVE  IInv'
<1>. DEFINE t == Tail(w.burst)
            s == events \o t
<1>2. events \in Seq(EventKind) /\ w \in WKind /\ w.burst \in Seq(EventKind) /\ bind.id \in Nat /\ opens \in Nat
  BY DEF IInv, TInv, Shape, WKind
<1>3. t \in Seq(EventKind) /\ Head(w.burst) \in EventKind
  BY <1>2
<1>4. /\ w' \in WKind /\ w'.exec = w.exec /\ w'.stepping = w.stepping /\ w'.burst = t
      /\ w'.dropped = IF IsState(Head(w.burst)) THEN TRUE ELSE w.dropped
  BY <1>2, <1>3 DEF WKind
<1>5. Unheard' = s
  BY <1>4 DEF Unheard
<1>6. Talks(w.burst) <=> IsState(Head(w.burst)) \/ Talks(t)
  BY <1>2, EventTaken
<1>7. Paired(t) /\ Ends(t, w.exec)
  BY <1>2, WordTaken DEF IInv, BInv
<1>8. /\ Unheard \in Seq(EventKind) /\ s \in Seq(EventKind) /\ Without(s, Unheard, Len(events) + 1)
      /\ Len(events) + 1 \in DOMAIN Unheard /\ Unheard[Len(events) + 1] = Head(w.burst)
  BY <1>2, MiddleGone DEF Unheard
<1>. HIDE DEF t
<1>9. /\ Talks(s) <=> Talks(events) \/ Talks(t)
      /\ Decides(s) <=> Decides(events) \/ Decides(t)
      /\ Talks(t) /\ Ends(t, w.exec) => Ends(s, w.exec)
      /\ ~Talks(t) => (Ends(s, w.exec) <=> Ends(events, w.exec))
      /\ Decides(t) /\ Paired(t) => Paired(s)
      /\ ~Talks(t) => (Paired(s) <=> Paired(events))
      /\ Talks(t) /\ Paired(t) => Decides(t)
      /\ Decides(t) => Talks(t)
  BY <1>2, <1>3, WordJoined
<1>10. /\ Talks(Unheard) <=> Talks(events) \/ Talks(w.burst)
       /\ Decides(Unheard) <=> Decides(events) \/ Decides(w.burst)
       /\ ~Talks(w.burst) => (Ends(Unheard, w.exec) <=> Ends(events, w.exec))
       /\ ~Talks(w.burst) => (Paired(Unheard) <=> Paired(events))
       /\ Decides(w.burst) => Talks(w.burst)
  BY <1>2, WordJoined DEF Unheard
<1>. HIDE DEF s
<1>11. Shape'
  BY <1>4 DEF IInv, TInv, Shape, mainVars
<1>12. TInv'
  BY <1>11 DEF IInv, TInv, Pumping, mainVars
<1>13. SInv'
  <2>1. SOK(cmds, Unheard, slots, bind.id, lost, opens)
    BY DEF IInv, SInv
  <2>. DEFINE p == Len(events) + 1
  <2>2. p \in DOMAIN Unheard /\ Without(s, Unheard, p) /\ lost' = lost \cup ({Unheard[p].id} \cap slots)
    BY <1>8
  <2>. HIDE DEF p
  <2>3. SOK(cmds, s, slots, bind.id, lost', opens)
    BY <1>2, <1>8, <2>1, <2>2, HeardStray
  <2>. QED BY <1>5, <2>3 DEF SInv, mainVars
<1>14. VInv'
  <2>1. CASE Talks(t)
    <3>1. Paired(s) /\ Ends(s, w.exec) /\ Talks(s) /\ Decides(s)
      BY <1>7, <1>9, <2>1
    <3>2. VOK(cmds, s, mirror, entry.op, w.exec, w.stepping, swallowed)
      BY <3>1 DEF VOK
    <3>. QED BY <1>4, <1>5, <3>2 DEF VInv, View, mainVars
  <2>2. CASE ~Talks(t) /\ IsState(Head(w.burst))
    BY <1>4, <2>2 DEF VInv, Excused
  <2>3. CASE ~Talks(w.burst)
    <3>1. View => VOK(cmds, s, mirror, entry.op, w.exec, w.stepping, swallowed)
      BY <1>6, <1>9, <1>10, <2>3 DEF View, VOK
    <3>2. View => View'
      BY <1>4, <1>5, <3>1 DEF View, mainVars
    <3>3. Excused => Excused'
      BY <1>4, <1>6, <2>3 DEF Excused
    <3>. QED BY <3>2, <3>3 DEF IInv, VInv
  <2>. QED BY <1>6, <2>1, <2>2, <2>3
<1>15. BInv'
  BY <1>4, <1>7 DEF BInv
<1>16. LInv'
  BY DEF IInv, LInv, mainVars
<1>. QED BY <1>12, <1>13, <1>14, <1>15, <1>16 DEF IInv

LEMMA EmitInv ==
  ASSUME IInv, Emit
  PROVE  IInv'
<1>1. w.burst # <<>> /\ UNCHANGED <<peer, cmds, slots, mainVars>>
  BY DEF Emit, Publishes
<1>2. CASE Len(events) = EventQueue
  <2>1. /\ events' = events /\ lost' = lost \cup ({Head(w.burst).id} \cap slots)
        /\ w' = [w EXCEPT !.burst = Tail(@), !.dropped = IF IsState(Head(w.burst)) THEN TRUE ELSE @]
    BY <1>2 DEF Emit, Stray
  <2>. QED BY <1>1, <2>1, EmitDrops
<1>3. CASE Len(events) # EventQueue
  <2>1. /\ events' = Append(events, Head(w.burst)) /\ lost' = lost
        /\ w' = [w EXCEPT !.burst = Tail(@), !.dropped = IF IsState(Head(w.burst)) THEN FALSE ELSE @]
    BY <1>3 DEF Emit
  <2>. QED BY <1>1, <2>1, EmitFits
<1>. QED BY <1>2, <1>3

------------------------------------------------------------------------------
(* The main loop's steps *)

\* A step of the main loop that takes no event: the view it had it keeps.
LEMMA MainStep ==
  ASSUME IInv, Shape', Pumping', LInv', UNCHANGED <<events, w, slots, swallowed>>,
         SOK(cmds', Unheard, slots, bind'.id, lost', opens'),
         View => VOK(cmds', Unheard, mirror', entry'.op, w.exec, w.stepping, swallowed)
  PROVE  IInv'
<1>1. Unheard' = Unheard
  BY DEF Unheard
<1>2. TInv'
  BY DEF IInv, TInv
<1>3. BInv'
  BY DEF IInv, BInv
<1>4. SInv'
  BY <1>1 DEF SInv
<1>5. View => View'
  BY <1>1 DEF View
<1>6. Excused => Excused'
  BY DEF Excused
<1>. QED BY <1>2, <1>3, <1>4, <1>5, <1>6 DEF IInv, VInv

\* A step that neither takes an event nor sends a command; an entry it touches
\* is dropped.
LEMMA QuietStep ==
  ASSUME IInv, Shape', Pumping', UNCHANGED <<events, w, slots, lost, swallowed, cmds, bind, opens, mirror, latch>>,
         entry' = entry \/ entry' = NoEntry
  PROVE  IInv'
<1>1. SOK(cmds, Unheard, slots, bind.id, lost, opens)
  BY DEF IInv, SInv
<1>3. entry'.op = entry.op \/ entry'.op = "none"
  BY DEF NoEntry
<1>4. View => VOK(cmds, Unheard, mirror, entry'.op, w.exec, w.stepping, swallowed)
  BY <1>3, ViewSent DEF View
<1>5. LInv'
  BY <1>3 DEF IInv, LInv
<1>. QED BY <1>1, <1>4, <1>5, MainStep

\* An event through the latch and the entry: an entry that stays is not served.
LEMMA Handled ==
  ASSUME Shape, NEW e \in EventKind, NEW m, Handle(e, m)
  PROVE  /\ entry' \in EntryKind /\ latch' \subseteq Execs /\ LInv'
         /\ \/ entry'.op = "none"
            \/ /\ entry'.op = entry.op
               /\ entry.op = "waitPaused" => ~(IsMachineState(e) /\ m = "PAUSED")
               /\ entry.op = "waitRunning" => m # "RUNNING"
<1>1. entry \in EntryKind /\ latch \subseteq Execs
  BY DEF Shape
<1>2. NoEntry \in EntryKind /\ NoEntry.op = "none"
  BY DEF NoEntry, EntryKind
<1>3. Note(latch, e) \subseteq Execs
  BY <1>1 DEF Note, Execs
<1>. DEFINE l == Note(latch, e)
<1>4. /\ latch' = IF entry.op = "waitEvent" THEN l \ {"PAUSED"} ELSE l
      /\ entry' = NoEntry \/ (~Serves(e, m, l) /\ entry' = entry)
  BY DEF Handle
<1>5. l \subseteq Execs
  BY <1>3
<1>. HIDE DEF l
<1>6. entry' \in EntryKind /\ latch' \subseteq Execs
  BY <1>1, <1>2, <1>4, <1>5
<1>7. LInv'
  BY <1>2, <1>4 DEF LInv
<1>8. CASE entry' = NoEntry
  BY <1>2, <1>6, <1>7, <1>8
<1>9. CASE ~Serves(e, m, l) /\ entry' = entry
  <2>2. entry.op = "waitPaused" => ~(IsMachineState(e) /\ m = "PAUSED")
    BY <1>9 DEF Serves
  <2>3. entry.op = "waitRunning" => m # "RUNNING"
    BY <1>9 DEF Serves
  <2>. QED BY <1>6, <1>7, <1>9, <2>2, <2>3
<1>. QED BY <1>4, <1>8, <1>9

\* The main thread takes the first unheard event, and keeps the worker's excuse.
LEMMA TakesEvent ==
  ASSUME IInv, events # <<>>, events' = Tail(events), UNCHANGED w
  PROVE  /\ Unheard \in Seq(EventKind) /\ Unheard # <<>> /\ Head(Unheard) = Head(events)
         /\ Unheard' = Tail(Unheard) /\ Head(events) \in EventKind
         /\ events' \in Seq(EventKind) /\ bind.id \in Nat /\ opens \in Nat
         /\ BInv' /\ (Excused => Excused')
<1>1. events \in Seq(EventKind) /\ w.burst \in Seq(EventKind) /\ bind.id \in Nat /\ opens \in Nat
  BY DEF IInv, TInv, Shape, WKind
<1>2. events' \in Seq(EventKind) /\ Head(events) \in EventKind
  BY <1>1
<1>3. BInv' /\ (Excused => Excused')
  BY DEF IInv, BInv, Excused
<1>. QED BY <1>1, <1>2, <1>3, Taken DEF Unheard

\* A grant in it that nobody waits for is lost.
LEMMA TakesStray ==
  ASSUME IInv, events # <<>>, events' = Tail(events), UNCHANGED <<w, cmds, slots, bind, opens>>,
         lost' = lost \cup Stray(Head(events))
  PROVE  SInv'
<1>1. /\ Unheard \in Seq(EventKind) /\ Unheard # <<>> /\ Head(Unheard) = Head(events)
      /\ Unheard' = Tail(Unheard) /\ bind.id \in Nat /\ opens \in Nat
  BY TakesEvent
<1>2. /\ Tail(Unheard) \in Seq(EventKind) /\ Without(Tail(Unheard), Unheard, 1)
      /\ 1 \in DOMAIN Unheard /\ Unheard[1] = Head(Unheard)
  BY <1>1, HeadGone
<1>3. SOK(cmds, Unheard, slots, bind.id, lost, opens)
  BY DEF IInv, SInv
<1>4. lost' = lost \cup ({Unheard[1].id} \cap slots)
  BY <1>1, <1>2 DEF Stray
<1>5. SOK(cmds, Tail(Unheard), slots, bind.id, lost', opens)
  BY <1>1, <1>2, <1>3, <1>4, HeardStray
<1>. QED BY <1>1, <1>5 DEF SInv

LEMMA PollInv ==
  ASSUME IInv, Poll
  PROVE  IInv'
<1>. DEFINE e == Head(events)
<1>1. /\ pc = "poll" /\ events # <<>> /\ events' = Tail(events)
      /\ mirror' = Hear(mirror, e) /\ Handle(e, Hear(mirror, e))
      /\ swallowed' = (swallowed /\ ~IsMachineState(e)) /\ lost' = lost \cup Stray(e)
      /\ UNCHANGED <<peer, requests, pc, bind, pump, opens, asks, cmds, w, slots>>
  BY DEF Poll
<1>2. /\ Unheard \in Seq(EventKind) /\ Unheard # <<>> /\ Head(Unheard) = e
      /\ Unheard' = Tail(Unheard) /\ e \in EventKind
      /\ events' \in Seq(EventKind) /\ BInv' /\ (Excused => Excused')
  BY <1>1, TakesEvent
<1>8. SInv'
  BY <1>1, TakesStray
<1>. HIDE DEF e
<1>3. /\ entry' \in EntryKind /\ latch' \subseteq Execs /\ LInv'
      /\ \/ entry'.op = "none"
         \/ /\ entry'.op = entry.op
            /\ entry.op = "waitPaused" => ~(IsMachineState(e) /\ Hear(mirror, e) = "PAUSED")
            /\ entry.op = "waitRunning" => Hear(mirror, e) # "RUNNING"
  BY <1>1, <1>2, Handled DEF IInv, TInv
<1>4. mirror' \in Execs \cup {"ERROR"}
  BY <1>1, <1>2, HearIs DEF IInv, TInv, Shape
<1>5. swallowed' \in BOOLEAN
  BY <1>1
<1>6. Shape'
  BY <1>1, <1>2, <1>3, <1>4, <1>5 DEF IInv, TInv, Shape
<1>7. TInv'
  BY <1>1, <1>6 DEF IInv, TInv, Pumping
<1>9. View => View'
  <2>. SUFFICES ASSUME View PROVE View'
    OBVIOUS
  <2>1. VOK(cmds, Unheard, mirror, entry.op, w.exec, w.stepping, swallowed)
    BY DEF View
  <2>3. \/ entry'.op = "none"
        \/ /\ entry'.op = entry.op
           /\ entry.op = "waitPaused" =>
                ~(IsMachineState(Head(Unheard)) /\ Hear(mirror, Head(Unheard)) = "PAUSED")
           /\ entry.op = "waitRunning" => Hear(mirror, Head(Unheard)) # "RUNNING"
    BY <1>2, <1>3
  <2>4. VOK(cmds, Tail(Unheard), Hear(mirror, Head(Unheard)), entry'.op, w.exec, w.stepping,
            swallowed /\ ~IsMachineState(Head(Unheard)))
    BY <1>2, <2>1, <2>3, ViewPolled, Zenon
  <2>2. VOK(cmds, Tail(Unheard), Hear(mirror, e), entry'.op, w.exec, w.stepping,
            swallowed /\ ~IsMachineState(e))
    BY <1>2, <2>4
  <2>. QED BY <1>1, <1>2, <2>2 DEF View
<1>. QED BY <1>2, <1>3, <1>7, <1>8, <1>9 DEF IInv, VInv

LEMMA PumpOtherInv ==
  ASSUME IInv, PumpOther
  PROVE  IInv'
<1>. DEFINE e == Head(events)
<1>1. /\ pc = "pump" /\ events # <<>> /\ events' = Tail(events)
      /\ Handle(e, mirror)
      /\ swallowed' = (swallowed \/ IsState(e)) /\ lost' = lost \cup Stray(e)
      /\ UNCHANGED <<peer, requests, pc, mirror, bind, pump, opens, asks, cmds, w, slots>>
  BY DEF PumpOther
<1>2. /\ Unheard \in Seq(EventKind) /\ Unheard # <<>> /\ Head(Unheard) = e
      /\ Unheard' = Tail(Unheard) /\ e \in EventKind
      /\ events' \in Seq(EventKind) /\ BInv' /\ (Excused => Excused')
  BY <1>1, TakesEvent
<1>8. SInv'
  BY <1>1, TakesStray
<1>. HIDE DEF e
<1>3. /\ entry' \in EntryKind /\ latch' \subseteq Execs /\ LInv'
      /\ entry'.op = "none" \/ (entry'.op = entry.op /\ (entry.op = "waitRunning" => mirror # "RUNNING"))
  BY <1>1, <1>2, Handled DEF IInv, TInv
<1>5. swallowed' \in BOOLEAN
  BY <1>1
<1>6. Shape'
  BY <1>1, <1>2, <1>3, <1>5 DEF IInv, TInv, Shape
<1>7. TInv'
  BY <1>1, <1>6 DEF IInv, TInv, Pumping
<1>9. View => View'
  <2>. SUFFICES ASSUME View PROVE View'
    OBVIOUS
  <2>1. VOK(cmds, Unheard, mirror, entry.op, w.exec, w.stepping, swallowed)
    BY DEF View
  <2>3. PumpLeaves(entry'.op, entry.op, mirror, Head(Unheard))
    BY <1>3 DEF PumpLeaves
  <2>4. swallowed \/ IsState(Head(Unheard)) => swallowed'
    BY <1>1, <1>2
  <2>2. VOK(cmds, Tail(Unheard), mirror, entry'.op, w.exec, w.stepping, swallowed')
    BY <1>2, <1>5, <2>1, <2>3, <2>4, ViewPumped
  <2>. QED BY <1>1, <1>2, <2>2 DEF View
<1>. QED BY <1>2, <1>3, <1>7, <1>8, <1>9 DEF IInv, VInv

LEMMA PumpAnsweredInv ==
  ASSUME IInv, PumpAnswered
  PROVE  IInv'
<1>. DEFINE e == Head(events)
<1>1. /\ pc = "pump" /\ events # <<>> /\ e.t = "SESSION"
      /\ bind' = IF e.id # 0 THEN [id |-> e.id, epoch |-> pump.epoch] ELSE bind
      /\ events' = Tail(events) /\ pc' = pump.ret /\ pump' = NoPump
      /\ UNCHANGED <<peer, requests, mirror, latch, entry, opens, asks, cmds, w, slots, lost, swallowed>>
  BY DEF PumpAnswered, IsAnswer
<1>2. /\ Unheard \in Seq(EventKind) /\ Unheard # <<>> /\ Head(Unheard) = e
      /\ Unheard' = Tail(Unheard) /\ e \in EventKind /\ opens \in Nat
      /\ events' \in Seq(EventKind) /\ BInv' /\ (Excused => Excused')
  BY <1>1, TakesEvent
<1>. HIDE DEF e
<1>3. bind.id = 0 /\ pump.ret \in {"entries", "history"}
  BY <1>1 DEF IInv, TInv, Pumping
<1>4. e.id \in Nat /\ pump.epoch \in Nat /\ bind \in [id : Nat, epoch : Nat]
  BY <1>2 DEF EventKind, IInv, TInv, Shape, PumpKind
<1>5. bind' \in [id : Nat, epoch : Nat] /\ bind'.id = e.id
  BY <1>1, <1>3, <1>4
<1>6. pump' \in PumpKind /\ pc' \in Places
  BY <1>1, <1>3 DEF NoPump, PumpKind, Places
<1>7. Shape'
  BY <1>1, <1>2, <1>5, <1>6 DEF IInv, TInv, Shape
<1>8. TInv'
  BY <1>1, <1>3, <1>7 DEF IInv, TInv, Pumping
<1>9. SInv'
  <2>1. SOK(cmds, Unheard, slots, 0, lost, opens)
    BY <1>3 DEF IInv, SInv
  <2>2. SOK(cmds, Tail(Unheard), slots, Head(Unheard).id, lost, opens)
    BY <1>1, <1>2, <2>1, HeardAnswer
  <2>. QED BY <1>1, <1>2, <1>5, <2>2 DEF SInv
<1>10. View => View'
  <2>. SUFFICES ASSUME View PROVE View'
    OBVIOUS
  <2>1. VOK(cmds, Unheard, mirror, entry.op, w.exec, w.stepping, swallowed)
    BY DEF View
  <2>2. ~IsState(e) /\ swallowed \in BOOLEAN
    BY <1>1 DEF IsState, IsMachineState, IInv, TInv, Shape
  <2>3. PumpLeaves(entry.op, entry.op, mirror, Head(Unheard))
    BY <1>2, <2>2 DEF PumpLeaves
  <2>4. VOK(cmds, Tail(Unheard), mirror, entry.op, w.exec, w.stepping, swallowed)
    BY <1>2, <2>1, <2>2, <2>3, ViewPumped
  <2>. QED BY <1>1, <1>2, <2>4 DEF View
<1>11. LInv'
  BY <1>1 DEF IInv, LInv
<1>. QED BY <1>2, <1>8, <1>9, <1>10, <1>11 DEF IInv, VInv

LEMMA QuietSteps ==
  ASSUME IInv, PollEnds \/ CheckEntries \/ PumpTimeout \/ Expires \/ TimeoutsDone \/ DispatchEnds
  PROVE  IInv'
<1>1. /\ UNCHANGED <<peer, requests, mirror, latch, bind, opens, asks, worker, lost, swallowed>>
      /\ entry' = entry \/ entry' = NoEntry
  BY DEF PollEnds, CheckEntries, PumpTimeout, Expires, TimeoutsDone, DispatchEnds
<1>2. /\ pc' \in Places \ {"open", "pump"}
      /\ pump' = NoPump
  BY DEF PollEnds, CheckEntries, PumpTimeout, Expires, TimeoutsDone, DispatchEnds, IInv, TInv, Pumping, Places
<1>3. entry' \in EntryKind
  BY <1>1 DEF IInv, TInv, Shape, EntryKind, NoEntry
<1>4. pump' \in PumpKind
  BY <1>2 DEF NoPump, PumpKind
<1>5. Shape'
  BY <1>1, <1>2, <1>3, <1>4 DEF IInv, TInv, Shape, worker
<1>6. Pumping'
  BY <1>2 DEF Pumping
<1>. QED BY <1>1, <1>5, <1>6, QuietStep DEF worker

\* A command pushed behind the others, or refused.
LEMMA PushIs ==
  ASSUME Shape, NEW c \in CommandKind, Push(c)
  PROVE  /\ cmds' \in Seq(CommandKind)
         /\ Full => cmds' = cmds
         /\ ~Full => cmds' = Append(cmds, c)
         /\ Asked(cmds) \/ (~Full /\ c.op \in Asking) => Asked(cmds')
<1>1. cmds \in Seq(CommandKind)
  BY DEF Shape
<1>2. CASE Full
  BY <1>1, <1>2 DEF Push
<1>3. CASE ~Full
  <2>1. cmds' = Append(cmds, c)
    BY <1>3 DEF Push
  <2>2. Append(cmds, c) \in Seq(CommandKind)
    BY <1>1
  <2>3. Asked(Append(cmds, c)) <=> c.op \in Asking \/ Asked(cmds)
    BY <1>1, CommandSent
  <2>. QED BY <1>3, <2>1, <2>2, <2>3
<1>. QED BY <1>2, <1>3

\* A command that is neither open nor close, pushed or refused.
LEMMA PushedOther ==
  ASSUME IInv, NEW c \in CommandKind, Push(c), c.op \notin {"open", "close"},
         c.op = "history" => c.id \in {0, bind.id}
  PROVE  SOK(cmds', Unheard, slots, bind.id, lost, opens)
<1>1. cmds \in Seq(CommandKind) /\ bind.id \in Nat /\ opens \in Nat /\ Shape
  BY DEF IInv, TInv, Shape
<1>2. SOK(cmds, Unheard, slots, bind.id, lost, opens)
  BY DEF IInv, SInv
<1>3. CASE Full
  BY <1>1, <1>2, <1>3, PushIs
<1>4. CASE ~Full
  <2>1. SOK(Append(cmds, c), Unheard, slots, bind.id, lost, opens)
    BY <1>1, <1>2, SentOther
  <2>. QED BY <1>1, <1>4, <2>1, PushIs
<1>. QED BY <1>3, <1>4

\* The close of the bound session, if there is one, behind the other commands.
LEMMA Released ==
  ASSUME IInv, Release
  PROVE  /\ cmds' \in Seq(CommandKind) /\ bind' = Unbound
         /\ SOK(cmds', Unheard, slots, 0, lost', opens)
         /\ Asked(cmds) => Asked(cmds')
<1>1. cmds \in Seq(CommandKind) /\ bind.id \in Nat /\ opens \in Nat /\ Shape
  BY DEF IInv, TInv, Shape
<1>2. SOK(cmds, Unheard, slots, bind.id, lost, opens)
  BY DEF IInv, SInv
<1>5. bind' = Unbound
  BY DEF Release
<1>3. CASE bind.id = 0
  <2>1. cmds' = cmds /\ lost' = lost
    BY <1>3 DEF Release
  <2>. QED BY <1>1, <1>2, <1>3, <1>5, <2>1
<1>4. CASE bind.id # 0
  <2>. DEFINE e == [op |-> "close", id |-> bind.id, token |-> 0]
  <2>1. e \in CommandKind /\ e.op = "close" /\ e.id = bind.id
    BY <1>1 DEF CommandKind
  <2>2. Push(e) /\ lost' = IF Full THEN lost \cup {bind.id} ELSE lost
    BY <1>4 DEF Release
  <2>. HIDE DEF e
  <2>3. /\ cmds' \in Seq(CommandKind) /\ (Full => cmds' = cmds) /\ (~Full => cmds' = Append(cmds, e))
        /\ Asked(cmds) => Asked(cmds')
    BY <1>1, <2>1, <2>2, PushIs
  <2>4. CASE Full
    <3>1. SOK(cmds, Unheard, slots, 0, lost \cup {bind.id}, opens)
      BY <1>1, <1>2, <1>4, RefusedClose
    <3>. QED BY <1>5, <2>2, <2>3, <2>4, <3>1
  <2>5. CASE ~Full
    <3>1. SOK(Append(cmds, e), Unheard, slots, 0, lost, opens)
      BY <1>1, <1>2, <1>4, <2>1, SentClose
    <3>. QED BY <1>5, <2>2, <2>3, <2>5, <3>1
  <2>. QED BY <2>4, <2>5
<1>. QED BY <1>3, <1>4

\* The old session is released, whatever the main loop goes on to do.
LEMMA ReleaseInv ==
  ASSUME IInv, Release, pc' \in Places, pump' \in PumpKind, requests' \in Seq(Ops),
         \/ pc' = "open" /\ pump'.ret \in {"entries", "history"}
         \/ pc' \notin {"open", "pump"} /\ pump' = NoPump,
         UNCHANGED <<peer, mirror, latch, entry, opens, asks, events, w, slots, swallowed>>
  PROVE  IInv'
<1>1. /\ cmds' \in Seq(CommandKind) /\ bind' = Unbound
      /\ SOK(cmds', Unheard, slots, 0, lost', opens) /\ (Asked(cmds) => Asked(cmds'))
  BY Released
<1>2. bind' \in [id : Nat, epoch : Nat] /\ bind'.id = 0
  BY <1>1 DEF Unbound
<1>3. View => VOK(cmds', Unheard, mirror, entry.op, w.exec, w.stepping, swallowed)
  BY <1>1, ViewSent DEF View
<1>4. Shape'
  BY <1>1, <1>2 DEF IInv, TInv, Shape
<1>5. Pumping' /\ LInv'
  BY <1>2 DEF IInv, Pumping, LInv
<1>. QED BY <1>1, <1>2, <1>3, <1>4, <1>5, MainStep

LEMMA EnsureInv ==
  ASSUME IInv, NEW ret \in {"entries", "history"}, Ensure(ret), requests' \in Seq(Ops),
         UNCHANGED <<peer, mirror, latch, entry, opens, asks, events, w, slots, swallowed>>
  PROVE  IInv'
<1>1. Release /\ pc' = "open" /\ pump' = [token |-> 0, epoch |-> peer.epoch, ret |-> ret]
  BY DEF Ensure
<1>2. peer.epoch \in Nat
  BY DEF IInv, TInv, Shape
<1>3. pump' \in PumpKind /\ pump'.ret = ret /\ pc' \in Places
  BY <1>1, <1>2 DEF PumpKind, Places
<1>. QED BY <1>1, <1>3, ReleaseInv

LEMMA OpenSessionInv ==
  ASSUME IInv, OpenSession
  PROVE  IInv'
<1>. DEFINE n == opens + 1
            e == [op |-> "open", id |-> 0, token |-> n]
<1>1. /\ pc = "open"
      /\ UNCHANGED <<peer, requests, mirror, latch, entry, bind, asks, events, w, slots, lost, swallowed>>
  BY DEF OpenSession
<1>2. /\ bind.id = 0 /\ pump.ret \in {"entries", "history"} /\ pump \in PumpKind
      /\ opens \in Nat /\ cmds \in Seq(CommandKind) /\ Shape
  BY <1>1 DEF IInv, TInv, Pumping, Shape
<1>3. CASE pc' = pump.ret /\ pump' = NoPump /\ UNCHANGED <<opens, cmds>>
  <2>1. pump' \in PumpKind /\ pc' \in Places
    BY <1>2, <1>3 DEF PumpKind, NoPump, Places
  <2>2. Shape'
    BY <1>1, <1>3, <2>1 DEF IInv, TInv, Shape
  <2>3. Pumping'
    BY <1>2, <1>3 DEF Pumping
  <2>. QED BY <1>1, <1>3, <2>2, <2>3, QuietStep
<1>4. CASE ~Full /\ opens' = n /\ Push(e) /\ pump' = [pump EXCEPT !.token = n] /\ pc' = "pump"
  <2>1. n \in Nat /\ n # 0 /\ n = opens + 1
    BY <1>2
  <2>2. e \in CommandKind /\ e.op = "open" /\ e.token = n
    BY <2>1 DEF CommandKind
  <2>. HIDE DEF n, e
  <2>3. cmds' = Append(cmds, e) /\ cmds' \in Seq(CommandKind) /\ (Asked(cmds) => Asked(cmds'))
    BY <1>2, <1>4, <2>2, PushIs
  <2>4. SOK(cmds, Unheard, slots, bind.id, lost, opens)
    BY DEF IInv, SInv
  <2>5. SOK(Append(cmds, e), Unheard, slots, bind.id, lost, opens + 1)
    BY <1>2, <2>1, <2>2, <2>4, SentOpen
  <2>6. View => VOK(cmds', Unheard, mirror, entry.op, w.exec, w.stepping, swallowed)
    BY <2>3, ViewSent DEF View
  <2>7. pump' \in PumpKind /\ pump'.token = n /\ pump'.ret = pump.ret /\ pc' \in Places
    BY <1>2, <1>4, <2>1 DEF PumpKind, Places
  <2>8. Shape'
    BY <1>1, <1>4, <2>1, <2>3, <2>7 DEF IInv, TInv, Shape
  <2>9. Pumping' /\ LInv'
    BY <1>1, <1>2, <1>4, <2>1, <2>7 DEF IInv, Pumping, LInv
  <2>. QED BY <1>1, <1>4, <2>1, <2>3, <2>5, <2>6, <2>8, <2>9, MainStep
<1>. QED BY <1>3, <1>4 DEF OpenSession

LEMMA CheckSessionInv ==
  ASSUME IInv, CheckSession
  PROVE  IInv'
<1>1. /\ pc = "session"
      /\ UNCHANGED <<peer, requests, mirror, latch, entry, opens, asks, events, w, slots, swallowed>>
  BY DEF CheckSession
<1>2. requests' \in Seq(Ops) /\ pump = NoPump /\ pump \in PumpKind
  BY <1>1 DEF IInv, TInv, Shape, Pumping
<1>6. \/ Ensure("entries")
      \/ pc' = "entries" /\ UNCHANGED pump /\ Release
      \/ pc' = "entries" /\ UNCHANGED pump /\ UNCHANGED <<cmds, bind, lost>>
  BY DEF CheckSession
<1>3. CASE Ensure("entries")
  BY <1>1, <1>2, <1>3, EnsureInv
<1>4. CASE pc' = "entries" /\ UNCHANGED pump /\ Release
  <2>1. pc' \in Places
    BY <1>4 DEF Places
  <2>. QED BY <1>1, <1>2, <1>4, <2>1, ReleaseInv
<1>5. CASE pc' = "entries" /\ UNCHANGED pump /\ UNCHANGED <<cmds, bind, lost>>
  <2>1. Shape'
    BY <1>1, <1>5 DEF IInv, TInv, Shape, Places
  <2>2. Pumping'
    BY <1>2, <1>5 DEF Pumping
  <2>. QED BY <1>1, <1>5, <2>1, <2>2, QuietStep
<1>. QED BY <1>3, <1>4, <1>5, <1>6

\* A step of the dispatch that pushes at most one command and binds nothing.
LEMMA PushStep ==
  ASSUME IInv, NEW c \in CommandKind, Push(c), c.op \notin {"open", "close"},
         c.op = "history" => c.id \in {0, bind.id},
         pc' \in Places \ {"open", "pump"}, pump = NoPump, requests' \in Seq(Ops),
         mirror' \in Execs \cup {"ERROR"}, latch' \subseteq Execs, entry' \in EntryKind, asks' \in Nat, LInv',
         UNCHANGED <<peer, bind, pump, opens, events, w, slots, lost, swallowed>>,
         View => VOK(cmds', Unheard, mirror', entry'.op, w.exec, w.stepping, swallowed)
  PROVE  IInv'
<1>1. SOK(cmds', Unheard, slots, bind.id, lost, opens)
  BY PushedOther
<1>2. cmds' \in Seq(CommandKind)
  BY PushIs DEF IInv, TInv
<1>3. Shape'
  BY <1>2 DEF IInv, TInv, Shape
<1>4. Pumping'
  BY DEF Pumping
<1>. QED BY <1>1, <1>3, <1>4, MainStep

LEMMA Commands ==
  \A op \in {"run", "pause", "step", "state", "update"} : Command(op) \in CommandKind /\ Command(op).op = op
BY DEF Command, CommandKind

LEMMA AcceptInv ==
  ASSUME IInv, NEW op, Accept(op), pc = "dispatch", requests' \in Seq(Ops),
         UNCHANGED <<peer, events, w, slots, swallowed>>
  PROVE  IInv'
<1>. DEFINE a == Command(op)
<1>1. /\ op \in {"run", "pause", "step"} /\ latch' = {} /\ Push(a)
      /\ mirror' = (IF op = "run" /\ ~Full THEN "RUNNING" ELSE mirror)
      /\ pc' = (IF Full THEN pc ELSE "state")
      /\ UNCHANGED <<entry, bind, pump, opens, asks, lost>>
  BY DEF Accept, ExecutionControl
<1>2. a \in CommandKind /\ a.op = op
  BY <1>1, Commands
<1>. HIDE DEF a
<1>3. /\ Shape /\ pump = NoPump /\ entry' \in EntryKind /\ asks' \in Nat
      /\ mirror' \in Execs \cup {"ERROR"} /\ latch' \subseteq Execs /\ LInv'
  BY <1>1 DEF IInv, TInv, Shape, Pumping, LInv, Execs
<1>4. pc' \in Places \ {"open", "pump"}
  BY <1>1 DEF Places
<1>5. CASE Full
  <2>1. cmds' = cmds /\ mirror' = mirror
    BY <1>1, <1>2, <1>3, <1>5, PushIs
  <2>2. View => VOK(cmds', Unheard, mirror', entry'.op, w.exec, w.stepping, swallowed)
    BY <1>1, <2>1 DEF View
  <2>. QED BY <1>1, <1>2, <1>3, <1>4, <2>2, PushStep
<1>6. CASE ~Full
  <2>1. Asked(cmds')
    BY <1>1, <1>2, <1>3, <1>6, PushIs DEF Asking
  <2>2. View => VOK(cmds', Unheard, mirror', entry'.op, w.exec, w.stepping, swallowed)
    BY <1>1, <2>1, ViewAsked DEF View
  <2>. QED BY <1>1, <1>2, <1>3, <1>4, <2>2, PushStep
<1>. QED BY <1>5, <1>6

LEMMA RequestStateInv ==
  ASSUME IInv, RequestState
  PROVE  IInv'
<1>. DEFINE a == Command("state")
<1>1. /\ pc = "state" /\ Push(a) /\ pc' = "dispatch"
      /\ UNCHANGED <<peer, requests, mirror, latch, entry, bind, pump, opens, asks, events, w, slots, lost,
                     swallowed>>
  BY DEF RequestState
<1>2. a \in CommandKind /\ a.op = "state"
  BY Commands
<1>. HIDE DEF a
<1>3. /\ Shape /\ pump = NoPump /\ entry' \in EntryKind /\ asks' \in Nat /\ requests' \in Seq(Ops)
      /\ mirror' \in Execs \cup {"ERROR"} /\ latch' \subseteq Execs /\ LInv'
  BY <1>1 DEF IInv, TInv, Shape, Pumping, LInv
<1>4. pc' \in Places \ {"open", "pump"}
  BY <1>1 DEF Places
<1>5. Asked(cmds) => Asked(cmds')
  BY <1>1, <1>2, <1>3, PushIs
<1>6. View => VOK(cmds', Unheard, mirror, entry.op, w.exec, w.stepping, swallowed)
  BY <1>5, ViewSent DEF View
<1>. QED BY <1>1, <1>2, <1>3, <1>4, <1>6, PushStep

LEMMA DeferKind ==
  ASSUME NEW op \in {"waitPaused", "waitRunning", "waitEvent", "update"}
  PROVE  [NoEntry EXCEPT !.op = op] \in EntryKind /\ [NoEntry EXCEPT !.op = op].op = op
BY DEF NoEntry, EntryKind

LEMMA BreakUpdateInv ==
  ASSUME IInv, NEW op, BreakUpdate(op), pc = "dispatch", requests' \in Seq(Ops),
         UNCHANGED <<peer, events, w, slots, swallowed>>
  PROVE  IInv'
<1>. DEFINE a == Command(op)
<1>1. /\ op = "update"
      /\ UNCHANGED <<cmds, entry>> \/ (Push(a) /\ Defer(op))
      /\ UNCHANGED <<pc, mirror, latch, bind, pump, opens, asks, lost>>
  BY DEF BreakUpdate
<1>2. /\ Shape /\ pump = NoPump /\ asks' \in Nat
      /\ mirror' \in Execs \cup {"ERROR"} /\ latch' \subseteq Execs
  BY <1>1 DEF IInv, TInv, Shape, Pumping
<1>3. CASE UNCHANGED <<cmds, entry>>
  <2>1. Shape'
    BY <1>1, <1>3 DEF IInv, TInv, Shape
  <2>2. Pumping'
    BY <1>1 DEF IInv, TInv, Pumping
  <2>. QED BY <1>1, <1>3, <2>1, <2>2, QuietStep
<1>4. CASE Push(a) /\ Defer(op)
  <2>1. a \in CommandKind /\ a.op = "update"
    BY <1>1, Commands
  <2>. HIDE DEF a
  <2>2. entry' \in EntryKind /\ entry'.op = "update" /\ LInv'
    BY <1>1, <1>4, DeferKind DEF Defer, LInv
  <2>3. pc' \in Places \ {"open", "pump"}
    BY <1>1 DEF Places
  <2>4. Asked(cmds) => Asked(cmds')
    BY <1>2, <1>4, <2>1, PushIs
  <2>5. View => VOK(cmds', Unheard, mirror, "update", w.exec, w.stepping, swallowed)
    BY <2>4, ViewSent DEF View
  <2>. QED BY <1>1, <1>2, <1>4, <2>1, <2>2, <2>3, <2>5, PushStep
<1>. QED BY <1>1, <1>3, <1>4

LEMMA WaitStateInv ==
  ASSUME IInv, NEW op, NEW state \in {"PAUSED", "RUNNING"}, WaitState(op, state), pc = "dispatch",
         requests' \in Seq(Ops), UNCHANGED <<peer, events, w, slots, swallowed>>
  PROVE  IInv'
<1>1. /\ op = (IF state = "PAUSED" THEN "waitPaused" ELSE "waitRunning")
      /\ UNCHANGED <<pc, mirror, latch, bind, pump, opens, asks, cmds, lost>>
      /\ UNCHANGED entry \/ (mirror # state /\ Defer(op))
  BY DEF WaitState
<1>2. CASE UNCHANGED entry
  <2>1. Shape'
    BY <1>1, <1>2 DEF IInv, TInv, Shape
  <2>2. Pumping'
    BY <1>1 DEF IInv, TInv, Pumping
  <2>. QED BY <1>1, <1>2, <2>1, <2>2, QuietStep
<1>3. CASE mirror # state /\ Defer(op)
  <2>1. entry' \in EntryKind /\ entry'.op = op
    BY <1>1, <1>3, DeferKind DEF Defer
  <2>2. Shape'
    BY <1>1, <2>1 DEF IInv, TInv, Shape
  <2>3. Pumping' /\ LInv'
    BY <1>1, <2>1 DEF IInv, TInv, Pumping, LInv
  <2>4. SOK(cmds, Unheard, slots, bind.id, lost, opens)
    BY DEF IInv, SInv
  <2>6. \/ op = "waitPaused" /\ mirror # "PAUSED"
        \/ op = "waitRunning" /\ mirror # "RUNNING"
    BY <1>1, <1>3
  <2>7. View => VOK(cmds, Unheard, mirror, op, w.exec, w.stepping, swallowed)
    BY <2>6, ViewSent DEF View
  <2>. QED BY <1>1, <2>1, <2>2, <2>3, <2>4, <2>7, MainStep
<1>. QED BY <1>1, <1>2, <1>3

LEMMA WaitEventInv ==
  ASSUME IInv, NEW op, WaitEvent(op), pc = "dispatch",
         requests' \in Seq(Ops), UNCHANGED <<peer, events, w, slots, swallowed>>
  PROVE  IInv'
<1>1. /\ op = "waitEvent"
      /\ UNCHANGED <<pc, mirror, bind, pump, opens, asks, cmds, lost>>
      /\ \/ latch' \in {latch, latch \ {"PAUSED"}} /\ UNCHANGED entry
         \/ "PAUSED" \notin latch /\ Defer(op) /\ UNCHANGED latch
  BY DEF WaitEvent
<1>2. SOK(cmds, Unheard, slots, bind.id, lost, opens)
  BY DEF IInv, SInv
<1>4. CASE latch' \in {latch, latch \ {"PAUSED"}} /\ UNCHANGED entry
  <2>1. latch' \subseteq Execs /\ LInv'
    BY <1>4 DEF IInv, TInv, Shape, LInv
  <2>2. Shape'
    BY <1>1, <1>4, <2>1 DEF IInv, TInv, Shape
  <2>3. Pumping'
    BY <1>1 DEF IInv, TInv, Pumping
  <2>4. View => VOK(cmds, Unheard, mirror, entry.op, w.exec, w.stepping, swallowed)
    BY DEF View
  <2>. QED BY <1>1, <1>2, <1>4, <2>1, <2>2, <2>3, <2>4, MainStep
<1>5. CASE "PAUSED" \notin latch /\ Defer(op) /\ UNCHANGED latch
  <2>1. entry' \in EntryKind /\ entry'.op = "waitEvent"
    BY <1>1, <1>5, DeferKind DEF Defer
  <2>2. Shape'
    BY <1>1, <1>5, <2>1 DEF IInv, TInv, Shape
  <2>3. Pumping' /\ LInv'
    BY <1>1, <1>5 DEF IInv, TInv, Pumping, LInv
  <2>4. View => VOK(cmds, Unheard, mirror, "waitEvent", w.exec, w.stepping, swallowed)
    BY ViewSent DEF View
  <2>. QED BY <1>1, <1>2, <2>1, <2>2, <2>3, <2>4, MainStep
<1>. QED BY <1>1, <1>4, <1>5

LEMMA AskInv ==
  ASSUME IInv, NEW id \in {0, bind.id}, Ask(id), pc \notin {"open", "pump"},
         pc' \in Places \ {"open", "pump"}, requests' \in Seq(Ops),
         UNCHANGED <<peer, mirror, latch, bind, pump, opens, events, w, slots, lost, swallowed>>
  PROVE  IInv'
<1>. DEFINE n == asks + 1
            e == [op |-> "history", id |-> id, token |-> n]
<1>1. asks' = n /\ Push(e)
      /\ entry' = IF Full THEN entry ELSE [op |-> "history", token |-> n, epoch |-> peer.epoch]
  BY DEF Ask
<1>2. /\ Shape /\ bind.id \in Nat /\ asks \in Nat /\ peer.epoch \in Nat /\ pump = NoPump
      /\ mirror' \in Execs \cup {"ERROR"} /\ latch' \subseteq Execs /\ entry \in EntryKind
  BY DEF IInv, TInv, Shape, Pumping
<1>3. n \in Nat /\ id \in Nat
  BY <1>2
<1>. HIDE DEF n
<1>4. e \in CommandKind /\ e.op = "history" /\ e.id = id
  BY <1>3 DEF CommandKind
<1>. HIDE DEF e
<1>5. entry' \in EntryKind /\ entry'.op \in {entry.op, "history"}
  BY <1>1, <1>2, <1>3 DEF EntryKind
<1>6. LInv'
  BY <1>5 DEF IInv, LInv
<1>9. Asked(cmds) => Asked(cmds')
  BY <1>1, <1>2, <1>4, PushIs
<1>11. View => VOK(cmds', Unheard, mirror, entry'.op, w.exec, w.stepping, swallowed)
  BY <1>5, <1>9, ViewSent DEF View
<1>. QED BY <1>1, <1>2, <1>3, <1>4, <1>5, <1>6, <1>11, PushStep

LEMMA HistoryInv ==
  ASSUME IInv, NEW op, History(op), pc = "dispatch",
         requests' \in Seq(Ops), UNCHANGED <<peer, events, w, slots, swallowed>>
  PROVE  IInv'
<1>1. /\ UNCHANGED <<mirror, latch, opens>>
      /\ \/ UNCHANGED <<pc, bind, pump, asks, cmds, entry, lost>>
         \/ Ensure("history") /\ UNCHANGED <<asks, entry>>
         \/ Ask(IF peer.on THEN bind.id ELSE 0) /\ UNCHANGED <<pc, bind, pump, lost>>
  BY DEF History
<1>2. CASE UNCHANGED <<pc, bind, pump, asks, cmds, entry, lost>>
  <2>1. Shape'
    BY <1>1, <1>2 DEF IInv, TInv, Shape
  <2>2. Pumping'
    BY <1>1, <1>2 DEF IInv, TInv, Pumping
  <2>. QED BY <1>1, <1>2, <2>1, <2>2, QuietStep
<1>3. CASE Ensure("history") /\ UNCHANGED <<asks, entry>>
  BY <1>1, <1>3, EnsureInv
<1>4. CASE Ask(IF peer.on THEN bind.id ELSE 0) /\ UNCHANGED <<pc, bind, pump, lost>>
  <2>1. PICK id \in {0, bind.id} : Ask(id)
    BY <1>4
  <2>2. pc' \in Places \ {"open", "pump"}
    BY <1>4 DEF Places
  <2>. QED BY <1>1, <1>4, <2>1, <2>2, AskInv
<1>. QED BY <1>1, <1>2, <1>3, <1>4

LEMMA DispatchInv ==
  ASSUME IInv, Dispatch
  PROVE  IInv'
<1>1. /\ pc = "dispatch" /\ requests # <<>> /\ requests' = Tail(requests)
      /\ UNCHANGED <<peer, events, w, slots, swallowed>>
  BY DEF Dispatch
<1>2. requests \in Seq(Ops)
  BY DEF IInv, TInv, Shape
<1>3. requests' \in Seq(Ops)
  BY <1>1, <1>2
<1>4. PICK op : \/ Accept(op) \/ WaitEvent(op) \/ BreakUpdate(op) \/ History(op)
                \/ \E s \in {"PAUSED", "RUNNING"} : WaitState(op, s)
  BY DEF Dispatch
<1>. QED BY <1>1, <1>3, <1>4, AcceptInv, WaitStateInv, WaitEventInv, BreakUpdateInv, HistoryInv

LEMMA HistoryBoundInv ==
  ASSUME IInv, HistoryBound
  PROVE  IInv'
<1>1. /\ pc = "history" /\ Ask(bind.id) /\ pc' = "dispatch"
      /\ UNCHANGED <<peer, requests, mirror, latch, bind, pump, opens, events, w, slots, lost, swallowed>>
  BY DEF HistoryBound
<1>2. requests' \in Seq(Ops) /\ pc' \in Places \ {"open", "pump"}
  BY <1>1 DEF IInv, TInv, Shape, Places
<1>. QED BY <1>1, <1>2, AskInv

LEMMA PeerInv ==
  ASSUME IInv, Connect \/ Hangup \/ Send
  PROVE  IInv'
<1>1. UNCHANGED mainAndWorker
  BY DEF Connect, Hangup, Send
<1>2. peer \in [on : BOOLEAN, epoch : Nat, sent : Nat] /\ requests \in Seq(Ops)
  BY DEF IInv, TInv, Shape
<1>. DEFINE ne == peer.epoch + 1
            ns == peer.sent + 1
<1>3. ne \in Nat /\ ns \in Nat
  BY <1>2
<1>4. \/ peer' = [peer EXCEPT !.on = TRUE, !.epoch = ne]
      \/ peer' = [peer EXCEPT !.on = FALSE]
      \/ peer' = [peer EXCEPT !.sent = ns]
  BY DEF Connect, Hangup, Send
<1>. HIDE DEF ne, ns
<1>5. peer' \in [on : BOOLEAN, epoch : Nat, sent : Nat]
  BY <1>2, <1>3, <1>4
<1>6. requests' \in Seq(Ops)
  <2>1. requests' = requests \/ \E op \in Ops : requests' = Append(requests, op)
    BY DEF Connect, Hangup, Send
  <2>. QED BY <1>2, <2>1
<1>7. Shape'
  BY <1>1, <1>5, <1>6 DEF IInv, TInv, Shape, mainAndWorker, worker
<1>8. Pumping'
  BY <1>1 DEF IInv, TInv, Pumping, mainAndWorker
<1>. QED BY <1>1, <1>7, <1>8, QuietStep DEF mainAndWorker, worker

------------------------------------------------------------------------------
(* The inductive invariant *)

LEMMA InitInv ==
  ASSUME Init
  PROVE  IInv
<1>1. Shape
  <2>1. <<>> \in Seq(Ops) /\ <<>> \in Seq(CommandKind) /\ <<>> \in Seq(EventKind)
    OBVIOUS
  <2>2. w \in WKind /\ w.stepping = FALSE
    BY <2>1 DEF Init, WKind, Execs
  <2>3. peer \in [on : BOOLEAN, epoch : Nat, sent : Nat]
    BY DEF Init
  <2>4. entry \in EntryKind
    BY DEF Init, NoEntry, EntryKind
  <2>5. bind \in [id : Nat, epoch : Nat] /\ pump \in PumpKind
    BY DEF Init, Unbound, NoPump, PumpKind
  <2>6. /\ mirror \in Execs \cup {"ERROR"} /\ latch \subseteq Execs /\ opens \in Nat /\ asks \in Nat
        /\ swallowed \in BOOLEAN
    BY DEF Init, Execs
  <2>7. /\ requests \in Seq(Ops) /\ cmds \in Seq(CommandKind) /\ events \in Seq(EventKind)
        /\ pc \in Places
    BY <2>1 DEF Init, Places
  <2>. QED BY <2>2, <2>3, <2>4, <2>5, <2>6, <2>7 DEF Shape
<1>2. Pumping
  BY DEF Init, Pumping
<1>3. IsFiniteSet(slots) /\ Cardinality(slots) <= SessionSlots
  BY FS_EmptySet, Bounds DEF Init
<1>4. Unheard = <<>> /\ cmds = <<>> /\ slots = {} /\ bind.id = 0 /\ lost = {} /\ opens = 0 /\ w.burst = <<>>
  <2>1. events = <<>> /\ w.burst = <<>>
    BY DEF Init
  <2>. QED BY <2>1 DEF Init, Unheard, Unbound
<1>5. SOK(<<>>, <<>>, {}, 0, {}, 0)
  BY NothingYet DEF SOK, Numbered, Exclusive, InUse, Served
<1>6. VOK(<<>>, <<>>, "PAUSED", "none", "PAUSED", FALSE, FALSE)
  BY NothingYet DEF VOK
<1>7. SInv
  BY <1>4, <1>5 DEF SInv
<1>8. mirror = "PAUSED" /\ entry.op = "none" /\ w.exec = "PAUSED" /\ w.stepping = FALSE /\ swallowed = FALSE
  BY DEF Init, NoEntry
<1>9. VInv
  BY <1>4, <1>6, <1>8 DEF VInv, View
<1>10. LInv
  BY <1>8 DEF LInv
<1>11. BInv
  BY <1>4, NothingYet DEF BInv
<1>. QED BY <1>1, <1>2, <1>3, <1>7, <1>9, <1>10, <1>11 DEF IInv, TInv

LEMMA NextInv ==
  ASSUME IInv, [Next]_vars
  PROVE  IInv'
<1>1. CASE UNCHANGED vars
  <2>1. Shape'
    BY <1>1 DEF IInv, TInv, Shape, vars
  <2>2. Pumping'
    BY <1>1 DEF IInv, TInv, Pumping, vars
  <2>. QED BY <1>1, <2>1, <2>2, QuietStep DEF vars
<1>2. CASE Main
  BY <1>2, PollInv, QuietSteps, CheckSessionInv, OpenSessionInv, PumpAnsweredInv, PumpOtherInv,
     DispatchInv, RequestStateInv, HistoryBoundInv DEF Main
<1>3. CASE Worker
  BY <1>3, EmitInv, TakeCommandInv, StepTakesInv, StepEndsInv, BreakpointHitInv DEF Worker
<1>4. CASE Connect \/ Hangup \/ Send
  BY <1>4, PeerInv
<1>. QED BY <1>1, <1>2, <1>3, <1>4 DEF Next

\* The invariant of the main thread and the worker holds in every state.
LEMMA Invariant == Spec => []IInv
<1>1. Init => IInv
  BY InitInv
<1>2. IInv /\ [Next]_vars => IInv'
  BY NextInv
<1>. QED BY <1>1, <1>2, PTL DEF Spec

------------------------------------------------------------------------------
(* The queues *)

Within == Len(cmds) <= CommandQueue /\ Len(events) <= EventQueue

LEMMA Lengths ==
  ASSUME NEW S, NEW s \in Seq(S)
  PROVE  /\ Len(s) \in Nat
         /\ s # <<>> => Len(Tail(s)) <= Len(s)
         /\ \A e \in S : Len(Append(s, e)) = Len(s) + 1
OBVIOUS

\* A push onto a full queue changes nothing, any other adds one command.
LEMMA PushWithin ==
  ASSUME Shape, Within, NEW c \in CommandKind, Push(c)
  PROVE  Len(cmds') <= CommandQueue
<1>1. cmds \in Seq(CommandKind) /\ CommandQueue \in Nat
  BY Bounds DEF Shape
<1>2. CASE Full
  BY <1>2 DEF Push, Within
<1>3. CASE ~Full
  <2>1. cmds' = Append(cmds, c) /\ Len(cmds) # CommandQueue
    BY <1>3 DEF Push, Full
  <2>2. Len(Append(cmds, c)) = Len(cmds) + 1 /\ Len(cmds) \in Nat
    BY <1>1, Lengths
  <2>. QED BY <1>1, <2>1, <2>2 DEF Within
<1>. QED BY <1>2, <1>3

\* Each step takes from the queues, leaves them alone, or pushes one command
\* or one event.
LEMMA MainWithin ==
  ASSUME IInv, Within, Main
  PROVE  Within'
<1>1. Shape /\ bind.id \in Nat /\ opens \in Nat /\ asks \in Nat
  BY DEF IInv, TInv, Shape
<1>2. CASE Poll \/ PumpAnswered \/ PumpOther
  <2>1. cmds' = cmds /\ events # <<>> /\ events' = Tail(events)
    BY <1>2 DEF Poll, PumpAnswered, PumpOther
  <2>2. events \in Seq(EventKind) /\ EventQueue \in Nat
    BY <1>1, Bounds DEF Shape
  <2>3. Len(Tail(events)) <= Len(events) /\ Len(Tail(events)) \in Nat /\ Len(events) \in Nat
    BY <2>1, <2>2, Lengths
  <2>. QED BY <2>1, <2>2, <2>3 DEF Within
<1>3. ASSUME UNCHANGED events, UNCHANGED cmds \/ \E c \in CommandKind : Push(c)
      PROVE  Within'
  BY <1>1, <1>3, PushWithin DEF Within
<1>4. ASSUME Release PROVE UNCHANGED cmds \/ \E c \in CommandKind : Push(c)
  <2>1. [op |-> "close", id |-> bind.id, token |-> 0] \in CommandKind
    BY <1>1 DEF CommandKind
  <2>. QED BY <1>4, <2>1 DEF Release
<1>5. ASSUME NEW id \in {0, bind.id}, Ask(id) PROVE \E c \in CommandKind : Push(c)
  <2>1. [op |-> "history", id |-> id, token |-> asks + 1] \in CommandKind
    BY <1>1 DEF CommandKind
  <2>. QED BY <1>5, <2>1 DEF Ask
<1>6. CASE PollEnds \/ CheckEntries \/ PumpTimeout \/ Expires \/ TimeoutsDone \/ DispatchEnds
  BY <1>3, <1>6 DEF PollEnds, CheckEntries, PumpTimeout, Expires, TimeoutsDone, DispatchEnds, worker
<1>7. CASE CheckSession
  BY <1>3, <1>4, <1>7 DEF CheckSession, Ensure
<1>8. CASE OpenSession
  <2>1. [op |-> "open", id |-> 0, token |-> opens + 1] \in CommandKind
    BY <1>1 DEF CommandKind
  <2>. QED BY <1>3, <1>8, <2>1 DEF OpenSession
<1>9. CASE RequestState
  BY <1>3, <1>9, Commands DEF RequestState
<1>10. CASE HistoryBound
  BY <1>3, <1>5, <1>10 DEF HistoryBound
<1>11. CASE Dispatch
  <2>1. UNCHANGED events
    BY <1>11 DEF Dispatch
  <2>2. PICK op : \/ Accept(op) \/ WaitEvent(op) \/ BreakUpdate(op) \/ History(op)
                  \/ \E s \in {"PAUSED", "RUNNING"} : WaitState(op, s)
    BY <1>11 DEF Dispatch
  <2>3. CASE Accept(op)
    BY <1>3, <2>1, <2>3, Commands DEF Accept, ExecutionControl
  <2>4. CASE WaitEvent(op) \/ \E s \in {"PAUSED", "RUNNING"} : WaitState(op, s)
    BY <1>3, <2>1, <2>4 DEF WaitEvent, WaitState
  <2>5. CASE BreakUpdate(op)
    BY <1>3, <2>1, <2>5, Commands DEF BreakUpdate
  <2>6. CASE History(op)
    <3>1. \/ UNCHANGED cmds \/ Release
          \/ \E id \in {0, bind.id} : Ask(id)
      BY <2>6 DEF History, Ensure
    <3>. QED BY <1>3, <1>4, <1>5, <2>1, <3>1
  <2>. QED BY <2>2, <2>3, <2>4, <2>5, <2>6
<1>. QED BY <1>2, <1>6, <1>7, <1>8, <1>9, <1>10, <1>11 DEF Main

LEMMA NextWithin ==
  ASSUME IInv, Within, [Next]_vars
  PROVE  Within'
<1>1. /\ cmds \in Seq(CommandKind) /\ events \in Seq(EventKind) /\ w.burst \in Seq(EventKind)
      /\ CommandQueue \in Nat /\ EventQueue \in Nat
  BY Bounds DEF IInv, TInv, Shape, WKind
<1>2. CASE TakeCommand \/ StepTakes
  <2>1. events' = events /\ cmds # <<>> /\ cmds' = Tail(cmds)
    BY <1>2 DEF TakeCommand, StepTakes
  <2>2. Len(Tail(cmds)) <= Len(cmds) /\ Len(Tail(cmds)) \in Nat /\ Len(cmds) \in Nat
    BY <1>1, <2>1, Lengths
  <2>. QED BY <1>1, <2>1, <2>2 DEF Within
<1>3. CASE Emit
  <2>1. /\ w.burst # <<>> /\ cmds' = cmds
        /\ events' = IF Len(events) = EventQueue THEN events ELSE Append(events, Head(w.burst))
    BY <1>3 DEF Emit, Publishes
  <2>2. Head(w.burst) \in EventKind
    BY <1>1, <2>1
  <2>3. Len(Append(events, Head(w.burst))) = Len(events) + 1 /\ Len(events) \in Nat
    BY <1>1, <2>2, Lengths
  <2>. QED BY <1>1, <2>1, <2>3 DEF Within
<1>4. CASE StepEnds \/ BreakpointHit \/ Connect \/ Hangup \/ Send \/ UNCHANGED vars
  BY <1>4 DEF StepEnds, BreakpointHit, Connect, Hangup, Send, vars, mainAndWorker, worker, Within
<1>. QED BY <1>2, <1>3, <1>4, MainWithin DEF Next, Worker

\* Every slot of the worker's session table holds a session that was asked for
\* (control_session_ensure), the table and the two queues never hold more than
\* their capacity, and the main thread pumps for the answer to its last open
\* only.
THEOREM TypeCorrect == Spec => []TypeOK
<1>1. Init => Within
  BY Bounds DEF Init, Within
<1>2. IInv /\ Within /\ [Next]_vars => Within'
  BY NextWithin
<1>3. IInv /\ Within => TypeOK
  <2>. SUFFICES ASSUME IInv, Within PROVE TypeOK
    OBVIOUS
  <2>1. slots \subseteq 1 .. opens
    BY DEF IInv, SInv, SOK, Numbered
  <2>2. pc \in {"open", "pump"} => pump # NoPump
    BY DEF IInv, TInv, Pumping, NoPump
  <2>3. pc \notin {"open", "pump"} => pump = NoPump
    BY DEF IInv, TInv, Pumping
  <2>4. (pc \in {"open", "pump"}) = (pump # NoPump)
    BY <2>2, <2>3
  <2>5. pc = "pump" => pump.token = opens
    BY DEF IInv, TInv, Pumping
  <2>. QED BY <2>1, <2>4, <2>5 DEF IInv, TInv, Shape, Execs, Places, Within, TypeOK
<1>. QED BY <1>1, <1>2, <1>3, Invariant, PTL DEF Spec

\* No session slot is leaked but those recorded as lost: each is bound to the
\* client, about to be closed, or granted and not yet heard of; the bound one
\* is open and stays so; and no history request in the queue names a session
\* that will be closed before the request is served.
THEOREM AccountsSessions == Spec => []SessionsAccounted
<1>1. IInv => SessionsAccounted
  <2>. SUFFICES ASSUME IInv PROVE SessionsAccounted
    OBVIOUS
  <2>1. /\ Exclusive(cmds, Unheard, slots, bind.id, lost) /\ InUse(cmds, Unheard, slots, bind.id, lost)
        /\ Served(cmds, slots)
    BY DEF IInv, SInv, SOK
  <2>2. \A x : x \in Closing <=> Closes(cmds, x)
    BY DEF Closing, Closes
  <2>3. \A x : Grants(Unheard, x) => x \in Granted
    BY DEF Granted, Grants, Unheard, ToSet
  <2>4. slots \subseteq {bind.id} \cup Closing \cup Granted \cup lost
    BY <2>1, <2>2, <2>3 DEF InUse
  <2>5. bind.id # 0 => bind.id \in slots \ (Closing \cup lost)
    BY <2>1, <2>2 DEF Exclusive
  <2>. QED BY <2>1, <2>4, <2>5 DEF Served, SessionsAccounted
<1>. QED BY <1>1, Invariant, PTL

\* When the queues are empty and the worker is at rest, debug_state shows what
\* the worker does and no wait-paused or wait-running is left waiting for a
\* state that is already there, unless the session pump took the last word, the
\* last state event met a full event queue, or debug_state holds on to an
\* error; and a deferred wait-event never leaves a latched pause unanswered.
THEOREM SettlesRight == Spec => []Settled
<1>1. IInv => Settled
  <2>. SUFFICES ASSUME IInv PROVE Settled
    OBVIOUS
  <2>1. entry.op = "waitEvent" => "PAUSED" \notin latch
    BY DEF IInv, LInv
  <2>2. ASSUME AtRest, ~swallowed, ~w.dropped, mirror # "ERROR"
        PROVE  /\ mirror = w.exec
               /\ entry.op = "waitPaused" => w.exec # "PAUSED"
               /\ entry.op = "waitRunning" => w.exec # "RUNNING"
    <3>1. cmds = <<>> /\ events = <<>> /\ w.burst = <<>> /\ ~w.stepping
      BY <2>2 DEF AtRest, Publishes
    <3>2. Unheard = <<>>
      BY <3>1 DEF Unheard
    <3>3. VOK(<<>>, <<>>, mirror, entry.op, w.exec, w.stepping, swallowed)
      BY <2>2, <3>1, <3>2 DEF IInv, VInv, Excused, View
    <3>4. ~Owes(<<>>, w.stepping)
      BY <3>1, NothingYet DEF Owes
    <3>. QED BY <2>2, <3>3, <3>4, NothingYet DEF VOK
  <2>. QED BY <2>1, <2>2 DEF Settled
<1>. QED BY <1>1, Invariant, PTL
==============================================================================
