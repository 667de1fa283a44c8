-------------------------- MODULE A2mControl_proofs --------------------------
(***************************************************************************)
(* The a2m control port for every mix of clients, requests and timeouts:   *)
(* tokened data answers the request it was fetched for, a waiting client   *)
(* has an answer coming, every runtime session is held or on its way, the  *)
(* mirror settles on what the machine does, and, when the main loop turns  *)
(* within a drain, a reply is the waiting client's own.                    *)
(***************************************************************************)
EXTENDS A2mControl, FiniteSetTheorems, SequenceTheorems, FunctionTheorems,
        WellFoundedInduction, NaturalsInduction, TLAPS

-----------------------------------------------------------------------------
(* The inductive invariant.                                                *)

Tokened == {"cpu", "hist"}
CommandKind(n) ==
    [op : {"run", "pause", "step", "reset", "enter", "leave", "cpu", "list", "mach",
           "hist", "open"}, tok : Nat, src : 0 .. n]
      \cup [op : {"close"}, tok : Nat, src : Nat]
EventKind(n) ==
    [t : {"sc", "mach", "running", "paused", "stepc", "brk", "imode", "cpu", "hist"},
     tok : Nat, src : 0 .. n, on : BOOLEAN, insp : BOOLEAN]
      \cup [t : {"sess"}, tok : Nat, src : Nat, on : BOOLEAN, insp : BOOLEAN]
RequestKind(n) == [id : 1 .. n, kind : AllKinds \ {"quit"}]
ReplyKind(n) ==
    [id : 0 .. n, src : 0 .. n,
     k : AllKinds \cup {"event", "accepted", "busy", "read-only", "timeout"}]
EntryKind(n) ==
    {e \in [on : BOOLEAN, id : 0 .. n, kind : AllKinds \cup {"none"}, tok : Nat, ep : Nat,
            expired : BOOLEAN] : e.on <=> e # NoEntry}

CountKind(n) == [req : 0 .. n, conn : Nat, hit : Nat, late : Nat]
SrvKind == [epoch : Nat, has : BOOLEAN, stopping : BOOLEAN]
TakenKind == [asked : Nat, id : Nat, k : AllKinds \cup {"none", "event", "accepted",
                                              "busy", "read-only", "timeout"}]
PumpKind(n) ==
    [tok : Nat, ep : Nat, ret : {"none", "events", "poll2", "bind"}, hid : 0 .. n]
SeenKind == [has : BOOLEAN, ep : Nat]
DispKind == [running : BOOLEAN, paused : BOOLEAN, latch : BOOLEAN, insp : BOOLEAN]
SessKind == [id : Nat, ep : Nat]
WkKind == [run : BOOLEAN, insp : BOOLEAN]
SockPlaces == {"accept", "begin", "read", "wait", "drain", "close", "stopped"}
PeerKind == {"none", "open", "gone"}
MainPlaces == {"events", "check", "bind", "pump", "deadline", "poll2", "stop", "join", "end"}

(* Types. The table of sessions does not exceed its size.                  *)
SockShape ==
    /\ mix \in Mixes /\ sock \in SockPlaces /\ peer \in PeerKind /\ cur \in 0 .. mix.req
    /\ srv \in SrvKind /\ reqQ \in Seq(RequestKind(mix.req))
    /\ count \in CountKind(mix.req) /\ taken \in TakenKind
MainShape ==
    /\ respQ \in Seq(ReplyKind(mix.req)) /\ main \in MainPlaces /\ seen \in SeenKind
    /\ pump \in PumpKind(mix.req) /\ (main = "pump" <=> pump.ret # "none")
    /\ d \in EntryKind(mix.req) /\ disp \in DispKind
    /\ sess \in SessKind /\ passes \in 0 .. 3
WorkShape ==
    /\ wk \in WkKind /\ cmdQ \in Seq(CommandKind(mix.req))
    /\ out \in Seq(EventKind(mix.req)) /\ evQ \in Seq(EventKind(mix.req))
    /\ slots \subseteq Nat /\ IsFiniteSet(slots) /\ Cardinality(slots) <= MaxSessions
TInv == SockShape /\ MainShape /\ WorkShape

(* Tokened items under way: those with token t are of request x; none has t. *)
AskedFor(q, t, x) ==
    \A c \in Elems(q) : c.op \in Tokened /\ c.tok = t => c.src = x
ToldFor(q, t, x) ==
    \A e \in Elems(q) : e.t \in Tokened /\ e.tok = t => e.src = x
Without(q, t) == \A e \in Elems(q) : e.tok # t
FreshReplies(q) == \A r \in Elems(q) : r.k \in Tokened => r.src = r.id

(* The items with the entry's token are the entry's; while ensure_session  *)
(* runs for a history request there are none yet.                          *)
KInv ==
    /\ d.on /\ d.kind \in Tokened =>
         /\ AskedFor(cmdQ, d.tok, d.id) /\ ToldFor(out, d.tok, d.id)
         /\ ToldFor(evQ, d.tok, d.id)
    /\ pump.ret \in {"events", "poll2"} =>
         /\ d.on /\ d.kind = "hist" /\ d.id = pump.hid /\ d.tok # 0
         /\ Without(cmdQ, d.tok) /\ Without(out, d.tok) /\ Without(evQ, d.tok)
    /\ FreshReplies(respQ)

(* Ids are given once; the entry of the waiting client is of its epoch, and *)
(* check_session has read this connection when it comes to look at it.     *)
IdsGiven ==
    /\ cur <= count.req /\ (d.on => d.id <= count.req)
    /\ \A r \in Elems(reqQ) : r.id <= count.req
Serving == (sock \in {"read", "wait"} => srv.has) /\ (sock = "wait" => cur # 0)
OwnEntry ==
    sock = "wait" /\ d.on /\ d.id = cur =>
      /\ d.ep = srv.epoch
      /\ main \in {"bind", "deadline"} \/ pump.ret = "bind" => seen.has
      /\ main = "deadline" \/ pump.ret = "bind" => seen.ep = srv.epoch
AnswerComing ==
    sock = "wait" /\ main \notin {"stop", "join", "end"} =>
      \/ \E r \in Elems(reqQ) : r.id = cur
      \/ d.on /\ d.id = cur
      \/ \E r \in Elems(respQ) : r.id = cur
WInv == IdsGiven /\ Serving /\ OwnEntry /\ AnswerComing

(* The lock step: one request at a time is queued, deferred or answered.   *)
Blank(q) == \A r \in Elems(q) : r.id = 0
Clean == reqQ = <<>> /\ ~d.on /\ Blank(respQ)
OneReply(q, x) ==
    /\ \A r \in Elems(q) : r.id # 0 => r.id = x
    /\ \A i, j \in DOMAIN q : q[i].id # 0 /\ q[j].id # 0 => i = j
Waiting ==
    /\ \A r \in Elems(reqQ) : r.id = cur
    /\ d.on => d.id = cur
    /\ OneReply(respQ, cur)
    /\ reqQ # <<>> \/ d.on => Blank(respQ)
Draining ==
    /\ ~srv.has
    /\ passes = 1 =>
         /\ main # "pump" /\ (main \in {"check", "bind", "deadline", "poll2"} => reqQ = <<>>)
         /\ main \in {"bind", "deadline"} => ~seen.has
         /\ main = "poll2" => ~d.on
    /\ passes = 2 => reqQ = <<>> /\ ~d.on
Alone ==
    /\ Len(reqQ) <= 1 /\ (reqQ # <<>> => ~d.on)
    /\ \A r \in Elems(respQ) : r.k # "busy"
Left == srv.stopping /\ sock # "begin" /\ (sock = "accept" => peer = "none")
Served ==
    /\ sock = "read" => Clean
    /\ sock = "wait" => Waiting
    /\ sock \in {"accept", "begin", "close"} => Clean \/ Left
Own == taken.asked = taken.id /\ taken.k # "busy"
LInv ==
    /\ Alone /\ Served /\ (sock = "drain" => Draining)
    /\ srv.stopping => main \in {"join", "end"}
    /\ Own
RInv == passes # Rushed => LInv

(* Sessions: an open is asked for and answered once, under a token of its own. *)
OpensOnce(q) ==
    \A i, j \in DOMAIN q :
      q[i].op = "open" /\ q[j].op = "open" /\ q[i].tok = q[j].tok => i = j
Told == Elems(out) \cup Elems(evQ)
Separate ==
    \A c \in Elems(cmdQ), e \in Told : c.op = "open" /\ e.t = "sess" => c.tok # e.tok
OneGrant ==
    \A e, f \in Told : e.t = "sess" /\ f.t = "sess" /\ e.tok = f.tok => e.src = f.src
Nonzero ==
    /\ 0 \notin slots /\ \A c \in Elems(cmdQ) : c.op = "open" => c.tok # 0
    /\ \A e \in Told : e.t = "sess" => e.tok # 0 /\ (e.src # 0 => e.on)
Pumped == IF pump.ret = "none" THEN pump.tok = 0 ELSE sess.id = 0

(* What the timeouts account for: slots that nobody will give back, and     *)
(* opens still queued whose grant nobody will wait for.                    *)
Granting(S, t) == {e.src : e \in {x \in S : x.t = "sess" /\ x.tok = t}}
OpenToks(q) == {c.tok : c \in {x \in Elems(q) : x.op = "open"}}
Owed(unheld, open) == {<<0, x>> : x \in unheld} \cup {<<1, y>> : y \in open}
Unheld == slots \ ({sess.id} \cup ClosingIds(cmdQ) \cup Granting(Told, pump.tok))
Owing == Owed(Unheld, OpenToks(cmdQ) \ {pump.tok})
Afforded(S, n) == IsFiniteSet(S) /\ Cardinality(S) <= n
SInv ==
    /\ OpensOnce(cmdQ) /\ Separate /\ OneGrant /\ Nonzero /\ Pumped
    /\ Afforded(Owing, count.late)

-----------------------------------------------------------------------------
(* Fresh tokens.                                                           *)

LEMMA LeastIs ==
  ASSUME NEW S, S \subseteq Nat, S # {}
  PROVE  Least(S) \in S
<1>1. PICK x \in S : \A y \in S : ~(<<y, x>> \in OpToRel(<, Nat))
  BY NatLessThanWellFounded, WFMin
<1>2. \A y \in S : x <= y
  <2>. TAKE y \in S
  <2>1. x \in Nat /\ y \in Nat
    OBVIOUS
  <2>2. ~(y < x)
    <3>. SUFFICES ASSUME y < x PROVE <<y, x>> \in OpToRel(<, Nat)
      BY <1>1
    <3>1. <<y, x>> \in Nat \X Nat /\ <<y, x>>[1] < <<y, x>>[2]
      BY <2>1
    <3>. QED BY <3>1 DEF OpToRel
  <2>. QED BY <2>1, <2>2
<1>. QED BY <1>2 DEF Least

LEMMA IntervalSize ==
  ASSUME NEW n \in Nat
  PROVE  IsFiniteSet(1 .. n) /\ Cardinality(1 .. n) = n
<1>1. IsFiniteSet(1 .. n) /\ Cardinality(1 .. n) = IF 1 > n THEN 0 ELSE n - 1 + 1
  BY FS_Interval
<1>. QED BY <1>1

LEMMA TokensOf ==
  ASSUME NEW K, NEW q \in Seq(K)
  PROVE  /\ IsFiniteSet({e.tok : e \in Elems(q)})
         /\ Cardinality({e.tok : e \in Elems(q)}) \in Nat
         /\ Cardinality({e.tok : e \in Elems(q)}) <= Len(q)
         /\ \A i \in DOMAIN q : q[i].tok \in {e.tok : e \in Elems(q)}
<1>. DEFINE T == {e.tok : e \in Elems(q)}
            f == [i \in 1 .. Len(q) |-> q[i].tok]
<1>1. Len(q) \in Nat /\ DOMAIN q = 1 .. Len(q)
  OBVIOUS
<1>2. \A i \in DOMAIN q : q[i].tok \in T
  BY DEF Elems
<1>3. f \in Surjection(1 .. Len(q), T)
  <2>1. f \in [1 .. Len(q) -> T]
    BY <1>1, <1>2
  <2>2. ASSUME NEW x \in T PROVE \E i \in 1 .. Len(q) : f[i] = x
    BY <1>1 DEF Elems
  <2>. QED BY <2>1, <2>2 DEF Surjection
<1>4. IsFiniteSet(1 .. Len(q)) /\ Cardinality(1 .. Len(q)) = Len(q)
  BY <1>1, IntervalSize
<1>. HIDE DEF T, f
<1>5. IsFiniteSet(T) /\ Cardinality(T) <= Len(q)
  BY <1>3, <1>4, FS_Surjection
<1>6. Cardinality(T) \in Nat
  BY <1>5, FS_CardinalityType
<1>. QED BY <1>2, <1>5, <1>6 DEF T

LEMMA UnionSize ==
  ASSUME NEW S, NEW T, IsFiniteSet(S), IsFiniteSet(T), NEW m \in Nat, NEW n \in Nat,
         Cardinality(S) <= m, Cardinality(T) <= n
  PROVE  IsFiniteSet(S \cup T) /\ Cardinality(S \cup T) <= m + n
<1>1. IsFiniteSet(S \cap T)
  BY FS_Subset
<1>2. Cardinality(S) \in Nat /\ Cardinality(T) \in Nat /\ Cardinality(S \cap T) \in Nat
  BY <1>1, FS_CardinalityType
<1>3. IsFiniteSet(S \cup T)
      /\ Cardinality(S \cup T) = Cardinality(S) + Cardinality(T) - Cardinality(S \cap T)
  BY FS_Union
<1>. QED BY <1>2, <1>3

LEMMA Fresh ==
  ASSUME TInv
  PROVE  /\ FreshToken \in Nat \ {0} /\ FreshToken \notin TokensInUse
         /\ Least(FreshTokens \ {FreshToken}) \in Nat \ {0}
         /\ Least(FreshTokens \ {FreshToken}) \notin TokensInUse \cup {FreshToken}
<1>. DEFINE A == {c.tok : c \in Elems(cmdQ)}
            B == {e.tok : e \in Elems(evQ)}
            C == {e.tok : e \in Elems(out)}
            E == {d.tok, pump.tok}
            n == Len(cmdQ) + Len(evQ) + Len(out)
            I == 1 .. (n + 4)
            F == FreshTokens
<1>1. Len(cmdQ) \in Nat /\ Len(evQ) \in Nat /\ Len(out) \in Nat
  BY DEF TInv, WorkShape
<1>2. /\ IsFiniteSet(A) /\ Cardinality(A) <= Len(cmdQ) /\ IsFiniteSet(B)
      /\ Cardinality(B) <= Len(evQ) /\ IsFiniteSet(C) /\ Cardinality(C) <= Len(out)
  BY TokensOf DEF TInv, WorkShape
<1>3. IsFiniteSet(E) /\ Cardinality(E) <= 2
  <2>1. IsFiniteSet({d.tok}) /\ Cardinality({d.tok}) = 1
    BY FS_Singleton
  <2>2. IsFiniteSet({d.tok} \cup {pump.tok})
        /\ Cardinality({d.tok} \cup {pump.tok}) =
             IF pump.tok \in {d.tok} THEN Cardinality({d.tok}) ELSE Cardinality({d.tok}) + 1
    BY <2>1, FS_AddElement
  <2>3. E = {d.tok} \cup {pump.tok}
    OBVIOUS
  <2>. QED BY <2>1, <2>2, <2>3
<1>4. TokensInUse = ((A \cup B) \cup C) \cup E
  BY DEF TokensInUse
<1>5. F = I \ TokensInUse
  BY DEF FreshTokens
<1>. HIDE DEF A, B, C, E, F
<1>6. IsFiniteSet(TokensInUse) /\ Cardinality(TokensInUse) <= n + 2
  <2>1. IsFiniteSet(A \cup B) /\ Cardinality(A \cup B) <= Len(cmdQ) + Len(evQ)
    BY <1>1, <1>2, UnionSize
  <2>2. Len(cmdQ) + Len(evQ) \in Nat
    BY <1>1
  <2>3. IsFiniteSet((A \cup B) \cup C) /\ Cardinality((A \cup B) \cup C) <= n
    BY <1>1, <1>2, <2>1, <2>2, UnionSize
  <2>4. n \in Nat
    BY <1>1
  <2>. HIDE DEF n
  <2>. QED BY <1>3, <1>4, <2>3, <2>4, UnionSize
<1>7. n \in Nat
  BY <1>1
<1>. HIDE DEF n
<1>8. IsFiniteSet(I) /\ Cardinality(I) = n + 4
  <2>1. n + 4 \in Nat
    BY <1>7
  <2>. QED BY <2>1, IntervalSize
<1>9. I \subseteq Nat \ {0}
  BY <1>7
<1>. HIDE DEF I
<1>10. IsFiniteSet(F) /\ Cardinality(F) \in Nat /\ Cardinality(F) >= 2
  <2>1. IsFiniteSet(F) /\ Cardinality(F) = Cardinality(I) - Cardinality(I \cap TokensInUse)
    BY <1>5, <1>8, FS_Difference
  <2>2. Cardinality(I \cap TokensInUse) <= Cardinality(TokensInUse)
    BY <1>6, FS_Subset
  <2>3. /\ Cardinality(TokensInUse) \in Nat /\ Cardinality(I \cap TokensInUse) \in Nat
        /\ Cardinality(F) \in Nat
    BY <1>6, <2>1, FS_Subset, FS_CardinalityType
  <2>. QED BY <1>6, <1>7, <1>8, <2>1, <2>2, <2>3
<1>11. F # {}
  BY <1>10, FS_EmptySet
<1>12. FreshToken \in F
  BY <1>5, <1>9, <1>11, LeastIs DEF FreshToken, F
<1>13. F \ {FreshToken} # {}
  <2>1. /\ IsFiniteSet(F \ {FreshToken})
        /\ Cardinality(F \ {FreshToken}) = Cardinality(F) - 1
    BY <1>10, <1>12, FS_RemoveElement
  <2>. QED BY <1>10, <2>1, FS_EmptySet
<1>14. Least(F \ {FreshToken}) \in F \ {FreshToken}
  BY <1>5, <1>9, <1>13, LeastIs
<1>. QED BY <1>5, <1>9, <1>12, <1>14 DEF F

\* A token that is not in use is on no item.
LEMMA Unused ==
  ASSUME NEW t, t \notin TokensInUse, TInv
  PROVE  Without(cmdQ, t) /\ Without(out, t) /\ Without(evQ, t) /\ t # d.tok /\ t # pump.tok
<1>1. \A i \in DOMAIN cmdQ : cmdQ[i].tok \in TokensInUse
  BY TokensOf DEF TInv, WorkShape, TokensInUse
<1>2. \A i \in DOMAIN out : out[i].tok \in TokensInUse
  BY TokensOf DEF TInv, WorkShape, TokensInUse
<1>3. \A i \in DOMAIN evQ : evQ[i].tok \in TokensInUse
  BY TokensOf DEF TInv, WorkShape, TokensInUse
<1>4. d.tok \in TokensInUse /\ pump.tok \in TokensInUse
  BY DEF TokensInUse
<1>. QED BY <1>1, <1>2, <1>3, <1>4 DEF Without, Elems

LEMMA SourcesOf ==
  ASSUME NEW K, NEW q \in Seq(K), NEW J, J \subseteq DOMAIN q
  PROVE  LET T == {q[i].src : i \in J} IN IsFiniteSet(T) /\ Cardinality(T) <= Len(q)
<1>. DEFINE T == {q[i].src : i \in J}
            f == [i \in J |-> q[i].src]
<1>1. Len(q) \in Nat /\ DOMAIN q = 1 .. Len(q)
  OBVIOUS
<1>2. IsFiniteSet(1 .. Len(q)) /\ Cardinality(1 .. Len(q)) = Len(q)
  BY <1>1, IntervalSize
<1>3. IsFiniteSet(J) /\ Cardinality(J) <= Len(q)
  BY <1>1, <1>2, FS_Subset
<1>4. f \in Surjection(J, T)
  BY DEF Surjection
<1>5. IsFiniteSet(T) /\ Cardinality(T) <= Cardinality(J)
  <2>. HIDE DEF T, f
  <2>. QED BY <1>3, <1>4, FS_Surjection
<1>6. Cardinality(T) \in Nat /\ Cardinality(J) \in Nat
  <2>. HIDE DEF T
  <2>. QED BY <1>3, <1>5, FS_CardinalityType
<1>. HIDE DEF T
<1>7. Cardinality(T) <= Len(q)
  BY <1>1, <1>3, <1>5, <1>6
<1>. QED BY <1>5, <1>7 DEF T

LEMMA FreshSessionIs ==
  ASSUME TInv, Cardinality(slots) < MaxSessions
  PROVE  FreshSession \in Nat \ {0} /\ FreshSession \notin slots
<1>. DEFINE B == ClosingIds(cmdQ)
            C == GrantedIds(evQ)
            U == ((slots \cup {sess.id}) \cup B) \cup C
            n == MaxSessions + Len(cmdQ) + Len(evQ)
            I == 1 .. (n + 1)
<1>1. Len(cmdQ) \in Nat /\ Len(evQ) \in Nat /\ MaxSessions \in Nat
  BY A2mControlAssumption DEF TInv, WorkShape
<1>2. IsFiniteSet(B) /\ Cardinality(B) <= Len(cmdQ)
  BY SourcesOf DEF TInv, WorkShape, ClosingIds
<1>3. IsFiniteSet(C) /\ Cardinality(C) <= Len(evQ)
  BY SourcesOf DEF TInv, WorkShape, GrantedIds
<1>4. IsFiniteSet(slots \cup {sess.id}) /\ Cardinality(slots \cup {sess.id}) <= MaxSessions
  <2>1. IsFiniteSet(slots) /\ Cardinality(slots) \in Nat
    BY FS_CardinalityType DEF TInv, WorkShape
  <2>2. IsFiniteSet(slots \cup {sess.id})
        /\ Cardinality(slots \cup {sess.id}) =
             IF sess.id \in slots THEN Cardinality(slots) ELSE Cardinality(slots) + 1
    BY <2>1, FS_AddElement
  <2>. QED BY <1>1, <2>1, <2>2
<1>5. FreshSession = Least(I \ U)
  <2>1. U = slots \cup {sess.id} \cup ClosingIds(cmdQ) \cup GrantedIds(evQ)
    OBVIOUS
  <2>2. I = 1 .. (MaxSessions + Len(cmdQ) + Len(evQ) + 1)
    OBVIOUS
  <2>. QED BY <2>1, <2>2 DEF FreshSession
<1>. HIDE DEF B, C
<1>6. IsFiniteSet(U) /\ Cardinality(U) <= n
  <2>1. IsFiniteSet((slots \cup {sess.id}) \cup B)
        /\ Cardinality((slots \cup {sess.id}) \cup B) <= MaxSessions + Len(cmdQ)
    BY <1>1, <1>2, <1>4, UnionSize
  <2>2. MaxSessions + Len(cmdQ) \in Nat
    BY <1>1
  <2>. QED BY <1>1, <1>3, <2>1, <2>2, UnionSize
<1>7. n \in Nat
  BY <1>1
<1>8. slots \subseteq U
  OBVIOUS
<1>. HIDE DEF n, U
<1>9. IsFiniteSet(I) /\ Cardinality(I) = n + 1 /\ I \subseteq Nat \ {0}
  <2>1. n + 1 \in Nat
    BY <1>7
  <2>. QED BY <2>1, IntervalSize
<1>. HIDE DEF I
<1>10. I \ U # {}
  <2>. SUFFICES ASSUME I \subseteq U PROVE FALSE
    OBVIOUS
  <2>1. Cardinality(I) <= Cardinality(U)
    BY <1>6, FS_Subset
  <2>2. Cardinality(U) \in Nat
    BY <1>6, FS_CardinalityType
  <2>. QED BY <1>6, <1>7, <1>9, <2>1, <2>2
<1>11. Least(I \ U) \in I \ U
  BY <1>9, <1>10, LeastIs
<1>. QED BY <1>5, <1>8, <1>9, <1>11

-----------------------------------------------------------------------------
(* Queues.                                                                 *)

LEMMA Appended ==
  ASSUME NEW K, NEW q \in Seq(K), NEW e \in K
  PROVE  /\ Append(q, e) \in Seq(K) /\ Len(Append(q, e)) = Len(q) + 1
         /\ Elems(Append(q, e)) = Elems(q) \cup {e} /\ Append(q, e) # <<>>
<1>. DEFINE a == Append(q, e)
            n == Len(q)
<1>1. /\ n \in Nat /\ DOMAIN q = 1 .. n /\ a \in Seq(K) /\ Len(a) = n + 1
      /\ DOMAIN a = 1 .. n + 1 /\ a[n + 1] = e /\ \A i \in 1 .. n : a[i] = q[i]
  OBVIOUS
<1>. HIDE DEF a, n
<1>2. n + 1 \in DOMAIN a /\ \A i \in DOMAIN a : i = n + 1 \/ i \in DOMAIN q
  BY <1>1
<1>3. \A i \in DOMAIN q : i \in DOMAIN a /\ a[i] = q[i]
  BY <1>1
<1>4. Elems(a) = Elems(q) \cup {e}
  BY <1>1, <1>2, <1>3 DEF Elems
<1>5. a # <<>>
  BY <1>1
<1>. QED BY <1>1, <1>4, <1>5 DEF a, n

LEMMA Tailed ==
  ASSUME NEW K, NEW q \in Seq(K), q # <<>>
  PROVE  /\ Head(q) \in K /\ Tail(q) \in Seq(K) /\ Len(Tail(q)) = Len(q) - 1
         /\ Len(q) \in Nat \ {0} /\ Elems(q) = {Head(q)} \cup Elems(Tail(q))
         /\ DOMAIN q = 1 .. Len(q) /\ Head(q) = q[1]
         /\ \A i \in DOMAIN Tail(q) : i \in Nat \ {0} /\ i + 1 \in DOMAIN q /\ Tail(q)[i] = q[i + 1]
<1>. DEFINE a == Tail(q)
            n == Len(q)
<1>1. /\ n \in Nat \ {0} /\ DOMAIN q = 1 .. n /\ a \in Seq(K) /\ Len(a) = n - 1
      /\ DOMAIN a = 1 .. n - 1 /\ \A i \in 1 .. n - 1 : a[i] = q[i + 1]
  OBVIOUS
<1>2. Head(q) = q[1] /\ Head(q) \in K /\ 1 \in DOMAIN q
  OBVIOUS
<1>. HIDE DEF a, n
<1>3. \A i \in DOMAIN a : i \in Nat \ {0} /\ i + 1 \in DOMAIN q /\ a[i] = q[i + 1]
  BY <1>1
<1>4. \A i \in DOMAIN q : i = 1 \/ (i - 1 \in DOMAIN a /\ a[i - 1] = q[i])
  BY <1>1
<1>5. Elems(q) = {Head(q)} \cup Elems(a)
  BY <1>2, <1>3, <1>4 DEF Elems
<1>. QED BY <1>1, <1>2, <1>3, <1>5 DEF a, n

LEMMA Emptied == Elems(<<>>) = {} /\ \A K : <<>> \in Seq(K)
BY DEF Elems

LEMMA Typed == ASSUME NEW K, NEW q \in Seq(K) PROVE Elems(q) \subseteq K
BY DEF Elems

LEMMA OneMore ==
  ASSUME NEW K, NEW q \in Seq(K), NEW e \in K, NEW x
  PROVE  /\ Blank(q) /\ (e.id = 0 \/ e.id = x) => OneReply(Append(q, e), x)
         /\ OneReply(q, x) /\ e.id = 0 => OneReply(Append(q, e), x)
<1>. DEFINE a == Append(q, e)
            n == Len(q)
<1>1. /\ n \in Nat /\ DOMAIN q = 1 .. n
      /\ DOMAIN a = 1 .. n + 1 /\ a[n + 1] = e /\ \A i \in 1 .. n : a[i] = q[i]
  OBVIOUS
<1>2. Elems(a) = Elems(q) \cup {e}
  BY Appended
<1>. HIDE DEF a, n
<1>3. \A i \in DOMAIN a : i = n + 1 \/ (i \in DOMAIN q /\ a[i] = q[i])
  BY <1>1
<1>4. \A i \in DOMAIN q : q[i] \in Elems(q)
  BY DEF Elems
<1>5. ASSUME Blank(q), e.id = 0 \/ e.id = x PROVE OneReply(a, x)
  BY <1>2, <1>3, <1>4, <1>5 DEF Blank, OneReply
<1>6. ASSUME OneReply(q, x), e.id = 0 PROVE OneReply(a, x)
  BY <1>1, <1>2, <1>3, <1>6 DEF OneReply
<1>. QED BY <1>5, <1>6 DEF a

LEMMA OneLess ==
  ASSUME NEW K, NEW q \in Seq(K), q # <<>>, NEW x, OneReply(q, x)
  PROVE  /\ OneReply(Tail(q), x) /\ (Head(q).id # 0 => Blank(Tail(q)))
         /\ Head(q).id = 0 \/ Head(q).id = x
<1>. DEFINE a == Tail(q)
<1>1. /\ Elems(q) = {Head(q)} \cup Elems(a) /\ Len(q) \in Nat \ {0} /\ DOMAIN q = 1 .. Len(q)
      /\ Head(q) = q[1]
      /\ \A i \in DOMAIN a : i \in Nat \ {0} /\ i + 1 \in DOMAIN q /\ a[i] = q[i + 1]
  BY Tailed
<1>. HIDE DEF a
<1>2. 1 \in DOMAIN q
  BY <1>1
<1>3. \A i, j \in DOMAIN a : a[i].id # 0 /\ a[j].id # 0 => i = j
  <2>. TAKE i, j \in DOMAIN a
  <2>1. a[i].id # 0 /\ a[j].id # 0 => i + 1 = j + 1
    BY <1>1 DEF OneReply
  <2>. QED BY <1>1, <2>1
<1>4. Head(q).id # 0 => Blank(a)
  <2>. SUFFICES ASSUME Head(q).id # 0, NEW i \in DOMAIN a PROVE a[i].id = 0
    BY DEF Blank, Elems
  <2>1. i + 1 # 1
    BY <1>1
  <2>. QED BY <1>1, <1>2, <2>1 DEF OneReply
<1>. QED BY <1>1, <1>3, <1>4 DEF OneReply, a

-----------------------------------------------------------------------------
(* Types.                                                                  *)

LEMMA Mixed ==
  ASSUME TInv
  PROVE  /\ mix \in Mixes /\ mix.req \in Nat /\ mix.kinds \subseteq AllKinds
         /\ mix.conn \in Nat /\ mix.hit \in Nat /\ mix.late \in Nat
BY A2mControlAssumption DEF TInv, SockShape

\* A step that leaves the variables of a part alone keeps its shape.
LEMMA SockKept ==
  ASSUME TInv, UNCHANGED <<mix, sock, peer, srv, cur, reqQ, taken>>, count' \in CountKind(mix.req)
  PROVE  SockShape'
BY DEF TInv, SockShape, CountKind

LEMMA MainKept ==
  ASSUME TInv, UNCHANGED <<mix, respQ, main, seen, pump, d, disp, sess, passes>>
  PROVE  MainShape'
BY DEF TInv, MainShape

LEMMA WorkKept ==
  ASSUME TInv, UNCHANGED <<mix, wk, out, slots>>, cmdQ' \in Seq(CommandKind(mix.req)),
         evQ' \in Seq(EventKind(mix.req))
  PROVE  WorkShape'
BY DEF TInv, WorkShape

LEMMA Counted ==
  ASSUME TInv
  PROVE  /\ count \in CountKind(mix.req) /\ count.req \in 0 .. mix.req /\ count.conn \in Nat
         /\ count.hit \in Nat /\ count.late \in Nat
BY DEF TInv, SockShape, CountKind

LEMMA NoEntryIs ==
  ASSUME NEW n \in Nat
  PROVE  NoEntry \in EntryKind(n) /\ ~NoEntry.on
BY DEF NoEntry, EntryKind

LEMMA EntryIs ==
  ASSUME NEW n \in Nat, NEW e \in EntryKind(n)
  PROVE  /\ e.on \in BOOLEAN /\ e.id \in 0 .. n /\ e.tok \in Nat /\ e.ep \in Nat
         /\ e.kind \in AllKinds \cup {"none"} /\ e.expired \in BOOLEAN
         /\ e.on => e.kind \in AllKinds \cup {"none"}
         /\ ~e.on => e = NoEntry
BY DEF EntryKind

\* What one event does to the entry and to the responses.
Heard(e) ==
  \/ d' = d /\ respQ' = respQ
  \/ d' = d /\ respQ' = Append(respQ, Reply(0, "event", 0))
  \/ /\ d.on /\ d' = NoEntry /\ respQ' = Append(respQ, Reply(d.id, d.kind, e.src))
     /\ d.kind \in AllKinds /\ e.t # "sess"
     /\ d.kind \in Tokened => e.t \in Tokened /\ e.tok = d.tok

LEMMA MirrorIs ==
  ASSUME disp \in DispKind, NEW n, NEW e \in EventKind(n)
  PROVE  Mirror(e) \in DispKind
<1>1. e.on \in BOOLEAN /\ e.insp \in BOOLEAN
  BY DEF EventKind
<1>2. CASE e.t = "running"
  BY <1>2 DEF Mirror, DispKind
<1>3. CASE e.t = "mach"
  <2>. DEFINE x == disp.running /\ e.on
              y == disp.paused \/ ~e.on
  <2>0. e.t # "running" /\ e.t \notin Stopping /\ e.t # "imode"
    BY <1>3 DEF Stopping
  <2>1. Mirror(e) = [disp EXCEPT !.running = x, !.paused = y, !.insp = e.insp]
    BY <1>3, <2>0, Zenon DEF Mirror
  <2>2. x \in BOOLEAN /\ y \in BOOLEAN
    BY <1>1 DEF DispKind
  <2>. HIDE DEF x, y
  <2>. QED BY <1>1, <2>1, <2>2 DEF DispKind
<1>4. CASE e.t \in Stopping
  BY <1>4 DEF Mirror, DispKind, Stopping
<1>5. CASE e.t = "imode"
  BY <1>1, <1>5 DEF Mirror, DispKind, Stopping
<1>6. CASE e.t \notin {"running", "mach", "imode"} \cup Stopping
  BY <1>6 DEF Mirror, DispKind
<1>. QED BY <1>2, <1>3, <1>4, <1>5, <1>6

LEMMA HeardIs ==
  ASSUME TInv, NEW e \in EventKind(mix.req), OnRuntimeEvent(e)
  PROVE  /\ Heard(e) /\ disp' \in DispKind /\ d' \in EntryKind(mix.req)
         /\ respQ' \in Seq(ReplyKind(mix.req))
<1>. DEFINE m == Mirror(e)
<1>1. m \in DispKind
  BY MirrorIs DEF TInv, MainShape, DispKind
<1>2. mix.req \in Nat /\ d \in EntryKind(mix.req) /\ respQ \in Seq(ReplyKind(mix.req))
  BY Mixed DEF TInv, MainShape
<1>3. d.id \in 0 .. mix.req
  BY <1>2, EntryIs
<1>. HIDE DEF m
<1>4. CASE Completes(e)
  <2>1. /\ d.on /\ d.kind \in AllKinds /\ e.t # "sess"
        /\ d.kind \in Tokened => e.t \in Tokened /\ e.tok = d.tok
    BY <1>4 DEF Completes, Stopping, Tokened, AllKinds
  <2>2. /\ respQ' = Append(respQ, Reply(d.id, d.kind, e.src)) /\ d' = NoEntry
        /\ disp' = IF d.kind \in {"waitP", "waitE"}
                     THEN [m EXCEPT !.latch = FALSE, !.paused = @ /\ d.kind # "waitP"]
                     ELSE m
    BY <1>4 DEF OnRuntimeEvent, m
  <2>3. e.src \in 0 .. mix.req
    BY <2>1 DEF EventKind
  <2>4. Reply(d.id, d.kind, e.src) \in ReplyKind(mix.req)
    BY <1>3, <2>1, <2>3 DEF Reply, ReplyKind
  <2>5. disp' \in DispKind
    <3>. DEFINE y == m.paused /\ d.kind # "waitP"
    <3>1. y \in BOOLEAN
      BY <1>1 DEF DispKind
    <3>2. disp' = m \/ disp' = [m EXCEPT !.latch = FALSE, !.paused = y]
      BY <2>2
    <3>. HIDE DEF y
    <3>. QED BY <1>1, <3>1, <3>2 DEF DispKind
  <2>. QED BY <1>2, <2>1, <2>2, <2>4, <2>5, NoEntryIs, Appended DEF Heard
<1>5. CASE ~Completes(e)
  <2>1. /\ d' = d /\ disp' = m
        /\ respQ' = respQ \/ respQ' = Append(respQ, Reply(0, "event", 0))
    BY <1>5 DEF OnRuntimeEvent, m
  <2>2. Reply(0, "event", 0) \in ReplyKind(mix.req)
    BY <1>2 DEF Reply, ReplyKind
  <2>. QED BY <1>1, <1>2, <2>1, <2>2, Appended DEF Heard
<1>. QED BY <1>4, <1>5

\* Steps of the client and of the socket thread leave the rest alone.
LEMMA OthersShape ==
  ASSUME TInv, UNCHANGED <<mix, mainVars, workVars, evQ>>, respQ' \in Seq(ReplyKind(mix.req))
  PROVE  MainShape' /\ WorkShape'
<1>1. MainShape'
  BY DEF TInv, MainShape, mainVars
<1>2. WorkShape'
  BY DEF TInv, WorkShape, workVars
<1>. QED BY <1>1, <1>2

LEMMA ClientTInv ==
  ASSUME TInv, Connect \/ Hangup
  PROVE  TInv'
<1>1. /\ UNCHANGED <<mix, sock, srv, cur, reqQ, respQ, mainVars, workVars, evQ, taken>>
      /\ peer' \in {"open", "gone"}
      /\ count' = count \/ count' = [count EXCEPT !.conn = count.conn + 1]
  BY DEF Connect, Hangup
<1>2. MainShape' /\ WorkShape'
  BY <1>1, OthersShape DEF TInv, MainShape
<1>3. count' \in CountKind(mix.req)
  <2>. DEFINE c == count.conn + 1
  <2>1. c \in Nat
    BY Counted
  <2>2. count' = count \/ count' = [count EXCEPT !.conn = c]
    BY <1>1
  <2>. HIDE DEF c
  <2>. QED BY <2>1, <2>2, Counted DEF CountKind
<1>4. peer' \in PeerKind
  BY <1>1 DEF PeerKind
<1>5. SockShape'
  BY <1>1, <1>3, <1>4 DEF TInv, SockShape, CountKind
<1>. QED BY <1>2, <1>5 DEF TInv

LEMMA RepliesLeft ==
  ASSUME TInv
  PROVE  /\ <<>> \in Seq(ReplyKind(mix.req))
         /\ respQ # <<>> => Tail(respQ) \in Seq(ReplyKind(mix.req)) /\ Head(respQ) \in ReplyKind(mix.req)
BY Emptied, Tailed DEF TInv, MainShape

LEMMA TakenIs ==
  ASSUME TInv
  PROVE  /\ NoReply \in TakenKind
         /\ respQ # <<>> => \A x \in Nat : Taken(x) \in TakenKind
<1>1. NoReply \in TakenKind
  BY DEF NoReply, TakenKind
<1>2. ASSUME respQ # <<>>, NEW x \in Nat PROVE Taken(x) \in TakenKind
  <2>1. Head(respQ).id \in Nat
    BY <1>2, RepliesLeft, Mixed DEF ReplyKind
  <2>2. Head(respQ).k \in AllKinds \cup {"event", "accepted", "busy", "read-only", "timeout"}
    BY <1>2, RepliesLeft DEF ReplyKind
  <2>. QED BY <2>1, <2>2 DEF Taken, TakenKind
<1>. QED BY <1>1, <1>2

\* What a step of the socket thread must keep.
LEMMA SocketShape ==
  ASSUME TInv, UNCHANGED <<mix, reqQ, count, workVars, evQ, main, seen, pump, d, disp, sess>>,
         sock' \in SockPlaces,
         peer' \in {peer, "none"}, cur' \in {cur, 0}, passes' \in {passes, 0, Rushed},
         srv' \in SrvKind,
         taken' \in TakenKind, respQ' \in Seq(ReplyKind(mix.req))
  PROVE  TInv'
<1>1. mix.req \in Nat
  BY Mixed
<1>2. SockShape'
  <2>0. cur \in 0 .. mix.req /\ 0 \in 0 .. mix.req /\ peer \in PeerKind
    BY <1>1 DEF TInv, SockShape
  <2>1. cur' \in 0 .. mix.req /\ peer' \in PeerKind
    BY <2>0 DEF PeerKind
  <2>. QED BY <2>1 DEF TInv, SockShape, TakenKind
<1>3. MainShape'
  <2>1. passes' \in 0 .. 3
    BY DEF TInv, MainShape, Rushed
  <2>. QED BY <2>1 DEF TInv, MainShape
<1>4. WorkShape'
  BY DEF TInv, WorkShape, workVars
<1>. QED BY <1>2, <1>3, <1>4 DEF TInv

LEMMA SrvIs ==
  ASSUME srv \in SrvKind
  PROVE  /\ [srv EXCEPT !.epoch = @ + 1] \in SrvKind
         /\ [srv EXCEPT !.has = TRUE] \in SrvKind /\ [srv EXCEPT !.has = FALSE] \in SrvKind
         /\ [srv EXCEPT !.stopping = TRUE] \in SrvKind
         /\ [srv EXCEPT !.has = FALSE, !.epoch = @ + 1] \in SrvKind
         /\ srv.epoch \in Nat /\ srv.epoch + 1 \in Nat
<1>. DEFINE n == srv.epoch + 1
<1>1. n \in Nat /\ srv.epoch \in Nat
  BY DEF SrvKind
<1>2. /\ [srv EXCEPT !.epoch = @ + 1] = [srv EXCEPT !.epoch = n]
      /\ [srv EXCEPT !.has = FALSE, !.epoch = @ + 1] = [srv EXCEPT !.has = FALSE, !.epoch = n]
  OBVIOUS
<1>3. n = srv.epoch + 1
  OBVIOUS
<1>. HIDE DEF n
<1>. QED BY <1>1, <1>2, <1>3 DEF SrvKind

LEMMA SocketTInv ==
  ASSUME TInv, Socket \/ Leave
  PROVE  TInv'
<1>0. /\ srv \in SrvKind /\ taken \in TakenKind /\ cur \in Nat /\ 0 \in Nat
      /\ respQ \in Seq(ReplyKind(mix.req))
  BY Mixed DEF TInv, SockShape, MainShape, SrvKind, TakenKind
<1>. USE DEF sockVars, mainVars
<1>1. CASE Accept
  BY <1>0, <1>1, SrvIs, SocketShape DEF Accept, SockPlaces
<1>2. CASE Begin
  BY <1>0, <1>2, SrvIs, SocketShape, RepliesLeft DEF Begin, SockPlaces
<1>3. CASE FlushUnsolicited
  <2>1. taken' \in TakenKind
    BY <1>0, <1>3, TakenIs DEF FlushUnsolicited, None
  <2>. QED BY <1>0, <1>3, <2>1, SocketShape, RepliesLeft DEF FlushUnsolicited, TInv, SockShape
<1>4. CASE PeerGone
  <2>1. respQ' \in Seq(ReplyKind(mix.req))
    BY <1>0, <1>4, RepliesLeft DEF PeerGone
  <2>2. taken' \in TakenKind /\ srv' \in SrvKind /\ cur' = 0 /\ passes' \in {passes, 0}
        /\ sock' = "drain"
    BY <1>0, <1>4, SrvIs, TakenIs DEF PeerGone, NoteDisconnect, None
  <2>. QED BY <1>4, <2>1, <2>2, SocketShape DEF PeerGone, SockPlaces
<1>5. CASE TakeReply
  <2>1. respQ' \in Seq(ReplyKind(mix.req))
    BY <1>0, <1>5, RepliesLeft DEF TakeReply
  <2>2. taken' \in TakenKind /\ cur' \in {cur, 0} /\ sock' \in {"wait", "read"}
    BY <1>0, <1>5, TakenIs DEF TakeReply, None
  <2>. QED BY <1>0, <1>5, <2>1, <2>2, SocketShape DEF TakeReply, SockPlaces
<1>6. CASE DrainDiscard
  BY <1>0, <1>6, SocketShape, RepliesLeft DEF DrainDiscard, SrvKind, TInv, SockShape
<1>7. CASE DrainEnd
  BY <1>0, <1>7, SocketShape, RepliesLeft DEF DrainEnd, SockPlaces, TInv, SockShape
<1>8. CASE Close
  BY <1>0, <1>8, SocketShape DEF Close, SockPlaces
<1>9. CASE AcceptStopped
  BY <1>0, <1>9, SocketShape DEF AcceptStopped, SockPlaces
<1>10. CASE Leave
  <2>1. taken' \in TakenKind /\ srv' \in SrvKind /\ respQ' \in Seq(ReplyKind(mix.req)) /\ cur' = 0
    BY <1>0, <1>10, SrvIs, TakenIs, RepliesLeft DEF Leave, None
  <2>. QED BY <1>10, <2>1, SocketShape DEF Leave, SockPlaces
<1>. QED BY <1>1, <1>2, <1>3, <1>4, <1>5, <1>6, <1>7, <1>8, <1>9, <1>10 DEF Socket

LEMMA ReadRequestTInv ==
  ASSUME TInv, NEW k, ReadRequest(k)
  PROVE  TInv'
<1>. DEFINE c == count.req + 1
            r == [id |-> c, kind |-> k]
<1>1. /\ mix.req \in Nat /\ mix.kinds \subseteq AllKinds /\ count.req \in 0 .. mix.req
      /\ reqQ \in Seq(RequestKind(mix.req))
  BY Mixed DEF TInv, SockShape, CountKind
<1>2. c \in 1 .. mix.req /\ k \in AllKinds \ {"quit"}
  BY <1>1 DEF ReadRequest
<1>3. r \in RequestKind(mix.req)
  BY <1>2 DEF RequestKind
<1>4. /\ count' = [count EXCEPT !.req = c] /\ cur' = c /\ reqQ' = Append(reqQ, r)
      /\ sock' = "wait" /\ taken' = NoReply
      /\ UNCHANGED <<mix, peer, srv, respQ, mainVars, workVars, evQ>>
  BY DEF ReadRequest
<1>. HIDE DEF c, r
<1>5. reqQ' \in Seq(RequestKind(mix.req)) /\ cur' \in 0 .. mix.req
  BY <1>1, <1>2, <1>3, <1>4, Appended
<1>6. count' \in CountKind(mix.req)
  <2>1. c \in 0 .. mix.req
    BY <1>1, <1>2
  <2>2. count \in CountKind(mix.req)
    BY DEF TInv, SockShape
  <2>. QED BY <1>4, <2>1, <2>2 DEF CountKind
<1>7. SockShape'
  BY <1>4, <1>5, <1>6, TakenIs DEF TInv, SockShape, SockPlaces
<1>. QED BY <1>4, <1>7, OthersShape DEF TInv, MainShape

-----------------------------------------------------------------------------
(* The worker's events.                                                    *)

\* The events a command may lead to.
Following(c, n) ==
  {e \in EventKind(n) : /\ e.tok = 0 \/ e.tok = c.tok
                        /\ e.t \in Tokened => e.t = c.op /\ e.tok = c.tok /\ e.src = c.src
                        /\ e.t = "sess" => c.op = "open"}

LEMMA PlainFollows ==
  ASSUME NEW n \in Nat, NEW c, wk \in WkKind
  PROVE  /\ StateChanged \in Following(c, n)
         /\ \A t \in {"running", "paused", "stepc", "brk"} : Plain(t) \in Following(c, n)
         /\ \A on \in BOOLEAN : Event("imode", 0, 0, on) \in Following(c, n)
         /\ \A x \in 0 .. n, on, insp \in BOOLEAN : Machine(x, on, insp) \in Following(c, n)
<1>0. 0 \in 0 .. n
  OBVIOUS
<1>1. StateChanged \in Following(c, n)
  BY <1>0 DEF StateChanged, Event, Following, EventKind, Tokened
<1>2. ASSUME NEW t \in {"running", "paused", "stepc", "brk"} PROVE Plain(t) \in Following(c, n)
  BY <1>0 DEF Plain, Event, Following, EventKind, Tokened
<1>3. ASSUME NEW on \in BOOLEAN PROVE Event("imode", 0, 0, on) \in Following(c, n)
  BY <1>0 DEF Event, Following, EventKind, Tokened
<1>4. ASSUME NEW x \in 0 .. n, NEW on \in BOOLEAN, NEW insp \in BOOLEAN
      PROVE  Machine(x, on, insp) \in Following(c, n)
  <2>1. Machine(x, on, insp) = [t |-> "mach", tok |-> 0, src |-> x, on |-> on, insp |-> insp]
    BY DEF Machine, Event
  <2>2. Machine(x, on, insp) \in EventKind(n)
    BY <1>0, <2>1 DEF EventKind
  <2>3. Machine(x, on, insp).tok = 0 /\ Machine(x, on, insp).t = "mach"
    BY <2>1
  <2>. QED BY <2>2, <2>3 DEF Following, Tokened
<1>. QED BY <1>1, <1>2, <1>3, <1>4

LEMMA Tuples ==
  ASSUME NEW S, NEW a \in S, NEW b \in S, NEW c \in S
  PROVE  <<>> \in Seq(S) /\ <<a>> \in Seq(S) /\ <<a, b>> \in Seq(S) /\ <<a, b, c>> \in Seq(S)
OBVIOUS

LEMMA ResultingIs ==
  ASSUME NEW n \in Nat, NEW c \in CommandKind(n), NEW s \in Nat,
         wk \in WkKind
  PROVE  Resulting(c, s) \in Seq(Following(c, n))
<1>. DEFINE F == Following(c, n)
            R == Resulting(c, s)
<1>. SUFFICES R \in Seq(F)
  OBVIOUS
<1>1. /\ wk.run \in BOOLEAN /\ wk.insp \in BOOLEAN /\ FALSE \in BOOLEAN /\ TRUE \in BOOLEAN
      /\ c.tok \in Nat /\ 0 \in 0 .. n
  BY DEF CommandKind, WkKind
<1>2. /\ StateChanged \in F /\ Plain("running") \in F /\ Plain("paused") \in F
      /\ Plain("stepc") \in F /\ Event("imode", 0, 0, TRUE) \in F
      /\ Event("imode", 0, 0, FALSE) \in F /\ Machine(0, FALSE, wk.insp) \in F
      /\ Machine(0, wk.run, FALSE) \in F /\ Machine(0, FALSE, FALSE) \in F
      /\ Machine(0, FALSE, TRUE) \in F
  BY <1>1, PlainFollows
<1>3. c.op # "close" => c.src \in 0 .. n
  BY DEF CommandKind
<1>. HIDE DEF F
<1>3a. /\ <<Machine(0, FALSE, wk.insp), Plain("paused"), StateChanged>> \in Seq(F)
       /\ <<StateChanged, Plain("stepc"), Plain("paused")>> \in Seq(F)
       /\ <<StateChanged, Machine(0, wk.run, FALSE), Plain("running")>> \in Seq(F)
       /\ <<StateChanged, Machine(0, wk.run, FALSE), Plain("paused")>> \in Seq(F)
       /\ <<Machine(0, FALSE, TRUE), StateChanged, Event("imode", 0, 0, TRUE)>> \in Seq(F)
       /\ <<Machine(0, wk.run, FALSE), StateChanged, Event("imode", 0, 0, FALSE)>> \in Seq(F)
       /\ <<StateChanged>> \in Seq(F) /\ <<StateChanged, Plain("running")>> \in Seq(F)
       /\ <<Machine(0, FALSE, FALSE), Plain("paused")>> \in Seq(F) /\ <<>> \in Seq(F)
  BY <1>2, Tuples
<1>4. CASE c.op = "run"
  <2>1. R = IF wk.insp THEN <<StateChanged>> ELSE <<StateChanged, Plain("running")>>
    BY <1>4 DEF Resulting
  <2>. HIDE DEF R
  <2>. QED BY <1>3a, <2>1
<1>5. CASE c.op = "pause"
  <2>1. R = IF wk.run THEN <<Machine(0, FALSE, wk.insp), Plain("paused"), StateChanged>> ELSE <<>>
    BY <1>5 DEF Resulting
  <2>. HIDE DEF R
  <2>. QED BY <1>3a, <2>1
<1>6. CASE c.op = "step"
  <2>1. R = IF wk.run \/ wk.insp THEN <<StateChanged>>
            ELSE <<StateChanged, Plain("stepc"), Plain("paused")>>
    BY <1>6 DEF Resulting
  <2>. HIDE DEF R
  <2>. QED BY <1>3a, <2>1
<1>7. CASE c.op = "reset"
  <2>1. \/ R = <<>>
        \/ R = <<StateChanged, Machine(0, wk.run, FALSE), Plain("running")>>
        \/ R = <<StateChanged, Machine(0, wk.run, FALSE), Plain("paused")>>
    BY <1>7 DEF Resulting
  <2>. HIDE DEF R
  <2>. QED BY <1>3a, <2>1
<1>8. CASE c.op = "enter"
  <2>. DEFINE p == IF wk.run THEN <<Machine(0, FALSE, FALSE), Plain("paused")>> ELSE <<>>
              q == <<Machine(0, FALSE, TRUE), StateChanged, Event("imode", 0, 0, TRUE)>>
  <2>1. R = p \o q
    BY <1>8 DEF Resulting
  <2>2. p \in Seq(F) /\ q \in Seq(F)
    BY <1>3a
  <2>. HIDE DEF p, q
  <2>. QED BY <2>1, <2>2
<1>9. CASE c.op = "leave"
  <2>1. R = <<Machine(0, wk.run, FALSE), StateChanged, Event("imode", 0, 0, FALSE)>>
    BY <1>9 DEF Resulting
  <2>. HIDE DEF R
  <2>. QED BY <1>3a, <2>1
<1>10. CASE c.op \in Tokened
  <2>1. R = <<Event(c.op, c.tok, c.src, FALSE)>>
    BY <1>10 DEF Resulting, Tokened
  <2>2. Event(c.op, c.tok, c.src, FALSE) \in F
    BY <1>1, <1>3, <1>10 DEF Event, F, Following, EventKind, Tokened
  <2>. QED BY <2>1, <2>2, Tuples
<1>11. CASE c.op = "list"
  <2>1. R = <<Event("brk", 0, c.src, FALSE)>>
    BY <1>11 DEF Resulting
  <2>2. Event("brk", 0, c.src, FALSE) \in F
    BY <1>1, <1>3, <1>11 DEF Event, F, Following, EventKind, Tokened
  <2>. QED BY <2>1, <2>2, Tuples
<1>12. CASE c.op = "mach"
  <2>1. R = <<Machine(c.src, wk.run, wk.insp)>>
    BY <1>12 DEF Resulting
  <2>2. Machine(c.src, wk.run, wk.insp) \in F
    BY <1>1, <1>3, <1>12, PlainFollows DEF F
  <2>. QED BY <2>1, <2>2, Tuples
<1>13. CASE c.op = "open"
  <2>1. R = <<Event("sess", c.tok, s, s # 0)>>
    BY <1>13 DEF Resulting
  <2>2. Event("sess", c.tok, s, s # 0) \in F
    BY <1>1, <1>13 DEF Event, F, Following, EventKind, Tokened
  <2>. QED BY <2>1, <2>2, Tuples
<1>14. CASE c.op = "close"
  <2>1. R = <<>>
    BY <1>14 DEF Resulting
  <2>. HIDE DEF R
  <2>. QED BY <1>3a, <2>1
<1>. QED BY <1>4, <1>5, <1>6, <1>7, <1>8, <1>9, <1>10, <1>11, <1>12, <1>13, <1>14
         DEF CommandKind, Tokened

LEMMA FollowingOf ==
  ASSUME NEW n, NEW c, NEW q \in Seq(Following(c, n))
  PROVE  q \in Seq(EventKind(n)) /\ \A e \in Elems(q) : e \in Following(c, n)
<1>1. Following(c, n) \subseteq EventKind(n)
  BY DEF Following
<1>. QED BY <1>1, Typed

\* What the worker does with a command.
WorkerTook ==
  LET c == Head(cmdQ) IN
    /\ c \in CommandKind(mix.req) /\ cmdQ # <<>> /\ out = <<>> /\ cmdQ' = Tail(cmdQ)
    /\ out' \in Seq(EventKind(mix.req)) /\ \A e \in Elems(out') : e \in Following(c, mix.req)
    /\ UNCHANGED <<sockVars, respQ, mainVars, evQ, count, taken>>

LEMMA WorkerTakeTInv ==
  ASSUME TInv, WorkerTake
  PROVE  WorkerTook /\ TInv'
<1>. DEFINE c == Head(cmdQ)
            s == IF Cardinality(slots) < MaxSessions THEN FreshSession ELSE 0
<1>1. /\ mix.req \in Nat /\ cmdQ \in Seq(CommandKind(mix.req)) /\ cmdQ # <<>>
      /\ wk \in WkKind
  BY Mixed DEF TInv, WorkShape, WorkerTake
<1>2. c \in CommandKind(mix.req) /\ Tail(cmdQ) \in Seq(CommandKind(mix.req))
  BY <1>1, Tailed
<1>3. s \in Nat /\ (s # 0 => Cardinality(slots) < MaxSessions /\ s \notin slots)
  BY FreshSessionIs
<1>4. /\ out' = Resulting(c, s) /\ cmdQ' = Tail(cmdQ) /\ out = <<>>
      /\ UNCHANGED <<sockVars, respQ, mainVars, evQ, count, taken>>
  BY DEF WorkerTake
<1>5. wk' = CASE c.op = "run" -> [wk EXCEPT !.run = ~wk.insp]
              [] c.op = "pause" -> [wk EXCEPT !.run = FALSE]
              [] c.op = "enter" -> [run |-> FALSE, insp |-> TRUE]
              [] c.op = "leave" -> [wk EXCEPT !.insp = FALSE]
              [] OTHER -> wk
  BY DEF WorkerTake
<1>6. slots' \in {slots, slots \ {c.src}} \/ (s # 0 /\ slots' = slots \cup {s})
  <2>1. slots' = CASE c.op = "open" /\ s # 0 -> slots \cup {s}
                   [] c.op = "close" -> slots \ {c.src}
                   [] OTHER -> slots
    BY DEF WorkerTake
  <2>. HIDE DEF s, c
  <2>2. CASE c.op = "open" /\ s # 0
    BY <2>1, <2>2
  <2>3. CASE c.op = "close"
    BY <2>1, <2>3
  <2>4. CASE ~(c.op = "open" /\ s # 0) /\ c.op # "close"
    BY <2>1, <2>4
  <2>. QED BY <2>2, <2>3, <2>4
<1>. HIDE DEF s, c
<1>7. out' \in Seq(EventKind(mix.req)) /\ \A e \in Elems(out') : e \in Following(c, mix.req)
  BY <1>1, <1>2, <1>3, <1>4, ResultingIs, FollowingOf
<1>8. wk' \in WkKind
  <2>. DEFINE x == ~wk.insp
  <2>1. x \in BOOLEAN
    BY <1>1
  <2>2. CASE c.op = "run"
    <3>1. wk' = [wk EXCEPT !.run = x]
      BY <1>5, <2>2, Zenon
    <3>. HIDE DEF x
    <3>. QED BY <1>1, <2>1, <3>1 DEF WkKind
  <2>3. CASE c.op = "pause"
    BY <1>1, <1>5, <2>3 DEF WkKind
  <2>4. CASE c.op = "enter"
    BY <1>1, <1>5, <2>4 DEF WkKind
  <2>5. CASE c.op = "leave"
    BY <1>1, <1>5, <2>5 DEF WkKind
  <2>6. CASE c.op \notin {"run", "pause", "enter", "leave"}
    BY <1>1, <1>5, <2>6
  <2>. QED BY <2>2, <2>3, <2>4, <2>5, <2>6
<1>9. slots' \subseteq Nat /\ IsFiniteSet(slots') /\ Cardinality(slots') <= MaxSessions
  <2>1. /\ slots \subseteq Nat /\ IsFiniteSet(slots) /\ Cardinality(slots) <= MaxSessions
        /\ Cardinality(slots) \in Nat /\ MaxSessions \in Nat
    BY A2mControlAssumption, FS_CardinalityType DEF TInv, WorkShape
  <2>2. CASE slots' = slots \ {c.src}
    <3>1. IsFiniteSet(slots') /\ Cardinality(slots') =
            IF c.src \in slots THEN Cardinality(slots) - 1 ELSE Cardinality(slots)
      BY <2>1, <2>2, FS_RemoveElement
    <3>2. slots' \subseteq Nat
      BY <2>1, <2>2
    <3>3. Cardinality(slots') <= Cardinality(slots) /\ Cardinality(slots') \in Int
      BY <2>1, <3>1
    <3>. QED BY <2>1, <3>1, <3>2, <3>3
  <2>3. CASE s # 0 /\ slots' = slots \cup {s}
    <3>1. IsFiniteSet(slots') /\ Cardinality(slots') = Cardinality(slots) + 1
      BY <1>3, <2>1, <2>3, FS_AddElement
    <3>2. slots' \subseteq Nat
      BY <1>3, <2>1, <2>3
    <3>. QED BY <1>3, <2>1, <2>3, <3>1, <3>2
  <2>. QED BY <1>6, <2>1, <2>2, <2>3
<1>10. SockShape' /\ MainShape'
  BY <1>4, SockKept, MainKept, Counted DEF sockVars, mainVars
<1>11. WorkShape'
  BY <1>2, <1>4, <1>7, <1>8, <1>9 DEF TInv, WorkShape, sockVars
<1>12. WorkerTook
  BY <1>1, <1>2, <1>4, <1>7 DEF WorkerTook, c
<1>. QED BY <1>10, <1>11, <1>12 DEF TInv

LEMMA PublishTInv ==
  ASSUME TInv, Publish
  PROVE  /\ TInv' /\ Head(out) \in EventKind(mix.req)
         /\ Elems(out) = {Head(out)} \cup Elems(out')
         /\ Elems(evQ') = Elems(evQ) \cup {Head(out)}
         /\ UNCHANGED <<sockVars, respQ, mainVars, wk, cmdQ, slots, count, taken>>
<1>1. out \in Seq(EventKind(mix.req)) /\ out # <<>> /\ evQ \in Seq(EventKind(mix.req))
  BY DEF TInv, WorkShape, Publish
<1>2. /\ evQ' = Append(evQ, Head(out)) /\ out' = Tail(out)
      /\ UNCHANGED <<sockVars, respQ, mainVars, wk, cmdQ, slots, count, taken>>
  BY DEF Publish
<1>3. /\ Head(out) \in EventKind(mix.req) /\ Tail(out) \in Seq(EventKind(mix.req))
      /\ Elems(out) = {Head(out)} \cup Elems(Tail(out))
  BY <1>1, Tailed
<1>4. /\ Append(evQ, Head(out)) \in Seq(EventKind(mix.req))
      /\ Elems(Append(evQ, Head(out))) = Elems(evQ) \cup {Head(out)}
  BY <1>1, <1>3, Appended
<1>5. SockShape' /\ MainShape'
  BY <1>2, SockKept, MainKept, Counted DEF sockVars, mainVars
<1>6. WorkShape'
  BY <1>2, <1>3, <1>4 DEF TInv, WorkShape, sockVars
<1>. QED BY <1>2, <1>3, <1>4, <1>5, <1>6 DEF TInv

\* A command that no token asks for.
NoCommand == [op |-> "close", tok |-> 0, src |-> 0]

LEMMA BreakpointHitTInv ==
  ASSUME TInv, BreakpointHit
  PROVE  /\ TInv' /\ \A e \in Elems(out') : e \in Following(NoCommand, mix.req)
         /\ UNCHANGED <<sockVars, respQ, mainVars, cmdQ, slots, evQ, taken>>
         /\ count'.req = count.req
<1>. DEFINE h == count.hit + 1
            q == <<Machine(0, FALSE, wk.insp), Plain("paused"), Plain("brk")>>
<1>1. /\ mix.req \in Nat /\ wk \in WkKind /\ wk.insp \in BOOLEAN
      /\ count \in CountKind(mix.req) /\ h \in Nat
  <2>1. wk \in WkKind
    BY DEF TInv, WorkShape
  <2>2. count.hit \in Nat
    BY Counted
  <2>. QED BY <2>1, <2>2, Mixed, Counted DEF WkKind
<1>2. /\ wk' = [wk EXCEPT !.run = FALSE] /\ out' = q /\ count' = [count EXCEPT !.hit = h]
      /\ UNCHANGED <<sockVars, respQ, mainVars, cmdQ, slots, evQ, taken>>
  BY DEF BreakpointHit
<1>3. q \in Seq(Following(NoCommand, mix.req))
  <2>1. /\ Machine(0, FALSE, wk.insp) \in Following(NoCommand, mix.req)
        /\ Plain("paused") \in Following(NoCommand, mix.req)
        /\ Plain("brk") \in Following(NoCommand, mix.req)
    <3>1. 0 \in 0 .. mix.req /\ FALSE \in BOOLEAN
      BY <1>1
    <3>. QED BY <1>1, <3>1, PlainFollows
  <2>. HIDE DEF q
  <2>. QED BY <2>1, Tuples DEF q
<1>. HIDE DEF h, q
<1>4. out' \in Seq(EventKind(mix.req)) /\ \A e \in Elems(out') : e \in Following(NoCommand, mix.req)
  BY <1>2, <1>3, FollowingOf
<1>5. count' \in CountKind(mix.req) /\ count'.req = count.req
  BY <1>1, <1>2 DEF CountKind
<1>6. SockShape'
  BY <1>2, <1>5, SockKept DEF sockVars
<1>7. MainShape'
  BY <1>2, MainKept DEF sockVars, mainVars
<1>8. WorkShape'
  BY <1>1, <1>2, <1>4 DEF TInv, WorkShape, sockVars, WkKind
<1>. QED BY <1>2, <1>4, <1>5, <1>6, <1>7, <1>8 DEF TInv

-----------------------------------------------------------------------------
(* The main thread.                                                        *)

LEMMA Joined ==
  ASSUME NEW K, NEW q \in Seq(K), NEW e \in K
  PROVE  q \o <<e>> = Append(q, e) /\ q \o <<>> = q
OBVIOUS

Closing == Command("close", 0, sess.id)

\* What is put on the command queue keeps it typed.
LEMMA CommandIs ==
  ASSUME TInv
  PROVE  /\ Closing \in CommandKind(mix.req)
         /\ \A t \in Nat : Command("open", t, 0) \in CommandKind(mix.req)
         /\ \A t \in Nat, x \in 0 .. mix.req :
              \A op \in {"run", "pause", "step", "reset", "enter", "leave", "cpu", "list",
                         "mach", "hist"} : Command(op, t, x) \in CommandKind(mix.req)
         /\ cmdQ \in Seq(CommandKind(mix.req))
<1>1. sess.id \in Nat /\ mix.req \in Nat /\ 0 \in 0 .. mix.req
  BY Mixed DEF TInv, MainShape, SessKind
<1>2. Closing \in CommandKind(mix.req)
  BY <1>1 DEF Closing, Command, CommandKind
<1>3. ASSUME NEW t \in Nat PROVE Command("open", t, 0) \in CommandKind(mix.req)
  BY <1>1 DEF Command, CommandKind
<1>4. ASSUME NEW t \in Nat, NEW x \in 0 .. mix.req,
             NEW op \in {"run", "pause", "step", "reset", "enter", "leave", "cpu", "list",
                         "mach", "hist"}
      PROVE  Command(op, t, x) \in CommandKind(mix.req)
  BY DEF Command, CommandKind
<1>. QED BY <1>2, <1>3, <1>4 DEF TInv, WorkShape

LEMMA Posted ==
  ASSUME TInv, NEW t \in Nat, NEW x \in 0 .. mix.req,
         NEW op \in {"run", "pause", "step", "reset", "enter", "leave", "cpu", "list", "mach",
                    "hist"}
  PROVE  /\ Append(cmdQ, Command(op, t, x)) \in Seq(CommandKind(mix.req))
         /\ Elems(Append(cmdQ, Command(op, t, x))) = Elems(cmdQ) \cup {Command(op, t, x)}
<1>1. Command(op, t, x) \in CommandKind(mix.req) /\ cmdQ \in Seq(CommandKind(mix.req))
  BY CommandIs
<1>. QED BY <1>1, Appended

\* The commands of ensure_session: perhaps a close, then the open.
LEMMA OpenedWith ==
  ASSUME TInv, NEW t \in Nat, NEW c \in {<<>>, <<Closing>>}
  PROVE  /\ cmdQ \o c \in Seq(CommandKind(mix.req))
         /\ Elems(cmdQ \o c) \subseteq Elems(cmdQ) \cup {Closing}
         /\ cmdQ \o c \o <<Command("open", t, 0)>> \in Seq(CommandKind(mix.req))
         /\ Elems(cmdQ \o c \o <<Command("open", t, 0)>>)
              \subseteq Elems(cmdQ) \cup {Closing, Command("open", t, 0)}
<1>. DEFINE K == CommandKind(mix.req)
            o == Command("open", t, 0)
            b == cmdQ \o c
<1>1. cmdQ \in Seq(K) /\ Closing \in K /\ o \in K
  BY CommandIs
<1>. HIDE DEF K, o
<1>2. b = cmdQ \/ b = Append(cmdQ, Closing)
  <2>1. cmdQ \o <<Closing>> = Append(cmdQ, Closing) /\ cmdQ \o <<>> = cmdQ
    BY <1>1, Joined
  <2>. QED BY <2>1
<1>3. b \in Seq(K) /\ Elems(b) \subseteq Elems(cmdQ) \cup {Closing}
  <2>1. /\ Append(cmdQ, Closing) \in Seq(K)
        /\ Elems(Append(cmdQ, Closing)) = Elems(cmdQ) \cup {Closing}
    BY <1>1, Appended
  <2>. HIDE DEF b
  <2>2. CASE b = cmdQ
    BY <1>1, <2>2
  <2>3. CASE b = Append(cmdQ, Closing)
    BY <2>1, <2>3
  <2>. QED BY <1>2, <2>2, <2>3
<1>. HIDE DEF b
<1>4. b \o <<o>> = Append(b, o)
  BY <1>1, <1>3, Joined
<1>5. b \o <<o>> \in Seq(K) /\ Elems(b \o <<o>>) = Elems(b) \cup {o}
  <2>1. Append(b, o) \in Seq(K) /\ Elems(Append(b, o)) = Elems(b) \cup {o}
    BY <1>1, <1>3, Appended
  <2>. QED BY <1>4, <2>1
<1>6. Elems(b \o <<o>>) \subseteq Elems(cmdQ) \cup {Closing, o}
  BY <1>3, <1>5
<1>. QED BY <1>3, <1>5, <1>6 DEF K, b, o

LEMMA ReleaseIs == ReleaseCommands \in {<<>>, <<Closing>>}
BY DEF ReleaseCommands, Closing

\* The three things that become of a request.
Answered(r, at) ==
  /\ \E k \in {"accepted", "read-only", "busy", "waitP", "waitR", "waitE"} :
       respQ' = Append(respQ, Reply(r.id, k, r.id)) /\ (k = "busy" => d.on)
  /\ UNCHANGED <<d, pump, sess>> /\ main' = After(at)
  /\ \/ cmdQ' = cmdQ
     \/ /\ r.kind \in {"run", "pause", "step", "reset", "enter", "leave"}
        /\ cmdQ' = Append(cmdQ, Command(r.kind, 0, r.id))
Deferred(r, at) ==
  /\ ~d.on /\ UNCHANGED <<respQ, pump, sess>> /\ main' = After(at)
  /\ \/ r.kind \notin Tokened /\ cmdQ' = cmdQ /\ d' = Entry(r, 0)
     \/ /\ r.kind \in {"list", "mach"}
        /\ cmdQ' = Append(cmdQ, Command(r.kind, 0, r.id)) /\ d' = Entry(r, 0)
     \/ /\ r.kind \in Tokened
        /\ cmdQ' = Append(cmdQ, Command(r.kind, FreshToken, r.id)) /\ d' = Entry(r, FreshToken)
Opening(r, at, t) ==
  /\ r.kind = "hist" /\ ~d.on /\ srv.has /\ UNCHANGED respQ /\ main' = "pump"
  /\ d' = Entry(r, FreshToken) /\ sess' = [id |-> 0, ep |-> 0]
  /\ cmdQ' = cmdQ \o ReleaseCommands \o <<Command("open", t, 0)>>
  /\ pump' = [tok |-> t, ep |-> srv.epoch, ret |-> at, hid |-> r.id]
Second == Least(FreshTokens \ {FreshToken})

LEMMA AcceptedIs ==
  ASSUME disp \in DispKind, NEW r, NEW at, HandleAccepted(r), main' = After(at), UNCHANGED sess
  PROVE  Answered(r, at) /\ disp' \in DispKind
<1>1. CASE disp.insp /\ r.kind \in Forbidden
  BY <1>1 DEF HandleAccepted, Answer, Answered
<1>2. CASE ~(disp.insp /\ r.kind \in Forbidden)
  <2>1. Answered(r, at)
    BY <1>2 DEF HandleAccepted, Answer, Answered, Accepted
  <2>2. disp' \in DispKind
    BY <1>2 DEF HandleAccepted, DispKind
  <2>. QED BY <2>1, <2>2
<1>. QED BY <1>1, <1>2

LEMMA DeferredIs ==
  ASSUME disp \in DispKind, NEW r, NEW at, HandleDeferred(r), main' = After(at), UNCHANGED sess
  PROVE  (Answered(r, at) \/ Deferred(r, at)) /\ disp' \in DispKind
<1>1. CASE Busy(r)
  BY <1>1 DEF HandleDeferred, Busy, Answer, Answered
<1>2. CASE ~Busy(r)
  BY <1>2 DEF HandleDeferred, Deferred, Tokened
<1>. QED BY <1>1, <1>2

LEMMA WaitIs ==
  ASSUME disp \in DispKind, NEW r, NEW at, HandleWait(r), main' = After(at), UNCHANGED sess
  PROVE  (Answered(r, at) \/ Deferred(r, at)) /\ disp' \in DispKind
<1>. DEFINE y == disp.paused /\ r.kind # "waitP"
<1>1. r.kind \in {"waitP", "waitR", "waitE"}
  BY DEF HandleWait
<1>2. y \in BOOLEAN
  BY DEF DispKind
<1>3. \/ /\ Answer(r, r.kind) /\ UNCHANGED cmdQ
         /\ disp' = IF r.kind = "waitR" THEN disp
                    ELSE [disp EXCEPT !.latch = FALSE, !.paused = y]
      \/ Busy(r)
      \/ ~d.on /\ d' = Entry(r, 0) /\ UNCHANGED <<respQ, disp, cmdQ, pump>>
  BY DEF HandleWait
<1>4. CASE Busy(r)
  BY <1>4 DEF Busy, Answer, Answered
<1>5. CASE ~d.on /\ d' = Entry(r, 0) /\ UNCHANGED <<respQ, disp, cmdQ, pump>>
  BY <1>1, <1>5 DEF Deferred, Tokened
<1>6. CASE /\ Answer(r, r.kind) /\ UNCHANGED cmdQ
           /\ disp' = IF r.kind = "waitR" THEN disp
                      ELSE [disp EXCEPT !.latch = FALSE, !.paused = y]
  <2>1. Answered(r, at)
    BY <1>1, <1>6 DEF Answer, Answered
  <2>. HIDE DEF y
  <2>2. disp' \in DispKind
    BY <1>2, <1>6 DEF DispKind
  <2>. QED BY <2>1, <2>2
<1>. QED BY <1>3, <1>4, <1>5, <1>6

LEMMA PollIs ==
  ASSUME TInv, NEW at \in {"events", "poll2"}, Poll(at)
  PROVE  LET r == Head(reqQ) IN
         /\ main = at /\ PollPoint(at) /\ reqQ # <<>> /\ reqQ' = Tail(reqQ)
         /\ r \in RequestKind(mix.req) /\ disp' \in DispKind
         /\ passes' = IF at = "poll2" /\ passes < 2 THEN passes + 1 ELSE passes
         /\ UNCHANGED <<mix, sock, peer, srv, cur, seen, wk, out, slots, evQ, count, taken>>
         /\ Answered(r, at) \/ Deferred(r, at) \/ Opening(r, at, Second)
<1>. DEFINE r == Head(reqQ)
<1>1. disp \in DispKind /\ reqQ \in Seq(RequestKind(mix.req))
  BY DEF TInv, MainShape, SockShape
<1>2. /\ main = at /\ PollPoint(at) /\ reqQ # <<>> /\ reqQ' = Tail(reqQ)
      /\ passes' = IF at = "poll2" /\ passes < 2 THEN passes + 1 ELSE passes
      /\ UNCHANGED <<mix, sock, peer, srv, cur, seen, wk, out, slots, evQ, count, taken>>
  BY DEF Poll
<1>3. r \in RequestKind(mix.req)
  BY <1>1, <1>2, Tailed
<1>4. \/ /\ HandleAccepted(r) \/ HandleDeferred(r) \/ HandleWait(r)
         /\ main' = After(at) /\ UNCHANGED sess
      \/ r.kind = "hist" /\ Busy(r) /\ main' = After(at) /\ UNCHANGED sess
      \/ /\ r.kind = "hist" /\ ~d.on /\ d' = Entry(r, FreshToken) /\ UNCHANGED <<respQ, disp>>
         /\ IF NeedsOpen
              THEN /\ cmdQ' = cmdQ \o ReleaseCommands \o <<Command("open", Second, 0)>>
                   /\ sess' = [id |-> 0, ep |-> 0]
                   /\ pump' = [tok |-> Second, ep |-> srv.epoch, ret |-> at, hid |-> r.id]
                   /\ main' = "pump"
              ELSE /\ cmdQ' = Append(cmdQ, Command("hist", FreshToken, r.id))
                   /\ main' = After(at) /\ UNCHANGED <<sess, pump>>
  BY DEF Poll, Second
<1>. HIDE DEF r
<1>5. (Answered(r, at) \/ Deferred(r, at) \/ Opening(r, at, Second)) /\ disp' \in DispKind
  <2>1. CASE /\ HandleAccepted(r) \/ HandleDeferred(r) \/ HandleWait(r)
             /\ main' = After(at) /\ UNCHANGED sess
    BY <1>1, <2>1, AcceptedIs, DeferredIs, WaitIs
  <2>2. CASE r.kind = "hist" /\ Busy(r) /\ main' = After(at) /\ UNCHANGED sess
    BY <1>1, <2>2 DEF Busy, Answer, Answered
  <2>3. CASE /\ r.kind = "hist" /\ ~d.on /\ d' = Entry(r, FreshToken) /\ UNCHANGED <<respQ, disp>>
             /\ NeedsOpen
             /\ cmdQ' = cmdQ \o ReleaseCommands \o <<Command("open", Second, 0)>>
             /\ sess' = [id |-> 0, ep |-> 0]
             /\ pump' = [tok |-> Second, ep |-> srv.epoch, ret |-> at, hid |-> r.id]
             /\ main' = "pump"
    BY <1>1, <2>3 DEF Opening, NeedsOpen
  <2>4. CASE /\ r.kind = "hist" /\ ~d.on /\ d' = Entry(r, FreshToken) /\ UNCHANGED <<respQ, disp>>
             /\ cmdQ' = Append(cmdQ, Command("hist", FreshToken, r.id))
             /\ main' = After(at) /\ UNCHANGED <<sess, pump>>
    BY <1>1, <2>4 DEF Deferred, Tokened
  <2>. QED BY <1>4, <2>1, <2>2, <2>3, <2>4
<1>. QED BY <1>2, <1>3, <1>5 DEF r

LEMMA EntryTyped ==
  ASSUME TInv, NEW r \in RequestKind(mix.req), NEW t \in Nat
  PROVE  /\ Entry(r, t) \in EntryKind(mix.req) /\ Entry(r, t).on /\ Entry(r, t).id = r.id
         /\ Entry(r, t).tok = t /\ Entry(r, t).kind = r.kind /\ Entry(r, t).ep = srv.epoch
         /\ r.id \in 1 .. mix.req /\ r.id \in 0 .. mix.req /\ r.kind \in AllKinds
<1>1. mix.req \in Nat /\ srv.epoch \in Nat
  BY Mixed DEF TInv, SockShape, SrvKind
<1>2. r.id \in 1 .. mix.req /\ r.kind \in AllKinds
  BY DEF RequestKind
<1>3. r.id \in 0 .. mix.req
  BY <1>1, <1>2
<1>4. Entry(r, t) # NoEntry
  BY DEF Entry, NoEntry
<1>. QED BY <1>1, <1>2, <1>3, <1>4 DEF Entry, EntryKind

LEMMA PollTInv ==
  ASSUME TInv, NEW at \in {"events", "poll2"}, Poll(at)
  PROVE  TInv'
<1>. DEFINE r == Head(reqQ)
<1>1. /\ main = at /\ reqQ' = Tail(reqQ) /\ r \in RequestKind(mix.req) /\ disp' \in DispKind
      /\ passes' = IF at = "poll2" /\ passes < 2 THEN passes + 1 ELSE passes
      /\ UNCHANGED <<mix, sock, peer, srv, cur, seen, wk, out, slots, evQ, count, taken>>
      /\ Answered(r, at) \/ Deferred(r, at) \/ Opening(r, at, Second)
  BY PollIs
<1>2. reqQ' \in Seq(RequestKind(mix.req))
  <2>1. reqQ \in Seq(RequestKind(mix.req)) /\ reqQ # <<>>
    BY PollIs DEF TInv, SockShape
  <2>. QED BY <1>1, <2>1, Tailed
<1>3. SockShape'
  BY <1>1, <1>2 DEF TInv, SockShape
<1>4. passes' \in 0 .. 3
  <2>1. passes \in 0 .. 3
    BY DEF TInv, MainShape
  <2>. QED BY <1>1, <2>1
<1>5. FreshToken \in Nat /\ Second \in Nat /\ 0 \in Nat
  BY Fresh DEF Second
<1>. HIDE DEF r
<1>6. r.id \in 0 .. mix.req /\ Entry(r, 0) \in EntryKind(mix.req)
      /\ Entry(r, FreshToken) \in EntryKind(mix.req)
  BY <1>1, <1>5, EntryTyped
<1>7. /\ respQ \in Seq(ReplyKind(mix.req)) /\ cmdQ \in Seq(CommandKind(mix.req))
      /\ d \in EntryKind(mix.req) /\ pump \in PumpKind(mix.req) /\ sess \in SessKind
      /\ seen \in SeenKind /\ pump.ret = "none" /\ srv.epoch \in Nat /\ evQ \in Seq(EventKind(mix.req))
  BY <1>1 DEF TInv, MainShape, WorkShape, SockShape, SrvKind
<1>8. After(at) \in MainPlaces /\ After(at) # "pump"
  BY DEF After, MainPlaces
<1>9. CASE Answered(r, at)
  <2>1. PICK k \in {"accepted", "read-only", "busy", "waitP", "waitR", "waitE"} :
          respQ' = Append(respQ, Reply(r.id, k, r.id))
    BY <1>9 DEF Answered
  <2>2. Reply(r.id, k, r.id) \in ReplyKind(mix.req)
    BY <1>6 DEF Reply, ReplyKind, AllKinds
  <2>3. respQ' \in Seq(ReplyKind(mix.req))
    BY <1>7, <2>1, <2>2, Appended
  <2>4. cmdQ' \in Seq(CommandKind(mix.req))
    <3>1. CASE cmdQ' = cmdQ
      BY <1>7, <3>1
    <3>2. CASE /\ r.kind \in {"run", "pause", "step", "reset", "enter", "leave"}
               /\ cmdQ' = Append(cmdQ, Command(r.kind, 0, r.id))
      BY <1>5, <1>6, <3>2, Posted
    <3>. QED BY <1>9, <3>1, <3>2 DEF Answered
  <2>5. UNCHANGED <<d, pump, sess>> /\ main' = After(at)
    BY <1>9 DEF Answered
  <2>6. MainShape'
    BY <1>1, <1>4, <1>7, <1>8, <2>3, <2>5 DEF MainShape
  <2>. QED BY <1>1, <1>3, <1>7, <2>4, <2>6, WorkKept DEF TInv
<1>10. CASE Deferred(r, at)
  <2>1. cmdQ' \in Seq(CommandKind(mix.req))
    <3>1. CASE cmdQ' = cmdQ
      BY <1>7, <3>1
    <3>2. CASE r.kind \in {"list", "mach"} /\ cmdQ' = Append(cmdQ, Command(r.kind, 0, r.id))
      BY <1>5, <1>6, <3>2, Posted
    <3>3. CASE r.kind \in Tokened /\ cmdQ' = Append(cmdQ, Command(r.kind, FreshToken, r.id))
      BY <1>5, <1>6, <3>3, Posted DEF Tokened
    <3>. QED BY <1>10, <3>1, <3>2, <3>3 DEF Deferred
  <2>2. d' \in EntryKind(mix.req)
    BY <1>6, <1>10 DEF Deferred
  <2>3. UNCHANGED <<respQ, pump, sess>> /\ main' = After(at)
    BY <1>10 DEF Deferred
  <2>4. MainShape'
    BY <1>1, <1>4, <1>7, <1>8, <2>2, <2>3 DEF MainShape
  <2>. QED BY <1>1, <1>3, <1>7, <2>1, <2>4, WorkKept DEF TInv
<1>11. CASE Opening(r, at, Second)
  <2>1. cmdQ' \in Seq(CommandKind(mix.req))
    BY <1>5, <1>11, OpenedWith, ReleaseIs DEF Opening
  <2>2. pump' \in PumpKind(mix.req) /\ pump'.ret # "none" /\ sess' \in SessKind
    BY <1>5, <1>6, <1>7, <1>11 DEF Opening, PumpKind, SessKind
  <2>3. d' \in EntryKind(mix.req) /\ UNCHANGED respQ /\ main' = "pump"
    BY <1>6, <1>11 DEF Opening
  <2>4. main' \in MainPlaces
    BY <2>3 DEF MainPlaces
  <2>5. MainShape'
    BY <1>1, <1>4, <1>7, <2>2, <2>3, <2>4 DEF MainShape
  <2>. QED BY <1>1, <1>3, <1>7, <2>1, <2>5, WorkKept DEF TInv
<1>. QED BY <1>1, <1>9, <1>10, <1>11

LEMMA PollNothingTInv ==
  ASSUME TInv, NEW at \in {"events", "poll2"}, PollNothing(at)
  PROVE  TInv'
<1>1. /\ main = at /\ main' = After(at)
      /\ passes' = IF at = "poll2" /\ passes < 2 THEN passes + 1 ELSE passes
      /\ UNCHANGED <<sockVars, respQ, seen, pump, d, disp, sess, workVars, evQ, count, taken>>
  BY DEF PollNothing
<1>2. passes' \in 0 .. 3
  <2>1. passes \in 0 .. 3
    BY DEF TInv, MainShape
  <2>. QED BY <1>1, <2>1
<1>3. main' \in MainPlaces /\ main' # "pump" /\ main # "pump"
  BY <1>1 DEF After, MainPlaces
<1>4. MainShape'
  BY <1>1, <1>2, <1>3 DEF TInv, MainShape, sockVars
<1>5. SockShape' /\ WorkShape'
  BY <1>1, SockKept, WorkKept, Counted DEF sockVars, workVars, TInv, WorkShape
<1>. QED BY <1>4, <1>5 DEF TInv

LEMMA CheckTInv ==
  ASSUME TInv, CheckHasClient \/ CheckDeadline \/ Expire
  PROVE  TInv'
<1>0. /\ mix.req \in Nat /\ d \in EntryKind(mix.req) /\ respQ \in Seq(ReplyKind(mix.req))
      /\ srv.has \in BOOLEAN /\ seen \in SeenKind
  BY Mixed DEF TInv, MainShape, SockShape, SrvKind
<1>1. /\ UNCHANGED <<sockVars, pump, disp, sess, passes, workVars, evQ, count, taken>>
      /\ \/ main' = main
         \/ main' \in {"bind", "poll2"} /\ main \in {"check", "deadline"}
  BY DEF CheckHasClient, CheckDeadline, CheckDeadlineWith, Expire
<1>2. SockShape' /\ WorkShape'
  BY <1>1, SockKept, WorkKept, Counted DEF sockVars, workVars, TInv, WorkShape
<1>3. main' \in MainPlaces /\ (main' = "pump" <=> main = "pump")
  BY <1>1 DEF MainPlaces, TInv, MainShape
<1>4. seen' \in SeenKind /\ d' \in EntryKind(mix.req) /\ respQ' \in Seq(ReplyKind(mix.req))
  <2>1. CASE CheckHasClient
    BY <1>0, <2>1 DEF CheckHasClient, SeenKind
  <2>2. CASE CheckDeadline
    <3>1. /\ seen' = [has |-> FALSE, ep |-> 0] /\ d' \in {d, NoEntry}
          /\ respQ' = respQ \/ respQ' = Append(respQ, Reply(d.id, "timeout", d.id))
      BY <2>2 DEF CheckDeadline, CheckDeadlineWith, TimeoutPosted
    <3>2. Reply(d.id, "timeout", d.id) \in ReplyKind(mix.req)
      BY <1>0, EntryIs DEF Reply, ReplyKind
    <3>3. respQ' \in Seq(ReplyKind(mix.req))
      <4>1. Append(respQ, Reply(d.id, "timeout", d.id)) \in Seq(ReplyKind(mix.req))
        BY <1>0, <3>2, Appended
      <4>. QED BY <1>0, <3>1, <4>1
    <3>4. seen' \in SeenKind
      BY <3>1 DEF SeenKind
    <3>. QED BY <1>0, <3>1, <3>3, <3>4, NoEntryIs
  <2>3. CASE Expire
    <3>1. d.on /\ d' = [d EXCEPT !.expired = TRUE] /\ UNCHANGED <<seen, respQ>>
      BY <2>3 DEF Expire
    <3>2. d'.on /\ d' # NoEntry
      BY <1>0, <3>1 DEF EntryKind, NoEntry
    <3>3. d' \in EntryKind(mix.req)
      BY <1>0, <3>1, <3>2 DEF EntryKind
    <3>. QED BY <1>0, <3>1, <3>3
  <2>. QED BY <2>1, <2>2, <2>3
<1>5. MainShape'
  BY <1>1, <1>3, <1>4 DEF TInv, MainShape, sockVars
<1>. QED BY <1>2, <1>5 DEF TInv

\* What check_session does about the session.
Bind ==
  /\ main = "bind" /\ seen' = [seen EXCEPT !.ep = srv.epoch]
  /\ UNCHANGED <<sockVars, respQ, d, disp, passes, wk, out, slots, evQ, count, taken>>
  /\ sess' \in {sess, [id |-> 0, ep |-> 0]}
  /\ \E c \in {<<>>, <<Closing>>} :
       \/ /\ cmdQ' = cmdQ \o c \o <<Command("open", FreshToken, 0)>> /\ main' = "pump"
          /\ pump' = [tok |-> FreshToken, ep |-> srv.epoch, ret |-> "bind", hid |-> 0]
          /\ seen.has /\ srv.has
       \/ cmdQ' = cmdQ \o c /\ UNCHANGED pump /\ main' = "deadline"

LEMMA CheckBindTInv ==
  ASSUME TInv, CheckBind
  PROVE  Bind /\ TInv'
<1>1. Bind
  BY DEF CheckBind, Bind, Closing
<1>2. FreshToken \in Nat /\ srv.epoch \in Nat /\ mix.req \in Nat /\ pump.ret = "none"
      /\ seen \in SeenKind /\ pump \in PumpKind(mix.req)
  BY <1>1, Fresh, Mixed DEF Bind, TInv, SockShape, MainShape, SrvKind
<1>3. PICK c \in {<<>>, <<Closing>>} :
       \/ /\ cmdQ' = cmdQ \o c \o <<Command("open", FreshToken, 0)>> /\ main' = "pump"
          /\ pump' = [tok |-> FreshToken, ep |-> srv.epoch, ret |-> "bind", hid |-> 0]
       \/ cmdQ' = cmdQ \o c /\ UNCHANGED pump /\ main' = "deadline"
  BY <1>1 DEF Bind
<1>4. cmdQ' \in Seq(CommandKind(mix.req))
  BY <1>2, <1>3, OpenedWith
<1>5. pump' \in PumpKind(mix.req) /\ (main' = "pump" <=> pump'.ret # "none") /\ main' \in MainPlaces
  <2>. DEFINE p == [tok |-> FreshToken, ep |-> srv.epoch, ret |-> "bind", hid |-> 0]
  <2>1. 0 \in 0 .. mix.req
    BY <1>2
  <2>2. p \in PumpKind(mix.req) /\ p.ret = "bind"
    BY <1>2, <2>1 DEF PumpKind
  <2>3. "pump" \in MainPlaces /\ "deadline" \in MainPlaces
    BY DEF MainPlaces
  <2>4. \/ pump' = p /\ main' = "pump"
        \/ pump' = pump /\ main' = "deadline"
    BY <1>3
  <2>. HIDE DEF p
  <2>. QED BY <1>2, <2>2, <2>3, <2>4
<1>6. sess' \in SessKind /\ seen' \in SeenKind
  <2>1. sess \in SessKind /\ [id |-> 0, ep |-> 0] \in SessKind
    BY DEF TInv, MainShape, SessKind
  <2>2. sess' \in SessKind
    BY <1>1, <2>1 DEF Bind
  <2>3. seen' = [seen EXCEPT !.ep = srv.epoch]
    BY <1>1 DEF Bind
  <2>4. seen' \in SeenKind
    BY <1>2, <2>3 DEF SeenKind
  <2>. QED BY <2>2, <2>4
<1>7. MainShape'
  BY <1>1, <1>5, <1>6 DEF Bind, TInv, MainShape, sockVars
<1>8. SockShape' /\ WorkShape'
  BY <1>1, <1>4, SockKept, WorkKept, Counted DEF Bind, sockVars, TInv, WorkShape
<1>. QED BY <1>1, <1>7, <1>8 DEF TInv

\* Back from ensure_session.
LEMMA PumpReturnIs ==
  ASSUME TInv, main = "pump", PumpReturn(d)
  PROVE  /\ main' \in MainPlaces /\ main' \in {"deadline", "check", "events"} /\ pump' = NoPump
         /\ pump' \in PumpKind(mix.req) /\ pump'.ret = "none"
         /\ \/ pump.ret = "bind" /\ main' = "deadline" /\ cmdQ' = cmdQ
            \/ /\ pump.ret \in {"events", "poll2"} /\ main' = After(pump.ret)
               /\ cmdQ' = Append(cmdQ, Command("hist", d.tok, pump.hid))
         /\ cmdQ' \in Seq(CommandKind(mix.req))
<1>1. /\ pump \in PumpKind(mix.req) /\ pump.ret # "none" /\ d \in EntryKind(mix.req)
      /\ mix.req \in Nat /\ cmdQ \in Seq(CommandKind(mix.req))
  BY Mixed DEF TInv, MainShape, WorkShape
<1>2. d.tok \in Nat /\ pump.hid \in 0 .. mix.req /\ pump.ret \in {"events", "poll2", "bind"}
  BY <1>1, EntryIs DEF PumpKind
<1>3. pump' = NoPump
  BY DEF PumpReturn
<1>4. pump' \in PumpKind(mix.req) /\ pump'.ret = "none"
  <2>1. 0 \in 0 .. mix.req
    BY <1>1
  <2>. QED BY <1>3, <2>1 DEF NoPump, PumpKind
<1>5. CASE pump.ret = "bind"
  BY <1>1, <1>3, <1>4, <1>5 DEF PumpReturn, MainPlaces
<1>6. CASE pump.ret \in {"events", "poll2"}
  <2>1. main' = After(pump.ret) /\ cmdQ' = Append(cmdQ, Command("hist", d.tok, pump.hid))
    BY <1>6 DEF PumpReturn
  <2>2. cmdQ' \in Seq(CommandKind(mix.req))
    BY <1>2, <2>1, Posted
  <2>. QED BY <1>3, <1>4, <1>6, <2>1, <2>2 DEF After, MainPlaces
<1>. QED BY <1>2, <1>5, <1>6

LEMMA EventTaken ==
  ASSUME TInv, evQ # <<>>
  PROVE  /\ Head(evQ) \in EventKind(mix.req) /\ Tail(evQ) \in Seq(EventKind(mix.req))
         /\ Elems(evQ) = {Head(evQ)} \cup Elems(Tail(evQ))
<1>1. evQ \in Seq(EventKind(mix.req))
  BY DEF TInv, WorkShape
<1>. QED BY <1>1, Tailed

LEMMA DrainEventTInv ==
  ASSUME TInv, DrainEvent
  PROVE  TInv' /\ Heard(Head(evQ))
<1>1. /\ evQ # <<>> /\ evQ' = Tail(evQ) /\ OnRuntimeEvent(Head(evQ))
      /\ UNCHANGED <<sockVars, main, seen, pump, sess, passes, workVars, count, taken>>
  BY DEF DrainEvent
<1>2. /\ Heard(Head(evQ)) /\ disp' \in DispKind /\ d' \in EntryKind(mix.req)
      /\ respQ' \in Seq(ReplyKind(mix.req))
  BY <1>1, EventTaken, HeardIs
<1>3. MainShape'
  BY <1>1, <1>2 DEF TInv, MainShape, sockVars
<1>4. SockShape' /\ WorkShape'
  BY <1>1, EventTaken, SockKept, WorkKept, Counted DEF sockVars, workVars, TInv, WorkShape
<1>. QED BY <1>2, <1>3, <1>4 DEF TInv

\* An event that ensure_session takes: its grant, or one for the dispatcher.
LEMMA PumpEventTInv ==
  ASSUME TInv, PumpEvent
  PROVE  /\ TInv' /\ main = "pump" /\ evQ # <<>> /\ evQ' = Tail(evQ)
         /\ UNCHANGED <<sockVars, seen, passes, wk, out, slots, count, taken>>
         /\ \/ PumpReturn(d) /\ UNCHANGED <<respQ, d>>
            \/ Heard(Head(evQ)) /\ UNCHANGED <<pump, main, cmdQ>>
<1>. DEFINE e == Head(evQ)
<1>1. /\ main = "pump" /\ evQ # <<>> /\ evQ' = Tail(evQ)
      /\ UNCHANGED <<sockVars, seen, passes, wk, out, slots, count, taken>>
  BY DEF PumpEvent
<1>2. /\ e \in EventKind(mix.req) /\ evQ' \in Seq(EventKind(mix.req))
      /\ e.t = "sess" => e.src \in Nat
  <2>1. e \in EventKind(mix.req) /\ evQ' \in Seq(EventKind(mix.req))
    BY <1>1, EventTaken
  <2>. QED BY <2>1 DEF EventKind
<1>3. SockShape'
  BY <1>1, SockKept, Counted DEF sockVars
<1>4. CASE e.t = "sess" /\ e.tok = pump.tok
  <2>1. /\ sess' = IF e.on THEN [id |-> e.src, ep |-> pump.ep] ELSE sess
        /\ PumpReturn(d) /\ UNCHANGED <<respQ, disp, d>>
    BY <1>4 DEF PumpEvent
  <2>2. sess' \in SessKind
    <3>1. sess \in SessKind /\ pump.ep \in Nat
      BY DEF TInv, MainShape, PumpKind
    <3>. QED BY <1>2, <1>4, <2>1, <3>1 DEF SessKind
  <2>3. /\ main' \in MainPlaces /\ main' # "pump" /\ pump' \in PumpKind(mix.req)
        /\ pump'.ret = "none" /\ cmdQ' \in Seq(CommandKind(mix.req))
    BY <1>1, <2>1, PumpReturnIs
  <2>4. MainShape'
    BY <1>1, <2>1, <2>2, <2>3 DEF TInv, MainShape, sockVars
  <2>5. WorkShape'
    BY <1>1, <1>2, <2>3, WorkKept DEF sockVars
  <2>. QED BY <1>1, <1>3, <2>1, <2>4, <2>5 DEF TInv
<1>5. CASE ~(e.t = "sess" /\ e.tok = pump.tok)
  <2>1. OnRuntimeEvent(e) /\ UNCHANGED <<sess, pump, main, cmdQ>>
    BY <1>5 DEF PumpEvent
  <2>2. /\ Heard(e) /\ disp' \in DispKind /\ d' \in EntryKind(mix.req)
        /\ respQ' \in Seq(ReplyKind(mix.req))
    BY <1>2, <2>1, HeardIs
  <2>3. MainShape'
    BY <1>1, <2>1, <2>2 DEF TInv, MainShape, sockVars
  <2>4. WorkShape'
    BY <1>1, <1>2, <2>1, WorkKept DEF sockVars, TInv, WorkShape
  <2>. QED BY <1>1, <1>3, <2>1, <2>2, <2>3, <2>4 DEF TInv
<1>. QED BY <1>4, <1>5

LEMMA PumpTimeoutTInv ==
  ASSUME TInv, PumpTimeout
  PROVE  TInv'
<1>. DEFINE c == count.late + 1
<1>1. /\ main = "pump" /\ count' = [count EXCEPT !.late = c] /\ PumpReturn(d)
      /\ UNCHANGED <<sockVars, respQ, seen, d, disp, sess, passes, wk, out, slots, evQ, taken>>
  BY DEF PumpTimeout
<1>2. c \in Nat /\ count \in CountKind(mix.req)
  BY Counted
<1>. HIDE DEF c
<1>3. count' \in CountKind(mix.req)
  BY <1>1, <1>2 DEF CountKind
<1>4. /\ main' \in MainPlaces /\ main' # "pump" /\ pump' \in PumpKind(mix.req)
      /\ pump'.ret = "none" /\ cmdQ' \in Seq(CommandKind(mix.req))
  BY <1>1, PumpReturnIs
<1>5. MainShape'
  BY <1>1, <1>4 DEF TInv, MainShape, sockVars
<1>6. SockShape' /\ WorkShape'
  BY <1>1, <1>3, <1>4, SockKept, WorkKept DEF sockVars, TInv, WorkShape
<1>. QED BY <1>5, <1>6 DEF TInv

LEMMA EndingTInv ==
  ASSUME TInv, Quit \/ Stop \/ Join
  PROVE  TInv'
<1>0. /\ mix.req \in Nat /\ srv \in SrvKind /\ peer \in PeerKind /\ sess \in SessKind
      /\ [id |-> 0, ep |-> 0] \in SessKind
  BY Mixed DEF TInv, SockShape, MainShape, SessKind
<1>1. CASE Quit
  <2>1. /\ main = "events" /\ main' = "stop" /\ d' = NoEntry /\ sess' = [id |-> 0, ep |-> 0]
        /\ cmdQ' = cmdQ \o ReleaseCommands
        /\ UNCHANGED <<sockVars, respQ, seen, pump, disp, passes, wk, out, slots, evQ, count,
                       taken>>
    BY <1>1 DEF Quit
  <2>2. cmdQ' \in Seq(CommandKind(mix.req))
    <3>1. 0 \in Nat
      OBVIOUS
    <3>. QED BY <2>1, <3>1, OpenedWith, ReleaseIs
  <2>3. main' \in MainPlaces /\ main' # "pump" /\ main # "pump"
    BY <2>1 DEF MainPlaces
  <2>4. MainShape'
    BY <1>0, <2>1, <2>3, NoEntryIs DEF TInv, MainShape, sockVars
  <2>5. SockShape' /\ WorkShape'
    BY <2>1, <2>2, SockKept, WorkKept, Counted DEF sockVars, TInv, WorkShape
  <2>. QED BY <2>4, <2>5 DEF TInv
<1>2. CASE Stop
  <2>1. /\ main = "stop" /\ main' = "join" /\ srv' = [srv EXCEPT !.stopping = TRUE]
        /\ peer' \in {peer, "gone"}
        /\ UNCHANGED <<mix, sock, cur, reqQ, respQ, seen, pump, d, disp, sess, passes,
                       workVars, evQ, count, taken>>
    BY <1>2 DEF Stop
  <2>2. srv' \in SrvKind /\ peer' \in PeerKind
    BY <1>0, <2>1, SrvIs DEF PeerKind
  <2>3. main' \in MainPlaces /\ main' # "pump" /\ main # "pump"
    BY <2>1 DEF MainPlaces
  <2>4. MainShape'
    BY <2>1, <2>3 DEF TInv, MainShape
  <2>5. SockShape'
    BY <2>1, <2>2 DEF TInv, SockShape
  <2>6. WorkShape'
    BY <2>1, WorkKept DEF workVars, TInv, WorkShape
  <2>. QED BY <2>4, <2>5, <2>6 DEF TInv
<1>3. CASE Join
  <2>1. /\ main = "join" /\ main' = "end" /\ reqQ' = <<>> /\ respQ' = <<>>
        /\ UNCHANGED <<mix, sock, peer, srv, cur, seen, pump, d, disp, sess, passes,
                       workVars, evQ, count, taken>>
    BY <1>3 DEF Join
  <2>3. main' \in MainPlaces /\ main' # "pump" /\ main # "pump"
    BY <2>1 DEF MainPlaces
  <2>4. MainShape'
    BY <2>1, <2>3, Emptied DEF TInv, MainShape
  <2>5. SockShape'
    BY <2>1, Emptied DEF TInv, SockShape
  <2>6. WorkShape'
    BY <2>1, WorkKept DEF workVars, TInv, WorkShape
  <2>. QED BY <2>4, <2>5, <2>6 DEF TInv
<1>. QED BY <1>1, <1>2, <1>3

LEMMA NextTInv == ASSUME TInv, Next PROVE TInv'
<1>1. CASE Connect \/ Hangup
  BY <1>1, ClientTInv
<1>2. CASE Socket \/ Leave
  BY <1>2, SocketTInv
<1>3. CASE \E k \in mix.kinds : ReadRequest(k)
  BY <1>3, ReadRequestTInv
<1>4. CASE Worker \/ BreakpointHit
  BY <1>4, WorkerTakeTInv, PublishTInv, BreakpointHitTInv DEF Worker
<1>5. CASE Main \/ PumpTimeout \/ Expire \/ Quit
  BY <1>5, DrainEventTInv, CheckTInv, CheckBindTInv, PumpEventTInv, PumpTimeoutTInv, EndingTInv,
     PollTInv, PollNothingTInv DEF Main
<1>6. CASE Ended
  BY <1>6 DEF Ended, vars, TInv, SockShape, MainShape, WorkShape
<1>. QED BY <1>1, <1>2, <1>3, <1>4, <1>5, <1>6 DEF Next

LEMMA InitTInv == ASSUME Init PROVE TInv
<1>1. mix \in Mixes /\ mix.req \in Nat
  BY A2mControlAssumption DEF Init
<1>2. 0 \in 0 .. mix.req
  BY <1>1
<1>3. SockShape
  BY <1>1, <1>2 DEF Init, SockShape, SockPlaces, PeerKind, SrvKind, CountKind, TakenKind, None,
     NoReply
<1>4. MainShape
  BY <1>1, <1>2, NoEntryIs DEF Init, MainShape, MainPlaces, SeenKind, PumpKind, NoPump, DispKind,
     SessKind
<1>5. WorkShape
  BY <1>1, A2mControlAssumption, FS_EmptySet DEF Init, WorkShape, WkKind
<1>. QED BY <1>3, <1>4, <1>5 DEF TInv

LEMMA TInvTypes == ASSUME TInv PROVE TypeOK
<1>1. ReplyKind(mix.req) = Replies
  BY DEF ReplyKind, Replies
<1>2. sess.id \in Nat
  BY DEF TInv, MainShape, SessKind
<1>. QED BY <1>1, <1>2 DEF TypeOK, TInv, SockShape, MainShape, WorkShape, SockPlaces, PeerKind,
     SrvKind, RequestKind, MainPlaces, EntryKind, DispKind

LEMMA Typing == Spec => []TInv
<1>1. TInv /\ [Next]_vars => TInv'
  <2>1. CASE Next
    BY <2>1, NextTInv
  <2>2. CASE UNCHANGED vars
    BY <2>2 DEF vars, TInv, SockShape, MainShape, WorkShape
  <2>. QED BY <2>1, <2>2
<1>. QED BY <1>1, InitTInv, PTL DEF Spec

\* The program's state is of its type: responses in particular are ones that
\* control_dispatch.c can build, with the id of a request that was read.
THEOREM TypeCorrect == Spec => []TypeOK
BY Typing, TInvTypes, PTL

-----------------------------------------------------------------------------
(* Tokened data.                                                           *)

\* Nothing new is under way.
LEMMA KKept ==
  ASSUME KInv, UNCHANGED <<d, pump>>, Elems(cmdQ') \subseteq Elems(cmdQ), FreshReplies(respQ'),
         Elems(out') \cup Elems(evQ') \subseteq Elems(out) \cup Elems(evQ)
  PROVE  KInv'
BY DEF KInv, AskedFor, ToldFor, Without

LEMMA NoneFresh == FreshReplies(<<>>)
BY Emptied DEF FreshReplies

LEMMA FreshTail ==
  ASSUME TInv, KInv, respQ # <<>>
  PROVE  FreshReplies(Tail(respQ))
<1>1. Elems(respQ) = {Head(respQ)} \cup Elems(Tail(respQ))
  BY Tailed DEF TInv, MainShape
<1>. QED BY <1>1 DEF KInv, FreshReplies

LEMMA FreshAppend ==
  ASSUME TInv, KInv, NEW x \in 0 .. mix.req, NEW y \in 0 .. mix.req,
         NEW k \in AllKinds \cup {"event", "accepted", "busy", "read-only", "timeout"},
         k \in Tokened => x = y
  PROVE  FreshReplies(Append(respQ, Reply(x, k, y)))
<1>. DEFINE r == Reply(x, k, y)
<1>1. r \in ReplyKind(mix.req) /\ r.id = x /\ r.src = y /\ r.k = k
  BY DEF Reply, ReplyKind
<1>. HIDE DEF r
<1>2. Elems(Append(respQ, r)) = Elems(respQ) \cup {r}
  BY <1>1, Appended DEF TInv, MainShape
<1>3. FreshReplies(Append(respQ, r))
  BY <1>1, <1>2 DEF KInv, FreshReplies
<1>. QED BY <1>3 DEF r

LEMMA OutsideKInv ==
  ASSUME TInv, KInv, Connect \/ Hangup \/ Socket \/ Leave \/ (\E k \in mix.kinds : ReadRequest(k))
  PROVE  KInv'
<1>1. UNCHANGED <<d, pump, cmdQ, out, evQ>>
  BY DEF Connect, Hangup, Socket, Leave, ReadRequest, Accept, Begin, FlushUnsolicited, PeerGone,
     TakeReply, DrainDiscard, DrainEnd, Close, AcceptStopped, mainVars, workVars
<1>2. \/ respQ' = respQ \/ respQ' = <<>>
      \/ respQ # <<>> /\ respQ' = Tail(respQ)
  BY DEF Connect, Hangup, Socket, Leave, ReadRequest, Accept, Begin, FlushUnsolicited, PeerGone,
     TakeReply, DrainDiscard, DrainEnd, Close, AcceptStopped
<1>3. FreshReplies(respQ')
  BY <1>2, NoneFresh, FreshTail DEF KInv
<1>. QED BY <1>1, <1>3, KKept

LEMMA WorkerKInv ==
  ASSUME TInv, KInv, Worker \/ BreakpointHit
  PROVE  KInv'
<1>1. CASE WorkerTake
  <2>. DEFINE c == Head(cmdQ)
  <2>1. /\ c \in CommandKind(mix.req) /\ cmdQ # <<>> /\ cmdQ' = Tail(cmdQ)
        /\ \A e \in Elems(out') : e \in Following(c, mix.req)
        /\ UNCHANGED <<respQ, d, pump, evQ>>
    BY <1>1, WorkerTakeTInv DEF WorkerTook, mainVars
  <2>2. Elems(cmdQ) = {c} \cup Elems(cmdQ')
    BY <2>1, Tailed DEF TInv, WorkShape
  <2>. HIDE DEF c
  <2>3. ASSUME d.on /\ d.kind \in Tokened
        PROVE  AskedFor(cmdQ', d.tok, d.id) /\ ToldFor(out', d.tok, d.id)
    <3>1. AskedFor(cmdQ, d.tok, d.id)
      BY <2>3 DEF KInv
    <3>. QED BY <2>1, <2>2, <3>1 DEF AskedFor, ToldFor, Following
  <2>4. ASSUME pump.ret \in {"events", "poll2"}
        PROVE  Without(cmdQ', d.tok) /\ Without(out', d.tok)
    <3>1. Without(cmdQ, d.tok) /\ d.tok # 0
      BY <2>4 DEF KInv
    <3>. QED BY <2>1, <2>2, <3>1 DEF Without, Following
  <2>. QED BY <2>1, <2>3, <2>4 DEF KInv
<1>2. CASE Publish
  <2>1. /\ Elems(out) = {Head(out)} \cup Elems(out') /\ Elems(evQ') = Elems(evQ) \cup {Head(out)}
        /\ UNCHANGED <<d, pump, cmdQ, respQ>>
    BY <1>2, PublishTInv DEF mainVars
  <2>. QED BY <2>1, KKept DEF KInv
<1>3. CASE BreakpointHit
  <2>1. /\ \A e \in Elems(out') : e \in Following(NoCommand, mix.req)
        /\ UNCHANGED <<d, pump, cmdQ, respQ, evQ>>
    BY <1>3, BreakpointHitTInv DEF mainVars
  <2>2. \A e \in Elems(out') : e.t \notin Tokened /\ e.tok = 0
    BY <2>1 DEF Following, NoCommand, Tokened
  <2>. QED BY <2>1, <2>2 DEF KInv, ToldFor, Without
<1>. QED BY <1>1, <1>2, <1>3 DEF Worker

\* An event for the dispatcher; the entry ensure_session runs for stays.
LEMMA HeardKInv ==
  ASSUME TInv, KInv, evQ # <<>>, evQ' = Tail(evQ), Heard(Head(evQ)), UNCHANGED <<pump, cmdQ, out>>
  PROVE  KInv'
<1>. DEFINE e == Head(evQ)
<1>1. e \in EventKind(mix.req) /\ Elems(evQ) = {e} \cup Elems(evQ')
  BY EventTaken
<1>2. 0 \in 0 .. mix.req /\ d.id \in 0 .. mix.req /\ mix.req \in Nat
  BY Mixed, EntryIs DEF TInv, MainShape
<1>3. CASE d' = d /\ respQ' = respQ
  BY <1>1, <1>3, KKept DEF KInv
<1>4. CASE d' = d /\ respQ' = Append(respQ, Reply(0, "event", 0))
  <2>1. FreshReplies(respQ')
    BY <1>2, <1>4, FreshAppend
  <2>. QED BY <1>1, <1>4, <2>1, KKept
<1>5. CASE /\ d.on /\ d' = NoEntry /\ respQ' = Append(respQ, Reply(d.id, d.kind, e.src))
           /\ d.kind \in AllKinds /\ e.t # "sess"
           /\ d.kind \in Tokened => e.t \in Tokened /\ e.tok = d.tok
  <2>1. e.src \in 0 .. mix.req
    BY <1>1, <1>5 DEF EventKind
  <2>2. d.kind \in Tokened => e.src = d.id
    BY <1>1, <1>5 DEF KInv, ToldFor
  <2>3. FreshReplies(respQ')
    BY <1>2, <1>5, <2>1, <2>2, FreshAppend
  <2>4. pump.ret \notin {"events", "poll2"}
    <3>. SUFFICES ASSUME pump.ret \in {"events", "poll2"} PROVE FALSE
      OBVIOUS
    <3>1. d.kind = "hist" /\ Without(evQ, d.tok)
      BY DEF KInv
    <3>. QED BY <1>1, <1>5, <3>1 DEF Without, Tokened
  <2>5. ~d'.on
    BY <1>2, <1>5, NoEntryIs
  <2>. QED BY <2>3, <2>4, <2>5 DEF KInv
<1>. QED BY <1>3, <1>4, <1>5 DEF Heard

\* ensure_session returns, and the history command is sent.
LEMMA PumpReturnKInv ==
  ASSUME TInv, KInv, main = "pump", PumpReturn(d), UNCHANGED <<d, respQ, out>>,
         Elems(evQ') \subseteq Elems(evQ)
  PROVE  KInv'
<1>1. pump'.ret = "none"
  BY PumpReturnIs
<1>2. CASE pump.ret = "bind" /\ cmdQ' = cmdQ
  BY <1>1, <1>2 DEF KInv, ToldFor
<1>3. CASE /\ pump.ret \in {"events", "poll2"}
           /\ cmdQ' = Append(cmdQ, Command("hist", d.tok, pump.hid))
  <2>1. d.id = pump.hid
    BY <1>3 DEF KInv
  <2>2. d.tok \in Nat /\ pump.hid \in 0 .. mix.req
    BY Mixed, EntryIs DEF TInv, MainShape, PumpKind
  <2>3. Elems(cmdQ') = Elems(cmdQ) \cup {Command("hist", d.tok, pump.hid)}
    BY <1>3, <2>2, Posted
  <2>4. Command("hist", d.tok, pump.hid).src = d.id
    BY <2>1 DEF Command
  <2>5. ASSUME d.on /\ d.kind \in Tokened
        PROVE  AskedFor(cmdQ', d.tok, d.id) /\ ToldFor(evQ', d.tok, d.id)
    BY <2>3, <2>4, <2>5 DEF KInv, AskedFor, ToldFor
  <2>. QED BY <1>1, <2>5 DEF KInv
<1>. QED BY <1>2, <1>3, PumpReturnIs

\* A request is answered, deferred with a token no item has, or has to wait
\* for a session first.
LEMMA PollKInv ==
  ASSUME TInv, KInv, NEW at \in {"events", "poll2"}, Poll(at)
  PROVE  KInv'
<1>. DEFINE r == Head(reqQ)
<1>1. /\ main = at /\ r \in RequestKind(mix.req) /\ UNCHANGED <<mix, out, evQ>>
      /\ Answered(r, at) \/ Deferred(r, at) \/ Opening(r, at, Second)
  BY PollIs
<1>. HIDE DEF r
<1>2. pump.ret = "none"
  BY <1>1 DEF TInv, MainShape
<1>3. r.id \in 0 .. mix.req
  BY <1>1, Mixed DEF RequestKind
<1>4. /\ FreshToken \in Nat \ {0} /\ Second \in Nat \ {0} /\ Second # FreshToken
      /\ FreshToken \notin TokensInUse
  BY Fresh DEF Second
<1>5. Without(cmdQ, FreshToken) /\ Without(out, FreshToken) /\ Without(evQ, FreshToken)
  BY <1>4, Unused
<1>6. CASE Answered(r, at)
  <2>1. PICK k \in {"accepted", "read-only", "busy", "waitP", "waitR", "waitE"} :
          respQ' = Append(respQ, Reply(r.id, k, r.id))
    BY <1>6 DEF Answered
  <2>2. FreshReplies(respQ')
    <3>1. k \in AllKinds \cup {"event", "accepted", "busy", "read-only", "timeout"}
      BY DEF AllKinds
    <3>. QED BY <1>3, <2>1, <3>1, FreshAppend
  <2>3. \A c \in Elems(cmdQ') : c \in Elems(cmdQ) \/ c.op \notin Tokened
    <3>1. CASE cmdQ' = cmdQ
      BY <3>1
    <3>2. CASE /\ r.kind \in {"run", "pause", "step", "reset", "enter", "leave"}
               /\ cmdQ' = Append(cmdQ, Command(r.kind, 0, r.id))
      <4>1. Elems(cmdQ') = Elems(cmdQ) \cup {Command(r.kind, 0, r.id)}
        BY <1>3, <3>2, Posted
      <4>2. Command(r.kind, 0, r.id).op \notin Tokened
        BY <3>2 DEF Command, Tokened
      <4>. QED BY <4>1, <4>2
    <3>. QED BY <1>6, <3>1, <3>2 DEF Answered
  <2>4. UNCHANGED <<d, pump>>
    BY <1>6 DEF Answered
  <2>5. d.on /\ d.kind \in Tokened => AskedFor(cmdQ', d.tok, d.id)
    BY <2>3 DEF KInv, AskedFor
  <2>. QED BY <1>1, <1>2, <2>2, <2>4, <2>5 DEF KInv
<1>7. CASE Deferred(r, at)
  <2>1. UNCHANGED <<respQ, pump>>
    BY <1>7 DEF Deferred
  <2>2. CASE r.kind \notin Tokened /\ d' = Entry(r, 0)
    <3>1. d'.kind \notin Tokened
      BY <1>1, <2>2, EntryTyped
    <3>. QED BY <1>1, <1>2, <2>1, <3>1 DEF KInv
  <2>3. CASE /\ r.kind \in Tokened /\ d' = Entry(r, FreshToken)
             /\ cmdQ' = Append(cmdQ, Command(r.kind, FreshToken, r.id))
    <3>1. d'.tok = FreshToken /\ d'.id = r.id
      BY <1>1, <1>4, <2>3, EntryTyped
    <3>2. Elems(cmdQ') = Elems(cmdQ) \cup {Command(r.kind, FreshToken, r.id)}
      <4>1. r.kind \in {"cpu", "hist"}
        BY <2>3 DEF Tokened
      <4>. QED BY <1>3, <1>4, <2>3, <4>1, Posted
    <3>3. Command(r.kind, FreshToken, r.id).src = r.id
      BY DEF Command
    <3>4. AskedFor(cmdQ', d'.tok, d'.id)
      BY <1>5, <3>1, <3>2, <3>3 DEF AskedFor, Without
    <3>5. ToldFor(out', d'.tok, d'.id) /\ ToldFor(evQ', d'.tok, d'.id)
      BY <1>1, <1>5, <3>1 DEF ToldFor, Without
    <3>. QED BY <1>2, <2>1, <3>4, <3>5 DEF KInv
  <2>4. r.kind \in {"list", "mach"} => r.kind \notin Tokened
    BY DEF Tokened
  <2>. QED BY <1>7, <2>2, <2>3, <2>4 DEF Deferred
<1>8. CASE Opening(r, at, Second)
  <2>1. /\ r.kind = "hist" /\ UNCHANGED respQ /\ d' = Entry(r, FreshToken)
        /\ cmdQ' = cmdQ \o ReleaseCommands \o <<Command("open", Second, 0)>>
        /\ pump' = [tok |-> Second, ep |-> srv.epoch, ret |-> at, hid |-> r.id]
    BY <1>8 DEF Opening
  <2>2. d'.on /\ d'.tok = FreshToken /\ d'.id = r.id /\ d'.kind = "hist" /\ pump'.hid = r.id
    BY <1>1, <1>4, <2>1, EntryTyped
  <2>3. Elems(cmdQ') \subseteq Elems(cmdQ) \cup {Closing, Command("open", Second, 0)}
    BY <1>4, <2>1, ReleaseIs, OpenedWith
  <2>4. Closing.tok # FreshToken /\ Command("open", Second, 0).tok # FreshToken
    BY <1>4 DEF Closing, Command
  <2>5. Without(cmdQ', FreshToken)
    BY <1>5, <2>3, <2>4 DEF Without
  <2>6. AskedFor(cmdQ', d'.tok, d'.id)
    BY <2>2, <2>5 DEF AskedFor, Without
  <2>7. ToldFor(out', d'.tok, d'.id) /\ ToldFor(evQ', d'.tok, d'.id)
    BY <1>1, <1>5, <2>2 DEF ToldFor, Without
  <2>8. Without(out', d'.tok) /\ Without(evQ', d'.tok)
    BY <1>1, <1>5, <2>2
  <2>. QED BY <1>4, <2>1, <2>2, <2>5, <2>6, <2>7, <2>8 DEF KInv
<1>. QED BY <1>1, <1>6, <1>7, <1>8

LEMMA CheckKInv ==
  ASSUME TInv, KInv, CheckHasClient \/ CheckBind \/ CheckDeadline \/ Expire
  PROVE  KInv'
<1>1. CASE CheckHasClient
  <2>1. UNCHANGED <<d, pump, cmdQ, out, evQ, respQ>>
    BY <1>1 DEF CheckHasClient, workVars
  <2>. QED BY <2>1, KKept DEF KInv
<1>2. CASE CheckBind
  <2>1. Bind
    BY <1>2, CheckBindTInv
  <2>2. UNCHANGED <<d, out, evQ, respQ>> /\ main = "bind"
    BY <2>1 DEF Bind
  <2>3. FreshToken \in Nat
    BY Fresh
  <2>4. Elems(cmdQ') \subseteq Elems(cmdQ) \cup {Closing, Command("open", FreshToken, 0)}
    <3>1. PICK c \in {<<>>, <<Closing>>} :
            cmdQ' \in {cmdQ \o c, cmdQ \o c \o <<Command("open", FreshToken, 0)>>}
      BY <2>1 DEF Bind
    <3>2. /\ Elems(cmdQ \o c) \subseteq Elems(cmdQ) \cup {Closing}
          /\ Elems(cmdQ \o c \o <<Command("open", FreshToken, 0)>>)
               \subseteq Elems(cmdQ) \cup {Closing, Command("open", FreshToken, 0)}
      BY <2>3, OpenedWith
    <3>3. CASE cmdQ' = cmdQ \o c
      BY <3>2, <3>3
    <3>4. CASE cmdQ' = cmdQ \o c \o <<Command("open", FreshToken, 0)>>
      BY <3>2, <3>4
    <3>. QED BY <3>1, <3>3, <3>4
  <2>5. Closing.op \notin Tokened /\ Command("open", FreshToken, 0).op \notin Tokened
    BY DEF Closing, Command, Tokened
  <2>6. pump'.ret \notin {"events", "poll2"}
    BY <2>1, <2>2 DEF Bind, TInv, MainShape
  <2>7. d.on /\ d.kind \in Tokened => AskedFor(cmdQ', d.tok, d.id)
    BY <2>4, <2>5 DEF KInv, AskedFor
  <2>. QED BY <2>2, <2>6, <2>7 DEF KInv
<1>3. CASE CheckDeadline
  <2>1. /\ main = "deadline" /\ d' \in {d, NoEntry} /\ UNCHANGED <<pump, cmdQ, out, evQ>>
        /\ respQ' = respQ \/ respQ' = Append(respQ, Reply(d.id, "timeout", d.id))
    BY <1>3 DEF CheckDeadline, CheckDeadlineWith, TimeoutPosted, workVars
  <2>2. pump.ret = "none"
    BY <2>1 DEF TInv, MainShape
  <2>3. d.id \in 0 .. mix.req
    BY Mixed, EntryIs DEF TInv, MainShape
  <2>4. FreshReplies(respQ')
    <3>1. FreshReplies(Append(respQ, Reply(d.id, "timeout", d.id)))
      BY <2>3, FreshAppend
    <3>2. FreshReplies(respQ)
      BY DEF KInv
    <3>. QED BY <2>1, <3>1, <3>2
  <2>5. d' = d \/ ~d'.on
    BY <2>1 DEF NoEntry
  <2>. QED BY <2>1, <2>2, <2>4, <2>5 DEF KInv
<1>4. CASE Expire
  <2>1. d' = [d EXCEPT !.expired = TRUE] /\ UNCHANGED <<pump, cmdQ, out, evQ, respQ>>
    BY <1>4 DEF Expire, workVars
  <2>2. d'.on = d.on /\ d'.kind = d.kind /\ d'.id = d.id /\ d'.tok = d.tok
    BY <2>1 DEF TInv, MainShape, EntryKind
  <2>. QED BY <2>1, <2>2 DEF KInv
<1>. QED BY <1>1, <1>2, <1>3, <1>4

LEMMA EndingKInv ==
  ASSUME TInv, KInv, Quit \/ Stop \/ Join \/ PollNothing("events") \/ PollNothing("poll2") \/ Ended
  PROVE  KInv'
<1>1. CASE Quit
  <2>1. /\ main = "events" /\ d' = NoEntry /\ UNCHANGED <<pump, respQ>>
    BY <1>1 DEF Quit
  <2>2. pump.ret = "none" /\ ~d'.on
    BY <2>1 DEF TInv, MainShape, NoEntry
  <2>. QED BY <2>1, <2>2 DEF KInv
<1>2. CASE Stop \/ Join \/ PollNothing("events") \/ PollNothing("poll2") \/ Ended
  <2>1. UNCHANGED <<d, pump, cmdQ, out, evQ>> /\ (respQ' = respQ \/ respQ' = <<>>)
    BY <1>2 DEF Stop, Join, PollNothing, Ended, workVars, vars
  <2>2. FreshReplies(respQ')
    BY <2>1, NoneFresh DEF KInv
  <2>. QED BY <2>1, <2>2, KKept
<1>. QED BY <1>1, <1>2

LEMMA EventsKInv ==
  ASSUME TInv, KInv, DrainEvent \/ PumpEvent \/ PumpTimeout
  PROVE  KInv'
<1>1. CASE DrainEvent
  <2>1. evQ # <<>> /\ evQ' = Tail(evQ) /\ UNCHANGED <<pump, cmdQ, out>>
    BY <1>1 DEF DrainEvent, workVars
  <2>. QED BY <1>1, <2>1, DrainEventTInv, HeardKInv
<1>2. CASE PumpEvent
  <2>1. /\ main = "pump" /\ evQ # <<>> /\ evQ' = Tail(evQ) /\ UNCHANGED out
        /\ \/ PumpReturn(d) /\ UNCHANGED <<respQ, d>>
           \/ Heard(Head(evQ)) /\ UNCHANGED <<pump, main, cmdQ>>
    BY <1>2, PumpEventTInv
  <2>2. Elems(evQ') \subseteq Elems(evQ)
    BY <2>1, EventTaken
  <2>. QED BY <2>1, <2>2, HeardKInv, PumpReturnKInv
<1>3. CASE PumpTimeout
  <2>1. main = "pump" /\ PumpReturn(d) /\ UNCHANGED <<d, respQ, out, evQ>>
    BY <1>3 DEF PumpTimeout
  <2>. QED BY <2>1, PumpReturnKInv
<1>. QED BY <1>1, <1>2, <1>3

LEMMA NextKInv == ASSUME TInv, KInv, Next PROVE KInv'
<1>1. CASE Connect \/ Hangup \/ Socket \/ Leave \/ (\E k \in mix.kinds : ReadRequest(k))
  BY <1>1, OutsideKInv
<1>2. CASE Worker \/ BreakpointHit
  BY <1>2, WorkerKInv
<1>3. CASE Main \/ PumpTimeout \/ Expire \/ Quit \/ Ended
  BY <1>3, EventsKInv, CheckKInv, EndingKInv, PollKInv DEF Main
<1>. QED BY <1>1, <1>2, <1>3 DEF Next

LEMMA InitKInv == ASSUME Init PROVE KInv
<1>1. respQ = <<>> /\ ~d.on /\ pump.ret = "none"
  BY DEF Init, NoEntry, NoPump
<1>. QED BY <1>1, NoneFresh DEF KInv

LEMMA KInvFresh == ASSUME KInv PROVE TokenedDataFresh
BY DEF KInv, FreshReplies, TokenedDataFresh, Elems, Tokened

\* The bytes of a get-cpu or history-find reply were produced for that very
\* request: a token of control_dispatch.c finds no event of a request that
\* timed out or whose client left, however late the event comes.
THEOREM DataIsFresh == Spec => []TokenedDataFresh
<1>1. TInv /\ KInv /\ [Next]_vars => KInv'
  <2>1. CASE Next
    BY <2>1, NextKInv
  <2>2. CASE UNCHANGED vars
    <3>1. UNCHANGED <<d, pump, cmdQ, out, evQ, respQ>>
      BY <2>2 DEF vars
    <3>. QED BY <3>1 DEF KInv
  <2>. QED BY <2>1, <2>2
<1>2. Spec => []KInv
  BY <1>1, InitKInv, Typing, PTL DEF Spec
<1>. QED BY <1>2, KInvFresh, PTL

-----------------------------------------------------------------------------
(* The waiting client.                                                     *)

\* The socket thread waits for nothing after the step.
LEMMA NotWaiting ==
  ASSUME TInv, WInv, UNCHANGED <<d, reqQ, count>>, cur' \in {cur, None}, sock' # "wait",
         sock' = "read" => srv'.has
  PROVE  WInv'
<1>1. IdsGiven'
  <2>1. count.req \in Nat
    BY Counted, Mixed
  <2>. QED BY <2>1 DEF WInv, IdsGiven, None
<1>. QED BY <1>1 DEF WInv, Serving, OwnEntry, AnswerComing

\* Nothing that the waiting client depends on is taken away.
LEMMA StillComing ==
  ASSUME WInv, UNCHANGED <<sock, cur, srv, reqQ, d, main, pump, seen>>, count'.req = count.req,
         Elems(respQ) \subseteq Elems(respQ')
  PROVE  WInv'
BY DEF WInv, IdsGiven, Serving, OwnEntry, AnswerComing

LEMMA SocketWInv ==
  ASSUME TInv, WInv, Socket \/ Leave
  PROVE  WInv'
<1>1. CASE TakeReply
  <2>1. /\ sock = "wait" /\ respQ # <<>> /\ respQ' = Tail(respQ)
        /\ UNCHANGED <<srv, reqQ, main, seen, pump, d, count>>
        /\ \/ Head(respQ).id = 0 /\ UNCHANGED <<sock, cur>>
           \/ sock' = "read" /\ cur' = None
    BY <1>1 DEF TakeReply, mainVars
  <2>2. CASE Head(respQ).id = 0 /\ UNCHANGED <<sock, cur>>
    <3>1. Elems(respQ) = {Head(respQ)} \cup Elems(respQ')
      BY <2>1, Tailed DEF TInv, MainShape
    <3>2. cur # 0
      BY <2>1 DEF WInv, Serving
    <3>3. AnswerComing'
      BY <2>1, <2>2, <3>1, <3>2 DEF WInv, AnswerComing
    <3>. QED BY <2>1, <2>2, <3>3 DEF WInv, IdsGiven, Serving, OwnEntry
  <2>3. CASE sock' = "read" /\ cur' = None
    <3>1. srv.has
      BY <2>1 DEF WInv, Serving
    <3>. QED BY <2>1, <2>3, <3>1, NotWaiting
  <2>. QED BY <2>1, <2>2, <2>3
<1>2. CASE Begin
  <2>1. sock' = "read" /\ srv' = [srv EXCEPT !.has = TRUE] /\ UNCHANGED <<cur, d, reqQ, count>>
    BY <1>2 DEF Begin, mainVars
  <2>2. srv'.has
    BY <2>1 DEF TInv, SockShape, SrvKind
  <2>. QED BY <2>1, <2>2, NotWaiting
<1>3. CASE FlushUnsolicited
  <2>1. sock = "read" /\ UNCHANGED <<sock, srv, cur, d, reqQ, count>>
    BY <1>3 DEF FlushUnsolicited, sockVars, mainVars
  <2>2. srv.has
    BY <2>1 DEF WInv, Serving
  <2>. QED BY <2>1, <2>2, NotWaiting
<1>4. CASE Accept \/ PeerGone \/ DrainDiscard \/ DrainEnd \/ Close \/ AcceptStopped \/ Leave
  <2>1. /\ sock' \in {"begin", "drain", "close", "accept", "stopped"} /\ cur' \in {cur, None}
        /\ UNCHANGED <<d, reqQ, count>>
    BY <1>4 DEF Accept, PeerGone, NoteDisconnect, DrainDiscard, DrainEnd, Close, AcceptStopped,
       Leave, sockVars, mainVars
  <2>. QED BY <2>1, NotWaiting
<1>. QED BY <1>1, <1>2, <1>3, <1>4 DEF Socket

LEMMA ReadRequestWInv ==
  ASSUME TInv, WInv, NEW k, ReadRequest(k)
  PROVE  WInv'
<1>. DEFINE n == count.req + 1
            r == [id |-> n, kind |-> k]
<1>1. /\ sock = "read" /\ sock' = "wait" /\ count' = [count EXCEPT !.req = n] /\ cur' = n
      /\ reqQ' = Append(reqQ, r) /\ UNCHANGED <<srv, d>>
      /\ count.req < mix.req /\ k \in mix.kinds \ {"quit"}
  BY DEF ReadRequest, mainVars
<1>2. count.req \in Nat /\ n \in Nat /\ mix.req \in Nat /\ count \in CountKind(mix.req)
  BY Counted, Mixed
<1>3. count'.req = n
  BY <1>1, <1>2 DEF CountKind
<1>4. r \in RequestKind(mix.req) /\ r.id = n
  <2>1. k \in AllKinds \ {"quit"}
    BY <1>1, Mixed
  <2>2. n \in 1 .. mix.req
    BY <1>1, <1>2
  <2>. HIDE DEF n
  <2>. QED BY <2>1, <2>2 DEF RequestKind
<1>5. Elems(reqQ') = Elems(reqQ) \cup {r}
  <2>. HIDE DEF r
  <2>. QED BY <1>1, <1>4, Appended DEF TInv, SockShape
<1>6. d.on => d.id \in Nat /\ d.id <= count.req
  BY <1>2, EntryIs DEF TInv, MainShape, WInv, IdsGiven
<1>7. \A x \in Elems(reqQ) : x.id \in Nat /\ x.id <= count.req
  <2>1. Elems(reqQ) \subseteq RequestKind(mix.req)
    BY Typed DEF TInv, SockShape
  <2>2. \A x \in RequestKind(mix.req) : x.id \in Nat
    BY <1>2 DEF RequestKind
  <2>. QED BY <2>1, <2>2 DEF WInv, IdsGiven
<1>. HIDE DEF r
<1>8. IdsGiven'
  BY <1>1, <1>2, <1>3, <1>4, <1>5, <1>6, <1>7 DEF IdsGiven
<1>9. Serving'
  BY <1>1, <1>2 DEF Serving, WInv
<1>10. ~(d'.on /\ d'.id = cur')
  BY <1>1, <1>2, <1>6
<1>11. OwnEntry'
  BY <1>10 DEF OwnEntry
<1>12. AnswerComing'
  BY <1>1, <1>4, <1>5 DEF AnswerComing
<1>. QED BY <1>8, <1>9, <1>11, <1>12 DEF WInv

LEMMA AsideWInv ==
  ASSUME TInv, WInv, Connect \/ Hangup \/ Worker \/ BreakpointHit \/ Ended
  PROVE  WInv'
<1>1. UNCHANGED <<sock, cur, srv, reqQ, d, main, pump, seen, respQ>>
  BY DEF Connect, Hangup, Worker, WorkerTake, Publish, BreakpointHit, Ended, sockVars, mainVars,
     vars
<1>2. count'.req = count.req
  <2>1. CASE Connect
    BY <2>1, Counted DEF Connect, CountKind
  <2>2. CASE BreakpointHit
    BY <2>2, BreakpointHitTInv
  <2>3. CASE Hangup \/ Worker \/ Ended
    BY <2>3 DEF Hangup, Worker, WorkerTake, Publish, Ended, vars
  <2>. QED BY <2>1, <2>2, <2>3
<1>. QED BY <1>1, <1>2, StillComing

\* What the main thread does to the queues of a waiting client.
LEMMA ReplyPosted ==
  ASSUME TInv, NEW r \in ReplyKind(mix.req), respQ' = Append(respQ, r)
  PROVE  Elems(respQ') = Elems(respQ) \cup {r}
BY Appended DEF TInv, MainShape

LEMMA PollWInv ==
  ASSUME TInv, WInv, NEW at \in {"events", "poll2"}, Poll(at)
  PROVE  WInv'
<1>. DEFINE r == Head(reqQ)
<1>1. /\ main = at /\ reqQ # <<>> /\ reqQ' = Tail(reqQ) /\ r \in RequestKind(mix.req)
      /\ UNCHANGED <<mix, sock, srv, cur, seen, count>>
      /\ Answered(r, at) \/ Deferred(r, at) \/ Opening(r, at, Second)
  BY PollIs
<1>2. Elems(reqQ) = {r} \cup Elems(reqQ')
  BY <1>1, Tailed DEF TInv, SockShape
<1>. HIDE DEF r
<1>3. pump.ret = "none" /\ After(at) \in {"check", "events"}
  BY <1>1 DEF TInv, MainShape, After
<1>4. r.id \in 0 .. mix.req /\ r.id <= count.req
  <2>1. r.id <= count.req
    BY <1>2 DEF WInv, IdsGiven
  <2>. QED BY <1>1, <2>1, Mixed DEF RequestKind
<1>5. FreshToken \in Nat
  BY Fresh
<1>6. CASE Answered(r, at)
  <2>1. PICK k \in {"accepted", "read-only", "busy", "waitP", "waitR", "waitE"} :
          respQ' = Append(respQ, Reply(r.id, k, r.id))
    BY <1>6 DEF Answered
  <2>2. Reply(r.id, k, r.id) \in ReplyKind(mix.req) /\ Reply(r.id, k, r.id).id = r.id
    BY <1>4 DEF Reply, ReplyKind, AllKinds
  <2>3. Elems(respQ') = Elems(respQ) \cup {Reply(r.id, k, r.id)}
    BY <2>1, <2>2, ReplyPosted
  <2>4. UNCHANGED <<d, pump>> /\ main' = After(at)
    BY <1>6 DEF Answered
  <2>5. IdsGiven' /\ Serving'
    BY <1>1, <1>2, <2>4 DEF WInv, IdsGiven, Serving
  <2>6. OwnEntry'
    BY <1>1, <1>3, <2>4 DEF WInv, OwnEntry
  <2>7. AnswerComing'
    BY <1>1, <1>2, <1>3, <2>2, <2>3, <2>4 DEF WInv, AnswerComing
  <2>. QED BY <2>5, <2>6, <2>7 DEF WInv
<1>7. CASE Deferred(r, at) \/ Opening(r, at, Second)
  <2>1. /\ ~d.on /\ UNCHANGED respQ /\ (d' = Entry(r, 0) \/ d' = Entry(r, FreshToken))
        /\ \/ main' = After(at) /\ pump' = pump
           \/ /\ main' = "pump"
              /\ pump' = [tok |-> Second, ep |-> srv.epoch, ret |-> at, hid |-> r.id]
    BY <1>7 DEF Deferred, Opening
  <2>2. d'.on /\ d'.id = r.id /\ d'.ep = srv.epoch
    BY <1>1, <1>5, <2>1, EntryTyped
  <2>3. pump'.ret # "bind" /\ main' \in {"check", "events", "pump"}
    BY <1>3, <2>1
  <2>4. IdsGiven' /\ Serving'
    BY <1>1, <1>2, <1>4, <2>2 DEF WInv, IdsGiven, Serving
  <2>5. OwnEntry'
    BY <1>1, <2>2, <2>3 DEF OwnEntry
  <2>6. AnswerComing'
    BY <1>1, <1>2, <2>1, <2>2 DEF WInv, AnswerComing
  <2>. QED BY <2>4, <2>5, <2>6 DEF WInv
<1>. QED BY <1>1, <1>6, <1>7

\* An event for the dispatcher: an entry it completes becomes a reply.
LEMMA HeardWInv ==
  ASSUME TInv, WInv, NEW e \in EventKind(mix.req), Heard(e), count'.req = count.req,
         UNCHANGED <<sock, srv, cur, reqQ, main, seen, pump>>
  PROVE  WInv'
<1>0. 0 \in 0 .. mix.req /\ d.id \in 0 .. mix.req /\ mix.req \in Nat
  BY Mixed, EntryIs DEF TInv, MainShape
<1>1. CASE d' = d /\ respQ' = respQ
  BY <1>1, StillComing
<1>2. CASE d' = d /\ respQ' = Append(respQ, Reply(0, "event", 0))
  <2>1. Reply(0, "event", 0) \in ReplyKind(mix.req)
    BY <1>0 DEF Reply, ReplyKind
  <2>2. Elems(respQ) \subseteq Elems(respQ')
    BY <1>2, <2>1, ReplyPosted
  <2>. QED BY <1>2, <2>2, StillComing
<1>3. CASE /\ d.on /\ d' = NoEntry /\ respQ' = Append(respQ, Reply(d.id, d.kind, e.src))
           /\ d.kind \in AllKinds /\ e.t # "sess"
  <2>1. Reply(d.id, d.kind, e.src) \in ReplyKind(mix.req) /\ Reply(d.id, d.kind, e.src).id = d.id
    <3>1. e.src \in 0 .. mix.req
      BY <1>3 DEF EventKind
    <3>. QED BY <1>0, <1>3, <3>1 DEF Reply, ReplyKind
  <2>2. Elems(respQ') = Elems(respQ) \cup {Reply(d.id, d.kind, e.src)}
    BY <1>3, <2>1, ReplyPosted
  <2>3. ~d'.on
    BY <1>3 DEF NoEntry
  <2>4. AnswerComing'
    BY <2>1, <2>2 DEF WInv, AnswerComing
  <2>. QED BY <2>3, <2>4 DEF WInv, IdsGiven, Serving, OwnEntry
<1>. QED BY <1>1, <1>2, <1>3 DEF Heard

\* Back from ensure_session.
LEMMA PumpReturnWInv ==
  ASSUME TInv, WInv, main = "pump", PumpReturn(d), count'.req = count.req,
         UNCHANGED <<sock, srv, cur, reqQ, d, respQ, seen>>
  PROVE  WInv'
<1>1. /\ pump'.ret = "none" /\ main' \in {"deadline", "check", "events"}
      /\ main' = "deadline" => pump.ret = "bind"
  BY PumpReturnIs DEF After
<1>2. OwnEntry'
  BY <1>1 DEF WInv, OwnEntry
<1>. QED BY <1>1, <1>2 DEF WInv, IdsGiven, Serving, AnswerComing

LEMMA EventsWInv ==
  ASSUME TInv, WInv, DrainEvent \/ PumpEvent \/ PumpTimeout
  PROVE  WInv'
<1>1. CASE DrainEvent
  <2>1. /\ evQ # <<>> /\ UNCHANGED <<sock, srv, cur, reqQ, main, seen, pump, count>>
    BY <1>1 DEF DrainEvent, sockVars
  <2>. QED BY <1>1, <2>1, DrainEventTInv, EventTaken, HeardWInv
<1>2. CASE PumpEvent
  <2>1. /\ main = "pump" /\ evQ # <<>> /\ UNCHANGED <<sock, srv, cur, reqQ, seen, count>>
        /\ \/ PumpReturn(d) /\ UNCHANGED <<respQ, d>>
           \/ Heard(Head(evQ)) /\ UNCHANGED <<pump, main, cmdQ>>
    BY <1>2, PumpEventTInv DEF sockVars
  <2>. QED BY <2>1, EventTaken, HeardWInv, PumpReturnWInv
<1>3. CASE PumpTimeout
  <2>1. /\ main = "pump" /\ PumpReturn(d) /\ UNCHANGED <<sock, srv, cur, reqQ, d, respQ, seen>>
        /\ count' = [count EXCEPT !.late = @ + 1]
    BY <1>3 DEF PumpTimeout, sockVars
  <2>2. count'.req = count.req
    BY <2>1, Counted DEF CountKind
  <2>. QED BY <2>1, <2>2, PumpReturnWInv
<1>. QED BY <1>1, <1>2, <1>3

\* check_session: it reads this connection before it looks at the entry.
LEMMA CheckWInv ==
  ASSUME TInv, WInv, CheckHasClient \/ CheckBind \/ CheckDeadline \/ Expire
  PROVE  WInv'
<1>0. d \in EntryKind(mix.req) /\ seen \in SeenKind /\ mix.req \in Nat
  BY Mixed DEF TInv, MainShape
<1>1. CASE CheckHasClient
  <2>1. /\ main = "check" /\ main' = "bind" /\ seen' = [seen EXCEPT !.has = srv.has]
        /\ UNCHANGED <<sock, srv, cur, reqQ, count, d, respQ, pump>>
    BY <1>1 DEF CheckHasClient, sockVars
  <2>2. pump.ret = "none" /\ seen'.has = srv.has
    BY <1>0, <2>1 DEF TInv, MainShape, SeenKind
  <2>3. OwnEntry'
    BY <2>1, <2>2 DEF WInv, OwnEntry, Serving
  <2>. QED BY <2>1, <2>3 DEF WInv, IdsGiven, Serving, AnswerComing
<1>2. CASE CheckBind
  <2>1. Bind
    BY <1>2, CheckBindTInv
  <2>2. /\ main = "bind" /\ seen' = [seen EXCEPT !.ep = srv.epoch] /\ main' \in {"pump", "deadline"}
        /\ UNCHANGED <<sock, srv, cur, reqQ, count, d, respQ>>
    BY <2>1 DEF Bind, sockVars
  <2>3. seen'.has = seen.has /\ seen'.ep = srv.epoch
    BY <1>0, <2>2 DEF SeenKind
  <2>4. OwnEntry'
    BY <2>2, <2>3 DEF WInv, OwnEntry
  <2>. QED BY <2>2, <2>4 DEF WInv, IdsGiven, Serving, AnswerComing
<1>3. CASE CheckDeadline
  <2>1. /\ main = "deadline" /\ main' = "poll2"
        /\ UNCHANGED <<sock, srv, cur, reqQ, count, pump>>
        /\ \/ d' = d /\ respQ' = respQ
           \/ FormerEntry /\ d' = NoEntry /\ respQ' = respQ
           \/ d' = NoEntry /\ respQ' = Append(respQ, Reply(d.id, "timeout", d.id))
    BY <1>3 DEF CheckDeadline, CheckDeadlineWith, TimeoutPosted, sockVars
  <2>2. pump.ret = "none" /\ ~NoEntry.on
    BY <2>1 DEF TInv, MainShape, NoEntry
  <2>3. CASE d' = d /\ respQ' = respQ
    BY <2>1, <2>2, <2>3 DEF WInv, IdsGiven, Serving, OwnEntry, AnswerComing
  <2>4. CASE FormerEntry /\ d' = NoEntry /\ respQ' = respQ
    <3>1. sock = "wait" => ~(d.on /\ d.id = cur)
      BY <2>1, <2>4 DEF WInv, OwnEntry, FormerEntry
    <3>2. AnswerComing'
      BY <2>1, <2>4, <3>1 DEF WInv, AnswerComing
    <3>. QED BY <2>1, <2>2, <2>4, <3>2 DEF WInv, IdsGiven, Serving, OwnEntry
  <2>5. CASE d' = NoEntry /\ respQ' = Append(respQ, Reply(d.id, "timeout", d.id))
    <3>1. Reply(d.id, "timeout", d.id) \in ReplyKind(mix.req)
          /\ Reply(d.id, "timeout", d.id).id = d.id
      BY <1>0, EntryIs DEF Reply, ReplyKind
    <3>2. Elems(respQ') = Elems(respQ) \cup {Reply(d.id, "timeout", d.id)}
      BY <2>5, <3>1, ReplyPosted
    <3>3. AnswerComing'
      BY <2>1, <3>1, <3>2 DEF WInv, AnswerComing
    <3>. QED BY <2>1, <2>2, <2>5, <3>3 DEF WInv, IdsGiven, Serving, OwnEntry
  <2>. QED BY <2>1, <2>3, <2>4, <2>5
<1>4. CASE Expire
  <2>1. /\ d' = [d EXCEPT !.expired = TRUE]
        /\ UNCHANGED <<sock, srv, cur, reqQ, count, main, seen, pump, respQ>>
    BY <1>4 DEF Expire, sockVars
  <2>2. d'.on = d.on /\ d'.id = d.id /\ d'.ep = d.ep
    BY <1>0, <2>1 DEF EntryKind
  <2>. QED BY <2>1, <2>2 DEF WInv, IdsGiven, Serving, OwnEntry, AnswerComing
<1>. QED BY <1>1, <1>2, <1>3, <1>4

LEMMA EndingWInv ==
  ASSUME TInv, WInv, Quit \/ Stop \/ Join \/ PollNothing("events") \/ PollNothing("poll2")
  PROVE  WInv'
<1>1. CASE Quit
  <2>1. main' = "stop" /\ d' = NoEntry /\ UNCHANGED <<sock, srv, cur, reqQ, count>>
    BY <1>1 DEF Quit, sockVars
  <2>2. ~d'.on
    BY <2>1 DEF NoEntry
  <2>. QED BY <2>1, <2>2 DEF WInv, IdsGiven, Serving, OwnEntry, AnswerComing
<1>2. CASE Stop
  <2>1. /\ main = "stop" /\ main' = "join" /\ srv' = [srv EXCEPT !.stopping = TRUE]
        /\ UNCHANGED <<sock, cur, reqQ, count, d, pump>>
    BY <1>2 DEF Stop
  <2>2. pump.ret = "none" /\ srv'.has = srv.has /\ srv'.epoch = srv.epoch
    BY <2>1 DEF TInv, MainShape, SockShape, SrvKind
  <2>. QED BY <2>1, <2>2 DEF WInv, IdsGiven, Serving, OwnEntry, AnswerComing
<1>3. CASE Join
  <2>1. sock' = "stopped" /\ reqQ' = <<>> /\ UNCHANGED <<cur, count, d>>
    BY <1>3 DEF Join
  <2>. QED BY <2>1, Emptied DEF WInv, IdsGiven, Serving, OwnEntry, AnswerComing
<1>4. CASE PollNothing("events") \/ PollNothing("poll2")
  <2>1. /\ main \in {"events", "poll2"} /\ main' \in {"check", "events"}
        /\ UNCHANGED <<sock, srv, cur, reqQ, count, d, pump, respQ, seen>>
    BY <1>4 DEF PollNothing, After, sockVars
  <2>2. pump.ret = "none"
    BY <2>1 DEF TInv, MainShape
  <2>. QED BY <2>1, <2>2 DEF WInv, IdsGiven, Serving, OwnEntry, AnswerComing
<1>. QED BY <1>1, <1>2, <1>3, <1>4

LEMMA NextWInv == ASSUME TInv, WInv, Next PROVE WInv'
<1>1. CASE Connect \/ Hangup \/ Worker \/ BreakpointHit \/ Ended
  BY <1>1, AsideWInv
<1>2. CASE Socket \/ Leave \/ (\E k \in mix.kinds : ReadRequest(k))
  BY <1>2, SocketWInv, ReadRequestWInv
<1>3. CASE Main \/ PumpTimeout \/ Expire \/ Quit
  BY <1>3, EventsWInv, CheckWInv, EndingWInv, PollWInv DEF Main
<1>. QED BY <1>1, <1>2, <1>3 DEF Next

LEMMA InitWInv == ASSUME Init PROVE WInv
<1>1. /\ sock = "accept" /\ cur = 0 /\ count.req = 0 /\ reqQ = <<>> /\ ~d.on
  BY DEF Init, None, NoEntry
<1>. QED BY <1>1, Emptied DEF WInv, IdsGiven, Serving, OwnEntry, AnswerComing

LEMMA Answering == Spec => []WInv
<1>1. TInv /\ WInv /\ [Next]_vars => WInv'
  <2>1. CASE Next
    BY <2>1, NextWInv
  <2>2. CASE UNCHANGED vars
    BY <2>2, StillComing DEF vars
  <2>. QED BY <2>1, <2>2
<1>. QED BY <1>1, InitWInv, Typing, PTL DEF Spec

LEMMA WInvAnswers == ASSUME WInv PROVE WaitHasAnswer
BY DEF WInv, AnswerComing, WaitHasAnswer, Elems

\* A client that waits has its request queued, its entry in the table or its
\* reply posted: between check_session, the timeout and a late event no order
\* drops the entry of the connected client, so the port never wedges.
THEOREM WaiterHasAnswer == Spec => []WaitHasAnswer
BY Answering, WInvAnswers, PTL

-----------------------------------------------------------------------------
(* The lock step.                                                          *)

\* What a step of the main thread does to requests, entry and responses.
Kept == reqQ' = reqQ /\ respQ' = respQ /\ (d'.on => d.on /\ d'.id = d.id)
Lined == reqQ' = reqQ /\ d' = d /\ respQ' = Append(respQ, Reply(0, "event", 0))
Finished ==
  /\ reqQ' = reqQ /\ d.on /\ ~d'.on
  /\ \E k, s : /\ Reply(d.id, k, s) \in ReplyKind(mix.req) /\ k # "busy"
               /\ respQ' = Append(respQ, Reply(d.id, k, s))
Entered ==
  /\ reqQ # <<>> /\ reqQ' = Tail(reqQ) /\ respQ' = respQ
  /\ d'.on /\ d'.id = Head(reqQ).id
Replied ==
  /\ reqQ # <<>> /\ reqQ' = Tail(reqQ) /\ d' = d
  /\ \E k : /\ Reply(Head(reqQ).id, k, Head(reqQ).id) \in ReplyKind(mix.req)
            /\ k = "busy" => d.on
            /\ respQ' = Append(respQ, Reply(Head(reqQ).id, k, Head(reqQ).id))

\* The only request is taken.
LEMMA LastTaken ==
  ASSUME TInv, Alone, reqQ # <<>>
  PROVE  Tail(reqQ) = <<>> /\ Head(reqQ) \in Elems(reqQ) /\ Elems(reqQ) = {Head(reqQ)}
<1>1. /\ Tail(reqQ) \in Seq(RequestKind(mix.req)) /\ Len(Tail(reqQ)) = Len(reqQ) - 1
      /\ Len(reqQ) \in Nat \ {0} /\ Elems(reqQ) = {Head(reqQ)} \cup Elems(Tail(reqQ))
  BY Tailed DEF TInv, SockShape
<1>2. Len(Tail(reqQ)) = 0
  BY <1>1 DEF Alone
<1>3. Tail(reqQ) = <<>>
  BY <1>1, <1>2, EmptySeq
<1>. QED BY <1>1, <1>3, Emptied

\* One response more.
LEMMA ReplyAdded ==
  ASSUME TInv, NEW r \in ReplyKind(mix.req), respQ' = Append(respQ, r)
  PROVE  /\ Elems(respQ') = Elems(respQ) \cup {r}
         /\ Blank(respQ) /\ r.id = 0 => Blank(respQ')
         /\ \A x : /\ Blank(respQ) /\ (r.id = 0 \/ r.id = x) => OneReply(respQ', x)
                   /\ OneReply(respQ, x) /\ r.id = 0 => OneReply(respQ', x)
<1>1. respQ \in Seq(ReplyKind(mix.req))
  BY DEF TInv, MainShape
<1>2. Elems(respQ') = Elems(respQ) \cup {r}
  BY <1>1, Appended
<1>3. ASSUME NEW x
      PROVE  /\ Blank(respQ) /\ (r.id = 0 \/ r.id = x) => OneReply(respQ', x)
             /\ OneReply(respQ, x) /\ r.id = 0 => OneReply(respQ', x)
  BY <1>1, OneMore
<1>. QED BY <1>2, <1>3 DEF Blank

LEMMA ServedKept ==
  ASSUME Alone, Served, UNCHANGED <<sock, peer, srv, cur>>, Kept
  PROVE  Alone' /\ Served'
<1>1. Alone'
  BY DEF Alone, Kept
<1>2. Clean => Clean'
  BY DEF Clean, Kept, Blank
<1>3. Waiting => Waiting'
  BY DEF Waiting, Kept, Blank, OneReply
<1>. QED BY <1>1, <1>2, <1>3 DEF Served, Left

LEMMA ServedLined ==
  ASSUME TInv, Alone, Served, UNCHANGED <<sock, peer, srv, cur>>, Lined
  PROVE  Alone' /\ Served'
<1>. DEFINE r == Reply(0, "event", 0)
<1>1. r \in ReplyKind(mix.req) /\ r.id = 0 /\ r.k = "event"
  BY Mixed DEF Reply, ReplyKind
<1>2. respQ' = Append(respQ, r) /\ UNCHANGED <<reqQ, d>>
  BY DEF Lined
<1>. HIDE DEF r
<1>3. /\ Elems(respQ') = Elems(respQ) \cup {r} /\ (Blank(respQ) => Blank(respQ'))
      /\ OneReply(respQ, cur) => OneReply(respQ', cur)
  BY <1>1, <1>2, ReplyAdded
<1>4. Alone'
  BY <1>1, <1>2, <1>3 DEF Alone
<1>5. Clean => Clean'
  BY <1>2, <1>3 DEF Clean
<1>6. Waiting => Waiting'
  BY <1>2, <1>3 DEF Waiting
<1>. QED BY <1>4, <1>5, <1>6 DEF Served, Left

LEMMA ServedFinished ==
  ASSUME TInv, Alone, Served, UNCHANGED <<sock, peer, srv, cur>>, Finished
  PROVE  Alone' /\ Served'
<1>1. PICK k, s : /\ Reply(d.id, k, s) \in ReplyKind(mix.req) /\ k # "busy"
                  /\ respQ' = Append(respQ, Reply(d.id, k, s))
  BY DEF Finished
<1>. DEFINE r == Reply(d.id, k, s)
<1>2. r \in ReplyKind(mix.req) /\ r.id = d.id /\ r.k # "busy" /\ respQ' = Append(respQ, r)
  BY <1>1 DEF Reply
<1>. HIDE DEF r
<1>3. reqQ' = reqQ /\ d.on /\ ~d'.on
  BY DEF Finished
<1>4. Elems(respQ') = Elems(respQ) \cup {r}
  BY <1>2, ReplyAdded
<1>5. Alone'
  BY <1>2, <1>3, <1>4 DEF Alone
<1>6. reqQ = <<>> /\ ~Clean
  BY <1>3 DEF Alone, Clean
<1>7. Waiting => Waiting'
  <2>. SUFFICES ASSUME Waiting PROVE Waiting'
    OBVIOUS
  <2>1. Blank(respQ) /\ d.id = cur
    BY <1>3 DEF Waiting
  <2>2. OneReply(respQ', cur)
    BY <1>2, <2>1, ReplyAdded
  <2>. QED BY <1>3, <1>6, <2>2, Emptied DEF Waiting
<1>. QED BY <1>5, <1>6, <1>7 DEF Served, Left

LEMMA ServedEntered ==
  ASSUME TInv, Alone, Served, UNCHANGED <<sock, peer, srv, cur>>, Entered
  PROVE  Alone' /\ Served'
<1>1. /\ reqQ # <<>> /\ reqQ' = <<>> /\ respQ' = respQ /\ d'.on
      /\ \E r \in Elems(reqQ) : d'.id = r.id
  BY LastTaken DEF Entered
<1>2. Alone' /\ ~Clean
  BY <1>1 DEF Alone, Clean
<1>3. Waiting => Waiting'
  BY <1>1, Emptied DEF Waiting, OneReply, Blank
<1>. QED BY <1>2, <1>3 DEF Served, Left

LEMMA ServedReplied ==
  ASSUME TInv, Alone, Served, UNCHANGED <<sock, peer, srv, cur>>, Replied
  PROVE  Alone' /\ Served'
<1>. DEFINE x == Head(reqQ).id
<1>1. PICK k : /\ Reply(x, k, x) \in ReplyKind(mix.req) /\ (k = "busy" => d.on)
               /\ respQ' = Append(respQ, Reply(x, k, x))
  BY DEF Replied
<1>. DEFINE r == Reply(x, k, x)
<1>2. /\ reqQ # <<>> /\ reqQ' = <<>> /\ d' = d /\ ~d.on /\ \A y \in Elems(reqQ) : y.id = x
      /\ Head(reqQ) \in Elems(reqQ)
  BY LastTaken DEF Replied, Alone
<1>3. r \in ReplyKind(mix.req) /\ r.id = x /\ r.k # "busy" /\ respQ' = Append(respQ, r)
  BY <1>1, <1>2 DEF Reply
<1>. HIDE DEF r, x
<1>4. Elems(respQ') = Elems(respQ) \cup {r}
  BY <1>3, ReplyAdded
<1>5. Alone' /\ ~Clean
  BY <1>2, <1>3, <1>4 DEF Alone, Clean
<1>6. Waiting => Waiting'
  <2>. SUFFICES ASSUME Waiting PROVE Waiting'
    OBVIOUS
  <2>1. Blank(respQ) /\ x = cur
    BY <1>2 DEF Waiting
  <2>2. OneReply(respQ', cur)
    BY <1>3, <2>1, ReplyAdded
  <2>. QED BY <1>2, <2>2, Emptied DEF Waiting
<1>. QED BY <1>5, <1>6 DEF Served, Left

LEMMA MainStep ==
  ASSUME TInv, LInv, UNCHANGED <<sock, peer, srv, cur, taken>>,
         Kept \/ Lined \/ Finished \/ Entered \/ Replied,
         sock = "drain" => Draining', srv.stopping => main' \in {"join", "end"}
  PROVE  LInv'
<1>1. Alone' /\ Served'
  BY ServedKept, ServedLined, ServedFinished, ServedEntered, ServedReplied DEF LInv
<1>. QED BY <1>1 DEF LInv, Own

LEMMA HeardEffect ==
  ASSUME TInv, NEW e \in EventKind(mix.req), Heard(e), reqQ' = reqQ
  PROVE  (Kept \/ Lined \/ Finished) /\ (d'.on => d.on)
<1>1. CASE d' = d /\ respQ' = respQ
  BY <1>1 DEF Kept
<1>2. CASE d' = d /\ respQ' = Append(respQ, Reply(0, "event", 0))
  BY <1>2 DEF Lined
<1>3. CASE /\ d.on /\ d' = NoEntry /\ respQ' = Append(respQ, Reply(d.id, d.kind, e.src))
           /\ d.kind \in AllKinds /\ e.t # "sess"
  <2>1. Reply(d.id, d.kind, e.src) \in ReplyKind(mix.req) /\ d.kind # "busy"
    <3>1. e.src \in 0 .. mix.req
      BY <1>3 DEF EventKind
    <3>2. d.id \in 0 .. mix.req
      BY Mixed, EntryIs DEF TInv, MainShape
    <3>. QED BY <1>3, <3>1, <3>2 DEF Reply, ReplyKind, AllKinds
  <2>2. ~d'.on
    BY <1>3 DEF NoEntry
  <2>. QED BY <1>3, <2>1, <2>2 DEF Finished
<1>. QED BY <1>1, <1>2, <1>3 DEF Heard

LEMMA EventsLInv ==
  ASSUME TInv, LInv, DrainEvent \/ PumpEvent \/ PumpTimeout
  PROVE  LInv'
<1>1. /\ main \in {"events", "pump"}
      /\ UNCHANGED <<mix, sock, peer, srv, cur, reqQ, taken, passes, seen>>
  BY PumpEventTInv DEF DrainEvent, PumpTimeout, sockVars
<1>2. ~srv.stopping
  BY <1>1 DEF LInv
<1>3. \/ main' = main /\ \E e \in EventKind(mix.req) : Heard(e)
      \/ main = "pump" /\ UNCHANGED <<d, respQ>>
  <2>1. CASE DrainEvent
    BY <2>1, DrainEventTInv, EventTaken DEF DrainEvent
  <2>2. CASE PumpEvent
    BY <2>2, PumpEventTInv, EventTaken
  <2>3. CASE PumpTimeout
    BY <2>3 DEF PumpTimeout
  <2>. QED BY <2>1, <2>2, <2>3
<1>4. (Kept \/ Lined \/ Finished) /\ (d'.on => d.on)
  <2>1. CASE \E e \in EventKind(mix.req) : Heard(e)
    BY <1>1, <2>1, HeardEffect
  <2>2. CASE UNCHANGED <<d, respQ>>
    BY <1>1, <2>2 DEF Kept
  <2>. QED BY <1>3, <2>1, <2>2
<1>5. ASSUME sock = "drain" PROVE Draining'
  <2>1. Draining
    BY <1>5 DEF LInv
  <2>. QED BY <1>1, <1>3, <1>4, <2>1 DEF Draining
<1>. QED BY <1>1, <1>2, <1>4, <1>5, MainStep

LEMMA PollLInv ==
  ASSUME TInv, LInv, passes # Rushed, NEW at \in {"events", "poll2"}, Poll(at)
  PROVE  LInv'
<1>. DEFINE r == Head(reqQ)
<1>1. /\ main = at /\ reqQ # <<>> /\ reqQ' = Tail(reqQ) /\ r \in RequestKind(mix.req)
      /\ UNCHANGED <<mix, sock, peer, srv, cur, seen, taken>>
      /\ passes' = IF at = "poll2" /\ passes < 2 THEN passes + 1 ELSE passes
      /\ Answered(r, at) \/ Deferred(r, at) \/ Opening(r, at, Second)
  BY PollIs
<1>2. reqQ' = <<>>
  BY <1>1, LastTaken DEF LInv
<1>3. ~srv.stopping
  BY <1>1 DEF LInv
<1>4. Replied \/ Entered
  <2>. HIDE DEF r
  <2>1. CASE Answered(r, at)
    <3>1. PICK k \in {"accepted", "read-only", "busy", "waitP", "waitR", "waitE"} :
            respQ' = Append(respQ, Reply(r.id, k, r.id)) /\ (k = "busy" => d.on)
      BY <2>1 DEF Answered
    <3>2. Reply(r.id, k, r.id) \in ReplyKind(mix.req)
      <4>1. r.id \in 0 .. mix.req
        BY <1>1, Mixed DEF RequestKind
      <4>. QED BY <4>1 DEF Reply, ReplyKind, AllKinds
    <3>3. d' = d
      BY <2>1 DEF Answered
    <3>. QED BY <1>1, <3>1, <3>2, <3>3 DEF Replied, r
  <2>2. CASE Deferred(r, at) \/ Opening(r, at, Second)
    <3>1. respQ' = respQ /\ (d' = Entry(r, 0) \/ d' = Entry(r, FreshToken))
      BY <2>2 DEF Deferred, Opening
    <3>2. d'.on /\ d'.id = r.id
      BY <1>1, <3>1, Fresh, EntryTyped
    <3>. QED BY <1>1, <3>1, <3>2 DEF Entered, r
  <2>. QED BY <1>1, <2>1, <2>2
<1>. HIDE DEF r
<1>5. ASSUME sock = "drain" PROVE Draining'
  <2>1. Draining
    BY <1>5 DEF LInv
  <2>2. ~srv.has /\ passes # 2 /\ (passes = 1 => main = "events")
    BY <1>1, <2>1 DEF Draining
  <2>3. main' = After(at)
    BY <1>1, <2>2 DEF Answered, Deferred, Opening
  <2>4. passes \in 0 .. 2
    BY DEF TInv, MainShape, Rushed
  <2>5. CASE at = "events"
    <3>1. main' = "check" /\ passes' = passes
      BY <1>1, <2>3, <2>5 DEF After
    <3>. QED BY <1>1, <1>2, <2>2, <3>1 DEF Draining
  <2>6. CASE at = "poll2"
    <3>1. passes = 0
      BY <1>1, <2>2, <2>4, <2>6
    <3>2. main' = "events" /\ passes' = 1
      BY <1>1, <2>3, <2>6, <3>1 DEF After
    <3>. QED BY <1>1, <1>2, <2>2, <3>2 DEF Draining
  <2>. QED BY <2>5, <2>6
<1>. QED BY <1>1, <1>3, <1>4, <1>5, MainStep

LEMMA CheckLInv ==
  ASSUME TInv, LInv, CheckHasClient \/ CheckBind \/ CheckDeadline \/ Expire
  PROVE  LInv'
<1>0. d \in EntryKind(mix.req) /\ seen \in SeenKind /\ mix.req \in Nat
  BY Mixed DEF TInv, MainShape
<1>1. CASE CheckHasClient
  <2>1. /\ main = "check" /\ main' = "bind" /\ seen' = [seen EXCEPT !.has = srv.has]
        /\ UNCHANGED <<sock, peer, srv, cur, reqQ, taken, d, respQ, passes>>
    BY <1>1 DEF CheckHasClient, sockVars
  <2>2. seen'.has = srv.has
    BY <1>0, <2>1 DEF SeenKind
  <2>3. ASSUME sock = "drain" PROVE Draining'
    BY <2>1, <2>2, <2>3 DEF LInv, Draining
  <2>4. Kept /\ ~srv.stopping
    BY <2>1 DEF Kept, LInv
  <2>. QED BY <2>1, <2>3, <2>4, MainStep
<1>2. CASE CheckBind
  <2>1. Bind
    BY <1>2, CheckBindTInv
  <2>2. /\ main = "bind" /\ seen' = [seen EXCEPT !.ep = srv.epoch]
        /\ main' = "deadline" \/ (main' = "pump" /\ srv.has)
        /\ UNCHANGED <<sock, peer, srv, cur, reqQ, taken, d, respQ, passes>>
    BY <2>1 DEF Bind, sockVars
  <2>3. seen'.has = seen.has
    BY <1>0, <2>2 DEF SeenKind
  <2>4. ASSUME sock = "drain" PROVE Draining'
    BY <2>2, <2>3, <2>4 DEF LInv, Draining
  <2>5. Kept /\ ~srv.stopping
    BY <2>2 DEF Kept, LInv
  <2>. QED BY <2>2, <2>4, <2>5, MainStep
<1>3. CASE CheckDeadline
  <2>1. /\ main = "deadline" /\ main' = "poll2"
        /\ UNCHANGED <<sock, peer, srv, cur, reqQ, taken, passes>>
        /\ \/ ~FormerEntry /\ d' = d /\ respQ' = respQ
           \/ d' = NoEntry /\ respQ' = respQ
           \/ /\ d.on /\ d' = NoEntry
              /\ respQ' = Append(respQ, Reply(d.id, "timeout", d.id))
    BY <1>3 DEF CheckDeadline, CheckDeadlineWith, TimeoutPosted, LateEntry, sockVars
  <2>2. ~NoEntry.on
    BY DEF NoEntry
  <2>3. Kept \/ Finished
    <3>1. Reply(d.id, "timeout", d.id) \in ReplyKind(mix.req)
      BY <1>0, EntryIs DEF Reply, ReplyKind
    <3>2. CASE respQ' = respQ
      BY <2>1, <2>2, <3>2 DEF Kept
    <3>3. CASE /\ d.on /\ d' = NoEntry
               /\ respQ' = Append(respQ, Reply(d.id, "timeout", d.id))
      BY <2>1, <2>2, <3>1, <3>3 DEF Finished
    <3>. QED BY <2>1, <3>2, <3>3
  <2>4. ASSUME sock = "drain" PROVE Draining'
    <3>1. Draining
      BY <2>4 DEF LInv
    <3>2. d'.on => d.on /\ ~FormerEntry
      BY <2>1, <2>2
    <3>3. passes = 1 => ~d'.on
      BY <2>1, <3>1, <3>2 DEF Draining, FormerEntry
    <3>. QED BY <2>1, <3>1, <3>2, <3>3 DEF Draining
  <2>5. ~srv.stopping
    BY <2>1 DEF LInv
  <2>. QED BY <2>1, <2>3, <2>4, <2>5, MainStep
<1>4. CASE Expire
  <2>1. /\ d.on /\ d' = [d EXCEPT !.expired = TRUE]
        /\ UNCHANGED <<sock, peer, srv, cur, reqQ, taken, respQ, passes, main, seen>>
    BY <1>4 DEF Expire, sockVars
  <2>2. d'.on = d.on /\ d'.id = d.id
    BY <1>0, <2>1 DEF EntryKind
  <2>3. ASSUME sock = "drain" PROVE Draining'
    BY <2>1, <2>2, <2>3 DEF LInv, Draining
  <2>4. Kept /\ (srv.stopping => main \in {"join", "end"})
    BY <2>1, <2>2 DEF Kept, LInv
  <2>. QED BY <2>1, <2>3, <2>4, MainStep
<1>. QED BY <1>1, <1>2, <1>3, <1>4

LEMMA EndingLInv ==
  ASSUME TInv, LInv, passes # Rushed, Quit \/ Stop \/ Join \/ PollNothing("events") \/ PollNothing("poll2")
  PROVE  LInv'
<1>1. CASE Quit
  <2>1. /\ main = "events" /\ main' = "stop" /\ d' = NoEntry
        /\ UNCHANGED <<sock, peer, srv, cur, reqQ, respQ, taken, passes, seen>>
    BY <1>1 DEF Quit, sockVars
  <2>2. ~d'.on
    BY <2>1 DEF NoEntry
  <2>3. ASSUME sock = "drain" PROVE Draining'
    BY <2>1, <2>2, <2>3 DEF LInv, Draining
  <2>4. Kept /\ ~srv.stopping
    BY <2>1, <2>2 DEF Kept, LInv
  <2>. QED BY <2>1, <2>3, <2>4, MainStep
<1>2. CASE Stop
  <2>1. /\ main = "stop" /\ main' = "join" /\ srv' = [srv EXCEPT !.stopping = TRUE]
        /\ UNCHANGED <<sock, cur, reqQ, respQ, taken, passes, seen, d>>
        /\ peer' = IF sock # "accept" /\ peer = "open" THEN "gone" ELSE peer
    BY <1>2 DEF Stop
  <2>2. srv'.has = srv.has /\ srv'.stopping
    BY <2>1 DEF TInv, SockShape, SrvKind
  <2>3. /\ Alone' /\ (Clean => Clean') /\ (Waiting => Waiting') /\ (Draining => Draining')
        /\ Own'
    BY <2>1, <2>2 DEF LInv, Alone, Clean, Waiting, Draining, Blank, OneReply, Own
  <2>4. Left => Left'
    BY <2>1, <2>2 DEF Left
  <2>. QED BY <2>1, <2>3, <2>4 DEF LInv, Served
<1>3. CASE Join
  <2>1. /\ sock' = "stopped" /\ main' = "end" /\ reqQ' = <<>> /\ respQ' = <<>> /\ taken' = taken
    BY <1>3 DEF Join
  <2>2. Alone'
    BY <2>1, Emptied DEF Alone
  <2>. QED BY <2>1, <2>2 DEF LInv, Served, Own
<1>4. CASE PollNothing("events") \/ PollNothing("poll2")
  <2>1. /\ UNCHANGED <<sock, peer, srv, cur, reqQ, respQ, taken, seen, d>>
        /\ \/ main = "events" /\ main' = "check" /\ passes' = passes /\ reqQ = <<>>
           \/ /\ main = "poll2" /\ main' = "events"
              /\ passes' = IF passes < 2 THEN passes + 1 ELSE passes
    BY <1>4 DEF PollNothing, After, PollPoint, sockVars
  <2>2. ASSUME sock = "drain" PROVE Draining'
    <3>1. Draining /\ passes \in 0 .. 2
      BY <2>2 DEF LInv, TInv, MainShape, Rushed
    <3>2. CASE main = "events"
      BY <2>1, <3>1, <3>2 DEF Draining
    <3>3. CASE main = "poll2"
      <4>1. main' = "events" /\ passes' = IF passes < 2 THEN passes + 1 ELSE passes
        BY <2>1, <3>3
      <4>2. CASE passes = 0
        <5>1. passes' = 1
          BY <4>1, <4>2
        <5>. QED BY <2>1, <3>1, <4>1, <5>1 DEF Draining
      <4>3. CASE passes = 1
        BY <2>1, <3>1, <3>3, <4>1, <4>3 DEF Draining
      <4>4. CASE passes = 2
        BY <2>1, <3>1, <4>1, <4>4 DEF Draining
      <4>. QED BY <3>1, <4>2, <4>3, <4>4
    <3>. QED BY <2>1, <3>2, <3>3
  <2>3. Kept /\ ~srv.stopping
    BY <2>1 DEF Kept, LInv
  <2>. QED BY <2>1, <2>2, <2>3, MainStep
<1>. QED BY <1>1, <1>2, <1>3, <1>4

\* The client and the worker.
LEMMA AsideLInv ==
  ASSUME TInv, LInv, Connect \/ Hangup \/ Worker \/ BreakpointHit \/ Ended
  PROVE  LInv'
<1>1. /\ UNCHANGED <<sock, srv, cur, reqQ, d, main, seen, passes, respQ, taken>>
      /\ peer' = peer \/ (peer = "none" /\ ~srv.stopping) \/ peer = "open"
  BY DEF Connect, Hangup, Worker, WorkerTake, Publish, BreakpointHit, Ended, sockVars, mainVars,
     vars
<1>2. /\ Alone' /\ (Clean => Clean') /\ (Waiting => Waiting') /\ (Draining => Draining')
      /\ Own'
  BY <1>1 DEF LInv, Alone, Clean, Waiting, Draining, Blank, OneReply, Own
<1>3. sock \in {"accept", "begin", "close"} => Clean' \/ Left'
  BY <1>1, <1>2 DEF LInv, Served, Left
<1>. QED BY <1>1, <1>2, <1>3 DEF LInv, Served

\* The socket thread: the reply it takes is the one reply there is.
LEMMA TakeReplyLInv ==
  ASSUME TInv, LInv, TakeReply \/ FlushUnsolicited
  PROVE  LInv'
<1>. DEFINE h == Head(respQ)
<1>1. /\ respQ # <<>> /\ respQ' = Tail(respQ) /\ UNCHANGED <<srv, reqQ, d, main>>
  BY DEF TakeReply, FlushUnsolicited, sockVars, mainVars
<1>2. respQ \in Seq(ReplyKind(mix.req)) /\ Elems(respQ) = {h} \cup Elems(respQ')
  BY <1>1, Tailed DEF TInv, MainShape
<1>. HIDE DEF h
<1>3. Alone' /\ h.k # "busy"
  BY <1>1, <1>2 DEF LInv, Alone
<1>4. Blank(respQ) => Blank(respQ')
  BY <1>2 DEF Blank
<1>5. CASE FlushUnsolicited
  <2>1. sock = "read" /\ Clean /\ UNCHANGED sock
    BY <1>5 DEF FlushUnsolicited, sockVars, LInv, Served
  <2>2. h.id = 0
    BY <1>2, <2>1 DEF Clean, Blank
  <2>3. taken' = taken
    BY <1>5, <2>2 DEF FlushUnsolicited, h
  <2>4. Clean'
    BY <1>1, <1>4, <2>1 DEF Clean
  <2>. QED BY <1>1, <1>3, <2>1, <2>3, <2>4 DEF LInv, Served, Own
<1>6. CASE TakeReply
  <2>1. sock = "wait" /\ Waiting
    BY <1>6 DEF TakeReply, LInv, Served
  <2>2. OneReply(respQ', cur) /\ (h.id # 0 => Blank(respQ')) /\ (h.id = 0 \/ h.id = cur)
    BY <1>1, <1>2, <2>1, OneLess DEF Waiting, h
  <2>3. CASE h.id = 0
    <3>1. UNCHANGED <<sock, cur, taken>>
      BY <1>6, <2>3 DEF TakeReply, h
    <3>2. Waiting'
      BY <1>1, <1>4, <2>1, <2>2, <3>1 DEF Waiting
    <3>. QED BY <1>1, <1>3, <2>1, <3>1, <3>2 DEF LInv, Served, Own
  <2>4. CASE h.id # 0
    <3>1. /\ sock' = "read" /\ taken' = [asked |-> cur, id |-> h.id, k |-> h.k]
      BY <1>6, <2>4 DEF TakeReply, Taken, h
    <3>2. ~Blank(respQ)
      BY <1>2, <2>4 DEF Blank
    <3>3. Clean'
      BY <1>1, <2>1, <2>2, <2>4, <3>2 DEF Waiting, Clean
    <3>4. Own'
      BY <1>3, <2>2, <2>4, <3>1 DEF Own
    <3>. QED BY <1>1, <1>3, <3>1, <3>3, <3>4 DEF LInv, Served
  <2>. QED BY <2>3, <2>4
<1>. QED BY <1>5, <1>6

\* It leaves a connection, drains and comes back to accept.
LEMMA ConnectionLInv ==
  ASSUME TInv, LInv, passes # Rushed, passes' # Rushed,
         Accept \/ Begin \/ PeerGone \/ DrainDiscard \/ DrainEnd \/ Close \/ AcceptStopped \/ Leave
  PROVE  LInv'
<1>0. srv \in SrvKind
  BY DEF TInv, SockShape
<1>1. /\ UNCHANGED <<reqQ, d, main, seen>>
      /\ respQ' = respQ \/ respQ' = <<>> \/ (respQ # <<>> /\ respQ' = Tail(respQ))
      /\ taken' \in {taken, NoReply}
  BY DEF Accept, Begin, PeerGone, NoteDisconnect, DrainDiscard, DrainEnd, Close, AcceptStopped,
     Leave, sockVars, mainVars
<1>2. Elems(respQ') \subseteq Elems(respQ)
  <2>1. respQ # <<>> => Elems(respQ) = {Head(respQ)} \cup Elems(Tail(respQ))
    BY Tailed DEF TInv, MainShape
  <2>. QED BY <1>1, <2>1, Emptied
<1>3. Alone' /\ Own' /\ (Clean => Clean')
  <2>1. Alone'
    BY <1>1, <1>2 DEF LInv, Alone
  <2>2. Own'
    BY <1>1 DEF LInv, Own, NoReply
  <2>3. Clean => Clean'
    BY <1>1, <1>2 DEF Clean, Blank
  <2>. QED BY <2>1, <2>2, <2>3
<1>4. srv.stopping' = srv.stopping
  BY <1>0 DEF Accept, Begin, PeerGone, NoteDisconnect, DrainDiscard, DrainEnd, Close,
     AcceptStopped, Leave, sockVars, SrvKind
<1>5. srv.stopping' => main' \in {"join", "end"}
  BY <1>1, <1>4 DEF LInv
<1>. SUFFICES Served' /\ (sock' = "drain" => Draining')
  BY <1>3, <1>5 DEF LInv
<1>6. CASE Accept
  <2>1. sock = "accept" /\ peer # "none" /\ sock' = "begin"
    BY <1>6 DEF Accept
  <2>2. Clean
    BY <2>1 DEF LInv, Served, Left
  <2>. QED BY <1>3, <2>1, <2>2 DEF Served
<1>7. CASE Begin
  <2>1. sock = "begin" /\ sock' = "read"
    BY <1>7 DEF Begin
  <2>2. Clean
    BY <2>1 DEF LInv, Served, Left
  <2>. QED BY <1>3, <2>1, <2>2 DEF Served
<1>8. CASE PeerGone
  <2>1. /\ sock' = "drain" /\ passes' = 0
        /\ srv' = [srv EXCEPT !.has = FALSE, !.epoch = @ + 1]
    BY <1>8 DEF PeerGone, NoteDisconnect
  <2>2. ~srv'.has
    BY <1>0, <2>1 DEF SrvKind
  <2>. QED BY <2>1, <2>2 DEF Served, Draining
<1>9. CASE DrainDiscard
  <2>1. sock = "drain" /\ UNCHANGED <<sock, srv, passes>>
    BY <1>9 DEF DrainDiscard, sockVars, mainVars
  <2>. QED BY <1>1, <2>1 DEF LInv, Served, Draining
<1>10. CASE DrainEnd
  <2>1. /\ sock = "drain" /\ sock' = "close" /\ respQ' = <<>> /\ UNCHANGED srv
        /\ passes \in 0 .. 2
        /\ passes' = IF passes < 2 /\ Unserved /\ ~srv.stopping THEN Rushed ELSE passes
    BY <1>10 DEF DrainEnd, TInv, MainShape, Rushed
  <2>2. CASE passes = 2 \/ ~Unserved
    <3>1. reqQ = <<>> /\ ~d.on
      BY <2>1, <2>2 DEF LInv, Draining, Unserved
    <3>2. Clean'
      BY <1>1, <2>1, <3>1, Emptied DEF Clean, Blank
    <3>. QED BY <2>1, <3>2 DEF Served
  <2>3. CASE srv.stopping
    BY <2>1, <2>3 DEF Served, Left
  <2>4. passes = 2 \/ ~Unserved \/ srv.stopping
    BY <2>1
  <2>. QED BY <2>2, <2>3, <2>4
<1>11. CASE Close
  <2>1. sock = "close" /\ sock' = "accept" /\ peer' = "none" /\ UNCHANGED srv
    BY <1>11 DEF Close
  <2>. QED BY <1>3, <2>1 DEF LInv, Served, Left
<1>12. CASE AcceptStopped
  <2>1. sock' = "stopped"
    BY <1>12 DEF AcceptStopped
  <2>. QED BY <2>1 DEF Served
<1>13. CASE Leave
  <2>1. sock' = "close" /\ (sock = "read" \/ srv.stopping)
    BY <1>13 DEF Leave
  <2>. QED BY <1>3, <1>4, <2>1 DEF LInv, Served, Left
<1>. QED BY <1>6, <1>7, <1>8, <1>9, <1>10, <1>11, <1>12, <1>13

LEMMA ReadRequestLInv ==
  ASSUME TInv, LInv, NEW k, ReadRequest(k)
  PROVE  LInv'
<1>. DEFINE r == [id |-> count.req + 1, kind |-> k]
<1>1. /\ sock = "read" /\ sock' = "wait" /\ cur' = count.req + 1 /\ reqQ' = Append(reqQ, r)
      /\ taken' = NoReply /\ UNCHANGED <<srv, respQ, d, main>>
      /\ count.req < mix.req /\ k \in mix.kinds \ {"quit"}
  BY DEF ReadRequest, mainVars
<1>2. Clean
  BY <1>1 DEF LInv, Served
<1>3. r \in RequestKind(mix.req) /\ r.id = cur'
  <2>1. k \in AllKinds \ {"quit"}
    BY <1>1, Mixed
  <2>2. count.req + 1 \in 1 .. mix.req
    BY <1>1, Counted, Mixed
  <2>. QED BY <1>1, <2>1, <2>2 DEF RequestKind
<1>. HIDE DEF r
<1>4. Elems(reqQ') = {r} /\ Len(reqQ') = 1
  <2>1. Elems(reqQ') = Elems(reqQ) \cup {r} /\ Len(reqQ') = Len(reqQ) + 1
    BY <1>1, <1>3, Appended DEF TInv, SockShape
  <2>2. Elems(reqQ) = {} /\ Len(reqQ) = 0
    BY <1>2, Emptied DEF Clean
  <2>. QED BY <2>1, <2>2
<1>5. Alone'
  BY <1>1, <1>2, <1>4 DEF LInv, Alone, Clean
<1>6. OneReply(respQ', cur') /\ Blank(respQ')
  <2>1. Blank(respQ)
    BY <1>2 DEF Clean
  <2>2. \A i \in DOMAIN respQ : respQ[i].id = 0
    BY <2>1 DEF Blank, Elems
  <2>. QED BY <1>1, <2>1, <2>2 DEF Blank, OneReply
<1>7. Waiting'
  BY <1>1, <1>2, <1>3, <1>4, <1>6 DEF Waiting, Clean
<1>8. Own'
  BY <1>1 DEF Own, NoReply
<1>. QED BY <1>1, <1>5, <1>7, <1>8 DEF LInv, Served

\* A drain that ended too early is not made good.
LEMMA StaysRushed == ASSUME TInv, passes = Rushed, Next PROVE passes' = Rushed
<1>. USE DEF sockVars, mainVars
<1>1. CASE Connect \/ Hangup \/ Leave \/ (\E k \in mix.kinds : ReadRequest(k))
  BY <1>1 DEF Connect, Hangup, Leave, ReadRequest
<1>2. CASE Socket
  BY <1>2 DEF Socket, Accept, Begin, FlushUnsolicited, PeerGone, NoteDisconnect, TakeReply,
     DrainDiscard, DrainEnd, Close, AcceptStopped, Rushed
<1>3. CASE Worker \/ BreakpointHit \/ PumpTimeout \/ Expire \/ Quit \/ Ended
  BY <1>3 DEF Worker, WorkerTake, Publish, BreakpointHit, PumpTimeout, Expire, Quit, Ended, vars
<1>4. CASE DrainEvent \/ CheckHasClient \/ CheckBind \/ PumpEvent \/ CheckDeadline \/ Stop \/ Join
  BY <1>4 DEF DrainEvent, CheckHasClient, CheckBind, PumpEvent, CheckDeadline, CheckDeadlineWith,
     Stop, Join
<1>5. CASE \E at \in {"events", "poll2"} : Poll(at) \/ PollNothing(at)
  BY <1>5 DEF Poll, PollNothing, Rushed
<1>. QED BY <1>1, <1>2, <1>3, <1>4, <1>5 DEF Next, Main

LEMMA NextRInv == ASSUME TInv, RInv, Next PROVE RInv'
<1>. SUFFICES ASSUME passes' # Rushed PROVE LInv'
  BY DEF RInv, Rushed
<1>0. passes # Rushed /\ LInv
  BY StaysRushed DEF RInv
<1>1. CASE Connect \/ Hangup \/ Worker \/ BreakpointHit \/ Ended
  BY <1>0, <1>1, AsideLInv
<1>2. CASE Socket \/ Leave \/ (\E k \in mix.kinds : ReadRequest(k))
  BY <1>0, <1>2, TakeReplyLInv, ConnectionLInv, ReadRequestLInv DEF Socket
<1>3. CASE Main \/ PumpTimeout \/ Expire \/ Quit
  BY <1>0, <1>3, EventsLInv, CheckLInv, EndingLInv, PollLInv DEF Main
<1>. QED BY <1>1, <1>2, <1>3 DEF Next

LEMMA InitLInv == ASSUME Init PROVE LInv
<1>1. /\ sock = "accept" /\ reqQ = <<>> /\ respQ = <<>> /\ ~d.on /\ taken = NoReply
      /\ ~srv.stopping
  BY DEF Init, NoEntry
<1>2. Clean /\ Alone
  BY <1>1, Emptied DEF Clean, Alone, Blank
<1>. QED BY <1>1, <1>2 DEF LInv, Served, Own, NoReply

\* The lock step of control_server.c, which compares no ids: every reply a
\* client reads answers the request it waits for, and none is refused for an
\* entry left behind, as long as no drain ended with a request of its client
\* unserved before the main loop had made two passes.
THEOREM RepliesAreOwn == Spec => []OwnReply
<1>1. TInv /\ RInv /\ [Next]_vars => RInv'
  <2>1. CASE Next
    BY <2>1, NextRInv
  <2>2. CASE UNCHANGED vars
    BY <2>2 DEF vars, RInv, LInv, Alone, Served, Left, Clean, Waiting, Draining, Blank, OneReply,
       Own, Rushed
  <2>. QED BY <2>1, <2>2
<1>2. Init => RInv
  BY InitLInv DEF RInv
<1>3. Spec => []RInv
  BY <1>1, <1>2, Typing, PTL DEF Spec
<1>4. RInv => OwnReply
  BY DEF RInv, LInv, Own, OwnReply
<1>. QED BY <1>3, <1>4, PTL

-----------------------------------------------------------------------------
(* Sessions.                                                               *)

LEMMA AffordLess ==
  ASSUME NEW n \in Nat, NEW S, Afforded(S, n), NEW T, T \subseteq S
  PROVE  Afforded(T, n)
<1>1. IsFiniteSet(T) /\ Cardinality(T) <= Cardinality(S)
  BY FS_Subset DEF Afforded
<1>2. Cardinality(T) \in Nat /\ Cardinality(S) \in Nat /\ Cardinality(S) <= n
  BY <1>1, FS_CardinalityType DEF Afforded
<1>3. Cardinality(T) <= n
  BY <1>1, <1>2
<1>. QED BY <1>1, <1>3 DEF Afforded

LEMMA AffordMore ==
  ASSUME NEW n \in Nat, NEW S, Afforded(S, n), NEW y, NEW T, T \subseteq S \cup {y}
  PROVE  Afforded(T, n + 1)
<1>1. IsFiniteSet(S \cup {y})
      /\ Cardinality(S \cup {y}) = IF y \in S THEN Cardinality(S) ELSE Cardinality(S) + 1
  BY FS_AddElement DEF Afforded
<1>2. Cardinality(S) \in Nat /\ Cardinality(S) <= n
  BY FS_CardinalityType DEF Afforded
<1>3. Cardinality(S \cup {y}) <= n + 1
  BY <1>1, <1>2
<1>4. Afforded(S \cup {y}, n + 1)
  BY <1>1, <1>3 DEF Afforded
<1>5. n + 1 \in Nat
  OBVIOUS
<1>. QED BY <1>4, <1>5, AffordLess

LEMMA AffordSwap ==
  ASSUME NEW n \in Nat, NEW S, Afforded(S, n), NEW x \in S, NEW y, NEW T,
         T \subseteq (S \ {x}) \cup {y}
  PROVE  Afforded(T, n)
<1>1. IsFiniteSet(S \ {x}) /\ Cardinality(S \ {x}) = Cardinality(S) - 1
  BY FS_RemoveElement DEF Afforded
<1>2. Cardinality(S) \in Nat /\ Cardinality(S) <= n /\ Cardinality(S \ {x}) \in Nat
  BY <1>1, FS_CardinalityType DEF Afforded
<1>3. n - 1 \in Nat /\ (n - 1) + 1 = n /\ Cardinality(S \ {x}) <= n - 1
  BY <1>1, <1>2
<1>4. Afforded(S \ {x}, n - 1)
  BY <1>1, <1>3 DEF Afforded
<1>5. Afforded(T, (n - 1) + 1)
  <2>. DEFINE m == n - 1
              R == S \ {x}
  <2>1. m \in Nat /\ Afforded(R, m) /\ T \subseteq R \cup {y}
    BY <1>3, <1>4
  <2>. HIDE DEF m, R
  <2>2. Afforded(T, m + 1)
    BY <2>1, AffordMore
  <2>. QED BY <2>2 DEF m
<1>. QED BY <1>3, <1>5

LEMMA ClosingIs ==
  ASSUME NEW q
  PROVE  ClosingIds(q) = {c.src : c \in {x \in Elems(q) : x.op = "close"}}
BY DEF ClosingIds, Elems

LEMMA OpensTail ==
  ASSUME NEW K, NEW q \in Seq(K), q # <<>>, OpensOnce(q)
  PROVE  /\ OpensOnce(Tail(q))
         /\ Head(q).op = "open" =>
              \A c \in Elems(Tail(q)) : c.op = "open" => c.tok # Head(q).tok
<1>. DEFINE a == Tail(q)
<1>1. /\ Len(q) \in Nat \ {0} /\ DOMAIN q = 1 .. Len(q) /\ Head(q) = q[1]
      /\ \A i \in DOMAIN a : i \in Nat \ {0} /\ i + 1 \in DOMAIN q /\ a[i] = q[i + 1]
  BY Tailed
<1>. HIDE DEF a
<1>2. 1 \in DOMAIN q
  BY <1>1
<1>3. OpensOnce(a)
  <2>. SUFFICES ASSUME NEW i \in DOMAIN a, NEW j \in DOMAIN a, a[i].op = "open",
                       a[j].op = "open", a[i].tok = a[j].tok
                PROVE  i = j
    BY DEF OpensOnce
  <2>1. i + 1 = j + 1
    BY <1>1 DEF OpensOnce
  <2>. QED BY <1>1, <2>1
<1>4. ASSUME Head(q).op = "open", NEW i \in DOMAIN a, a[i].op = "open"
      PROVE  a[i].tok # Head(q).tok
  <2>1. i + 1 # 1
    BY <1>1
  <2>. QED BY <1>1, <1>2, <1>4, <2>1 DEF OpensOnce
<1>. QED BY <1>3, <1>4 DEF Elems, a

LEMMA OpensAppend ==
  ASSUME NEW K, NEW q \in Seq(K), NEW e \in K, OpensOnce(q),
         e.op = "open" => \A c \in Elems(q) : c.op = "open" => c.tok # e.tok
  PROVE  OpensOnce(Append(q, e))
<1>. DEFINE a == Append(q, e)
            n == Len(q)
<1>1. /\ n \in Nat /\ DOMAIN q = 1 .. n
      /\ DOMAIN a = 1 .. n + 1 /\ a[n + 1] = e /\ \A i \in 1 .. n : a[i] = q[i]
  OBVIOUS
<1>. HIDE DEF a, n
<1>2. \A i \in DOMAIN a : i = n + 1 \/ (i \in DOMAIN q /\ a[i] = q[i])
  BY <1>1
<1>3. \A i \in DOMAIN q : q[i] \in Elems(q)
  BY DEF Elems
<1>4. OpensOnce(a)
  BY <1>1, <1>2, <1>3 DEF OpensOnce
<1>. QED BY <1>4 DEF a

\* A command that is neither an open nor a close.
LEMMA PlainSent ==
  ASSUME TInv, OpensOnce(cmdQ), NEW c \in CommandKind(mix.req), c.op \notin {"open", "close"},
         cmdQ' = Append(cmdQ, c)
  PROVE  /\ OpensOnce(cmdQ') /\ ClosingIds(cmdQ') = ClosingIds(cmdQ)
         /\ OpenToks(cmdQ') = OpenToks(cmdQ)
         /\ \A x \in Elems(cmdQ') : x.op = "open" => x \in Elems(cmdQ)
<1>1. cmdQ \in Seq(CommandKind(mix.req))
  BY DEF TInv, WorkShape
<1>2. Elems(cmdQ') = Elems(cmdQ) \cup {c} /\ OpensOnce(cmdQ')
  BY <1>1, Appended, OpensAppend
<1>3. /\ {x \in Elems(cmdQ') : x.op = "close"} = {x \in Elems(cmdQ) : x.op = "close"}
      /\ {x \in Elems(cmdQ') : x.op = "open"} = {x \in Elems(cmdQ) : x.op = "open"}
  BY <1>2
<1>. QED BY <1>2, <1>3, ClosingIs DEF OpenToks

LEMMA OwesLess ==
  ASSUME TInv, SInv, NEW U, U \subseteq Unheld, NEW P, P \subseteq OpenToks(cmdQ) \ {pump.tok}
  PROVE  Afforded(Owed(U, P), count.late)
<1>1. Owed(U, P) \subseteq Owing
  BY DEF Owed, Owing
<1>2. count.late \in Nat /\ Afforded(Owing, count.late)
  BY Counted DEF SInv
<1>. QED BY <1>1, <1>2, AffordLess

\* Nothing but events that grant nothing, and none that is waited for is lost.
LEMMA SaidLess ==
  ASSUME TInv, SInv, UNCHANGED <<cmdQ, slots, sess, pump>>, count'.late = count.late,
         \A e \in Told' : e \in Told \/ e.t # "sess",
         \A e \in Told : e.t = "sess" /\ e.tok = pump.tok => e \in Told'
  PROVE  SInv'
<1>1. Separate' /\ OneGrant'
  BY DEF SInv, Separate, OneGrant
<1>2. Nonzero' /\ Pumped' /\ OpensOnce(cmdQ')
  BY DEF SInv, Nonzero, Pumped, OpensOnce
<1>3. Granting(Told, pump.tok) \subseteq Granting(Told', pump.tok)
  BY DEF Granting
<1>4. Unheld' \subseteq Unheld
  BY <1>3 DEF Unheld
<1>5. Owing' = Owed(Unheld', OpenToks(cmdQ) \ {pump.tok})
  BY DEF Owing
<1>6. Afforded(Owing', count'.late)
  BY <1>4, <1>5, OwesLess
<1>. QED BY <1>1, <1>2, <1>6 DEF SInv


\* An open is answered: its slot is on its way to the pump, or owed from now on
\* in the place of its token.
LEMMA OpenTakenSInv ==
  ASSUME TInv, SInv, WorkerTake, Head(cmdQ).op = "open"
  PROVE  SInv'
<1>. DEFINE c == Head(cmdQ)
            s == IF Cardinality(slots) < MaxSessions THEN FreshSession ELSE 0
            e == Event("sess", c.tok, s, s # 0)
<1>1. /\ cmdQ' = Tail(cmdQ) /\ cmdQ # <<>> /\ out = <<>> /\ out' = <<e>>
      /\ slots' = IF s # 0 THEN slots \cup {s} ELSE slots
      /\ UNCHANGED <<evQ, count, pump, sess>>
  BY DEF WorkerTake, Resulting, mainVars
<1>2. /\ s \in Nat /\ c.op = "open" /\ e.t = "sess" /\ e.tok = c.tok /\ e.src = s
      /\ s # 0 => e.on
  BY FreshSessionIs DEF Event
<1>. HIDE DEF c, s, e
<1>3. /\ Elems(cmdQ) = {c} \cup Elems(cmdQ') /\ OpensOnce(cmdQ')
      /\ \A x \in Elems(cmdQ') : x.op = "open" => x.tok # c.tok
  BY <1>1, <1>2, Tailed, OpensTail DEF TInv, WorkShape, SInv, c
<1>4. Elems(out') = {e} /\ Elems(out) = {}
  BY <1>1 DEF Elems
<1>5. Told' = Told \cup {e}
  BY <1>1, <1>4 DEF Told
<1>6. \A f \in Told : f.t = "sess" => f.tok # c.tok
  BY <1>2, <1>3 DEF SInv, Separate
<1>7. Separate' /\ OneGrant'
  BY <1>2, <1>3, <1>5, <1>6 DEF SInv, Separate, OneGrant
<1>8. Nonzero' /\ Pumped'
  BY <1>1, <1>2, <1>3, <1>5 DEF SInv, Nonzero, Pumped
<1>9. Granting(Told', pump.tok) = Granting(Told, pump.tok) \cup (IF c.tok = pump.tok THEN {s} ELSE {})
  BY <1>2, <1>5 DEF Granting
<1>10. ClosingIds(cmdQ') = ClosingIds(cmdQ)
  <2>1. {x \in Elems(cmdQ') : x.op = "close"} = {x \in Elems(cmdQ) : x.op = "close"}
    BY <1>2, <1>3
  <2>. QED BY <2>1, ClosingIs
<1>11. OpenToks(cmdQ') = OpenToks(cmdQ) \ {c.tok} /\ c.tok \in OpenToks(cmdQ)
  BY <1>2, <1>3 DEF OpenToks
<1>12. Owing' = Owed(Unheld', OpenToks(cmdQ') \ {pump.tok})
  BY <1>1 DEF Owing
<1>13. CASE c.tok = pump.tok
  <2>1. Unheld' \subseteq Unheld
    BY <1>1, <1>9, <1>10, <1>13 DEF Unheld
  <2>2. Afforded(Owing', count'.late)
    BY <1>1, <1>11, <1>12, <2>1, OwesLess
  <2>. QED BY <1>3, <1>7, <1>8, <2>2 DEF SInv
<1>14. CASE c.tok # pump.tok
  <2>1. Unheld' \subseteq Unheld \cup {s}
    BY <1>1, <1>9, <1>10, <1>14 DEF Unheld
  <2>2. <<1, c.tok>> \in Owing
    BY <1>11, <1>14 DEF Owing, Owed
  <2>3. Owing' \subseteq (Owing \ {<<1, c.tok>>}) \cup {<<0, s>>}
    BY <1>11, <1>12, <2>1 DEF Owing, Owed
  <2>4. count.late \in Nat /\ Afforded(Owing, count.late)
    BY Counted DEF SInv
  <2>5. Afforded(Owing', count.late)
    <3>. DEFINE x == <<1, c.tok>>
                y == <<0, s>>
    <3>1. x \in Owing /\ Owing' \subseteq (Owing \ {x}) \cup {y}
      BY <2>2, <2>3
    <3>. HIDE DEF x, y
    <3>2. \A T : T \subseteq (Owing \ {x}) \cup {y} => Afforded(T, count.late)
      BY <2>4, <3>1, AffordSwap
    <3>. QED BY <3>1, <3>2
  <2>. QED BY <1>1, <1>3, <1>7, <1>8, <2>5 DEF SInv
<1>. QED BY <1>13, <1>14

LEMMA OtherTakenSInv ==
  ASSUME TInv, SInv, WorkerTake, Head(cmdQ).op # "open"
  PROVE  SInv'
<1>. DEFINE c == Head(cmdQ)
<1>1. /\ c \in CommandKind(mix.req) /\ cmdQ # <<>> /\ out = <<>> /\ cmdQ' = Tail(cmdQ)
      /\ \A e \in Elems(out') : e \in Following(c, mix.req) /\ e.t # "sess"
      /\ UNCHANGED <<evQ, pump, sess, count>>
  BY WorkerTakeTInv DEF WorkerTook, Following, mainVars
<1>2. slots' = IF c.op = "close" THEN slots \ {c.src} ELSE slots
  BY DEF WorkerTake
<1>. HIDE DEF c
<1>3. /\ Elems(cmdQ) = {c} \cup Elems(cmdQ') /\ OpensOnce(cmdQ')
  BY <1>1, Tailed, OpensTail DEF TInv, WorkShape, SInv, c
<1>4. /\ \A e \in Told' : e \in Told \/ e.t # "sess"
      /\ Told \subseteq Told'
  <2>1. Elems(out) = {}
    BY <1>1, Emptied
  <2>. QED BY <1>1, <2>1 DEF Told
<1>5. Separate' /\ OneGrant' /\ Nonzero' /\ Pumped'
  <2>1. Separate' /\ OneGrant'
    BY <1>3, <1>4 DEF SInv, Separate, OneGrant
  <2>2. Nonzero'
    BY <1>2, <1>3, <1>4 DEF SInv, Nonzero
  <2>3. Pumped'
    BY <1>1 DEF SInv, Pumped
  <2>. QED BY <2>1, <2>2, <2>3
<1>6. Unheld' \subseteq Unheld
  <2>1. ClosingIds(cmdQ) \subseteq ClosingIds(cmdQ') \cup (IF c.op = "close" THEN {c.src} ELSE {})
    BY <1>3, ClosingIs
  <2>2. Granting(Told, pump.tok) \subseteq Granting(Told', pump.tok)
    BY <1>4 DEF Granting
  <2>. QED BY <1>1, <1>2, <2>1, <2>2 DEF Unheld
<1>7. Afforded(Owing', count'.late)
  <2>1. OpenToks(cmdQ') \subseteq OpenToks(cmdQ)
    BY <1>3 DEF OpenToks
  <2>2. Owing' = Owed(Unheld', OpenToks(cmdQ') \ {pump.tok})
    BY <1>1 DEF Owing
  <2>. QED BY <1>1, <1>6, <2>1, <2>2, OwesLess
<1>. QED BY <1>3, <1>5, <1>7 DEF SInv

LEMMA WorkerSInv ==
  ASSUME TInv, SInv, Worker \/ BreakpointHit
  PROVE  SInv'
<1>1. CASE WorkerTake
  BY <1>1, OpenTakenSInv, OtherTakenSInv
<1>2. CASE Publish
  <2>1. /\ Elems(out) = {Head(out)} \cup Elems(out') /\ Elems(evQ') = Elems(evQ) \cup {Head(out)}
        /\ UNCHANGED <<cmdQ, slots, sess, pump, count>>
    BY <1>2, PublishTInv DEF mainVars
  <2>2. Told' = Told
    BY <2>1 DEF Told
  <2>. QED BY <2>1, <2>2, SaidLess
<1>3. CASE BreakpointHit
  <2>1. /\ \A e \in Elems(out') : e \in Following(NoCommand, mix.req)
        /\ UNCHANGED <<cmdQ, slots, sess, pump, evQ>> /\ out = <<>>
    BY <1>3, BreakpointHitTInv DEF BreakpointHit, mainVars
  <2>2. count'.late = count.late
    BY <1>3, Counted DEF BreakpointHit, CountKind
  <2>3. \A e \in Elems(out') : e.t # "sess"
    BY <2>1 DEF Following, NoCommand
  <2>4. Elems(out) = {}
    BY <2>1, Emptied
  <2>5. /\ \A e \in Told' : e \in Told \/ e.t # "sess"
        /\ Told \subseteq Told'
    BY <2>1, <2>3, <2>4 DEF Told
  <2>. QED BY <2>1, <2>2, <2>5, SaidLess
<1>. QED BY <1>1, <1>2, <1>3 DEF Worker

LEMMA ReturnQueue ==
  ASSUME TInv, SInv, main = "pump", PumpReturn(d)
  PROVE  /\ OpensOnce(cmdQ') /\ ClosingIds(cmdQ') = ClosingIds(cmdQ)
         /\ OpenToks(cmdQ') = OpenToks(cmdQ)
         /\ \A x \in Elems(cmdQ') : x.op = "open" => x \in Elems(cmdQ)
         /\ pump'.tok = 0 /\ pump'.ret = "none" /\ sess.id = 0
<1>1. /\ pump'.tok = 0 /\ pump'.ret = "none"
      /\ cmdQ' = cmdQ \/ cmdQ' = Append(cmdQ, Command("hist", d.tok, pump.hid))
  BY PumpReturnIs DEF NoPump
<1>2. pump.ret # "none"
  BY DEF TInv, MainShape
<1>3. sess.id = 0
  BY <1>2 DEF SInv, Pumped
<1>4. CASE cmdQ' = cmdQ
  BY <1>1, <1>3, <1>4 DEF SInv
<1>5. CASE cmdQ' = Append(cmdQ, Command("hist", d.tok, pump.hid))
  <2>1. d.tok \in Nat /\ pump.hid \in 0 .. mix.req
    BY Mixed, EntryIs DEF TInv, MainShape, PumpKind
  <2>2. Command("hist", d.tok, pump.hid) \in CommandKind(mix.req)
    BY <2>1, CommandIs
  <2>3. Command("hist", d.tok, pump.hid).op \notin {"open", "close"}
    BY DEF Command
  <2>4. OpensOnce(cmdQ)
    BY DEF SInv
  <2>. QED BY <1>1, <1>3, <1>5, <2>2, <2>3, <2>4, PlainSent
<1>. QED BY <1>1, <1>4, <1>5

\* The grant that the pump waits for: the session is bound.
LEMMA GrantedSInv ==
  ASSUME TInv, SInv, PumpEvent, Head(evQ).t = "sess", Head(evQ).tok = pump.tok
  PROVE  SInv'
<1>. DEFINE e == Head(evQ)
<1>1. /\ main = "pump" /\ evQ # <<>> /\ evQ' = Tail(evQ) /\ e.t = "sess" /\ e.tok = pump.tok
      /\ sess' = IF e.on THEN [id |-> e.src, ep |-> pump.ep] ELSE sess
      /\ PumpReturn(d) /\ UNCHANGED <<out, slots, count>>
  BY DEF PumpEvent
<1>2. Elems(evQ) = {e} \cup Elems(evQ')
  BY <1>1, EventTaken
<1>. HIDE DEF e
<1>3. e \in Told /\ Told' \subseteq Told
  BY <1>1, <1>2 DEF Told
<1>4. /\ OpensOnce(cmdQ') /\ ClosingIds(cmdQ') = ClosingIds(cmdQ)
      /\ OpenToks(cmdQ') = OpenToks(cmdQ)
      /\ \A x \in Elems(cmdQ') : x.op = "open" => x \in Elems(cmdQ)
      /\ pump'.tok = 0 /\ pump'.ret = "none" /\ sess.id = 0
  BY <1>1, ReturnQueue
<1>5. Separate' /\ OneGrant' /\ Nonzero' /\ Pumped'
  BY <1>1, <1>3, <1>4 DEF SInv, Separate, OneGrant, Nonzero, Pumped
<1>6. Unheld' \subseteq Unheld
  <2>. SUFFICES ASSUME NEW x \in Unheld' PROVE x \in Unheld
    OBVIOUS
  <2>1. x \in slots /\ x # sess'.id /\ x \notin ClosingIds(cmdQ) /\ x # 0
    BY <1>1, <1>4 DEF Unheld, SInv, Nonzero
  <2>2. x # e.src
    BY <1>1, <1>3, <2>1 DEF SInv, Nonzero
  <2>3. x \notin Granting(Told, pump.tok)
    BY <1>1, <1>3, <2>2 DEF SInv, OneGrant, Granting
  <2>. QED BY <1>4, <2>1, <2>3 DEF Unheld
<1>7. pump.tok \notin OpenToks(cmdQ)
  BY <1>1, <1>3 DEF SInv, Separate, OpenToks
<1>8. Owing' = Owed(Unheld', OpenToks(cmdQ) \ {pump'.tok})
  BY <1>4 DEF Owing
<1>9. Afforded(Owing', count'.late)
  BY <1>1, <1>6, <1>7, <1>8, OwesLess
<1>. QED BY <1>4, <1>5, <1>9 DEF SInv

\* The pump gives up: one more session may be owed.
LEMMA PumpTimeoutSInv ==
  ASSUME TInv, SInv, PumpTimeout
  PROVE  SInv'
<1>. DEFINE n == count.late + 1
<1>1. /\ main = "pump" /\ PumpReturn(d) /\ count' = [count EXCEPT !.late = n]
      /\ UNCHANGED <<out, evQ, slots, sess>>
  BY DEF PumpTimeout
<1>2. /\ OpensOnce(cmdQ') /\ ClosingIds(cmdQ') = ClosingIds(cmdQ)
      /\ OpenToks(cmdQ') = OpenToks(cmdQ)
      /\ \A x \in Elems(cmdQ') : x.op = "open" => x \in Elems(cmdQ)
      /\ pump'.tok = 0 /\ pump'.ret = "none" /\ sess.id = 0
  BY <1>1, ReturnQueue
<1>3. count.late \in Nat /\ count'.late = n
  BY <1>1, Counted DEF CountKind
<1>4. Told' = Told
  BY <1>1 DEF Told
<1>5. Separate' /\ OneGrant' /\ Nonzero' /\ Pumped'
  BY <1>1, <1>2, <1>4 DEF SInv, Separate, OneGrant, Nonzero, Pumped
<1>6. Unheld' \subseteq Unheld \cup Granting(Told, pump.tok)
  BY <1>1, <1>2, <1>4 DEF Unheld
<1>7. Owing' = Owed(Unheld', OpenToks(cmdQ) \ {pump'.tok})
  BY <1>2 DEF Owing
<1>8. \E y : Owing' \subseteq Owing \cup {y}
  <2>1. CASE pump.tok \in OpenToks(cmdQ)
    <3>1. Granting(Told, pump.tok) = {}
      BY <2>1 DEF SInv, Separate, OpenToks, Granting
    <3>2. Owing' \subseteq Owing \cup {<<1, pump.tok>>}
      BY <1>6, <1>7, <3>1 DEF Owing, Owed
    <3>. QED BY <3>2
  <2>2. CASE pump.tok \notin OpenToks(cmdQ)
    <3>1. PICK x : Granting(Told, pump.tok) \subseteq {x}
      BY DEF SInv, OneGrant, Granting
    <3>2. Owing' \subseteq Owing \cup {<<0, x>>}
      BY <1>6, <1>7, <2>2, <3>1 DEF Owing, Owed
    <3>. QED BY <3>2
  <2>. QED BY <2>1, <2>2
<1>9. Afforded(Owing', count'.late)
  <2>1. PICK y : Owing' \subseteq Owing \cup {y}
    BY <1>8
  <2>2. Afforded(Owing, count.late)
    BY DEF SInv
  <2>. QED BY <1>3, <2>1, <2>2, AffordMore
<1>. QED BY <1>2, <1>5, <1>9 DEF SInv

LEMMA EventsSInv ==
  ASSUME TInv, SInv, DrainEvent \/ PumpEvent \/ PumpTimeout
  PROVE  SInv'
<1>1. CASE DrainEvent \/ (PumpEvent /\ ~(Head(evQ).t = "sess" /\ Head(evQ).tok = pump.tok))
  <2>1. /\ evQ # <<>> /\ evQ' = Tail(evQ) /\ UNCHANGED <<cmdQ, out, slots, sess, pump, count>>
        /\ main = "events" \/ ~(Head(evQ).t = "sess" /\ Head(evQ).tok = pump.tok)
    BY <1>1 DEF DrainEvent, PumpEvent, workVars
  <2>2. Elems(evQ) = {Head(evQ)} \cup Elems(evQ')
    BY <2>1, EventTaken
  <2>3. Told = Told' \cup {Head(evQ)}
    BY <2>1, <2>2 DEF Told
  <2>4. ~(Head(evQ).t = "sess" /\ Head(evQ).tok = pump.tok)
    <3>1. CASE main = "events"
      <4>1. pump.tok = 0
        BY <3>1 DEF TInv, MainShape, SInv, Pumped
      <4>. QED BY <2>3, <4>1 DEF SInv, Nonzero
    <3>. QED BY <2>1, <3>1
  <2>. QED BY <2>1, <2>3, <2>4, SaidLess
<1>2. CASE PumpEvent /\ Head(evQ).t = "sess" /\ Head(evQ).tok = pump.tok
  BY <1>2, GrantedSInv
<1>3. CASE PumpTimeout
  BY <1>3, PumpTimeoutSInv
<1>. QED BY <1>1, <1>2, <1>3

\* The dispatcher gives its session back, or asks for one under a fresh token.
LEMMA ReleasedSInv ==
  ASSUME TInv, SInv, pump.ret = "none", NEW c \in {<<>>, <<Closing>>},
         c = <<>> => sess'.id = sess.id, c = <<Closing>> => sess'.id = 0,
         UNCHANGED <<out, evQ, slots, count>>,
         \/ cmdQ' = cmdQ \o c /\ pump' = pump
         \/ \E t \in Nat \ {0} : /\ t \notin TokensInUse
                                 /\ cmdQ' = cmdQ \o c \o <<Command("open", t, 0)>>
                                 /\ pump'.tok = t /\ pump'.ret # "none" /\ sess'.id = 0
  PROVE  SInv'
<1>. DEFINE K == CommandKind(mix.req)
            b == cmdQ \o c
            C == IF c = <<>> THEN {} ELSE {Closing}
<1>0. c = <<>> \/ c = <<Closing>>
  OBVIOUS
<1>1. cmdQ \in Seq(K) /\ Closing \in K /\ Closing.op = "close" /\ Closing.src = sess.id
  BY CommandIs DEF Closing, Command
<1>2. (b = cmdQ /\ c = <<>>) \/ (b = Append(cmdQ, Closing) /\ c = <<Closing>>)
  <2>. HIDE DEF K
  <2>1. cmdQ \o <<Closing>> = Append(cmdQ, Closing) /\ cmdQ \o <<>> = cmdQ
    BY <1>1, Joined
  <2>2. c = <<>> => b = cmdQ
    BY <2>1
  <2>3. c = <<Closing>> => b = Append(cmdQ, Closing)
    BY <2>1
  <2>. HIDE DEF b
  <2>. QED BY <1>0, <2>2, <2>3
<1>. HIDE DEF K, b
<1>3. b \in Seq(K) /\ Elems(b) = Elems(cmdQ) \cup C /\ OpensOnce(b)
  <2>1. CASE b = cmdQ /\ c = <<>>
    BY <1>1, <2>1 DEF SInv
  <2>2. CASE b = Append(cmdQ, Closing) /\ c = <<Closing>>
    <3>1. /\ Append(cmdQ, Closing) \in Seq(K) /\ OpensOnce(Append(cmdQ, Closing))
          /\ Elems(Append(cmdQ, Closing)) = Elems(cmdQ) \cup {Closing}
      BY <1>1, Appended, OpensAppend DEF SInv
    <3>2. C = {Closing}
      BY <2>2
    <3>. QED BY <2>2, <3>1, <3>2
  <2>. QED BY <1>2, <2>1, <2>2
<1>4. pump.tok = 0
  BY DEF SInv, Pumped
<1>5. /\ Told' = Told
      /\ (sess'.id = sess.id /\ C = {}) \/ (sess'.id = 0 /\ C = {Closing})
  <2>1. CASE c = <<>>
    <3>1. C = {}
      BY <2>1
    <3>. HIDE DEF C
    <3>2. sess'.id = sess.id
      BY <2>1
    <3>. QED BY <3>1, <3>2 DEF Told
  <2>2. CASE c = <<Closing>>
    <3>1. C = {Closing}
      BY <2>2
    <3>. HIDE DEF C
    <3>2. sess'.id = 0
      BY <2>2
    <3>. QED BY <3>1, <3>2 DEF Told
  <2>. QED BY <1>0, <2>1, <2>2
<1>. HIDE DEF C
<1>6. C \subseteq {Closing}
  BY <1>5
<1>7. Granting(Told, 0) = {}
  BY DEF SInv, Nonzero, Granting
<1>8. OpenToks(b) = OpenToks(cmdQ) /\ ClosingIds(cmdQ) \subseteq ClosingIds(b)
      /\ (C = {Closing} => sess.id \in ClosingIds(b))
  <2>1. {x \in Elems(b) : x.op = "open"} = {x \in Elems(cmdQ) : x.op = "open"}
    BY <1>1, <1>3, <1>6
  <2>2. ClosingIds(cmdQ) \subseteq ClosingIds(b) /\ (C = {Closing} => sess.id \in ClosingIds(b))
    BY <1>1, <1>3, ClosingIs
  <2>. QED BY <2>1, <2>2 DEF OpenToks
<1>9. ASSUME NEW q, ClosingIds(b) \subseteq q
      PROVE  \A g : slots \ ({sess'.id} \cup q \cup g) \subseteq Unheld
  <2>. SUFFICES ASSUME NEW x \in slots, x # sess'.id, x \notin q PROVE x \in Unheld
    OBVIOUS
  <2>1. x # 0
    BY DEF SInv, Nonzero
  <2>2. x # sess.id /\ x \notin ClosingIds(cmdQ)
    BY <1>5, <1>8, <1>9
  <2>. QED BY <1>4, <1>7, <2>2 DEF Unheld
<1>10. CASE cmdQ' = b /\ pump' = pump
  <2>1. Unheld' \subseteq Unheld
    BY <1>9, <1>10 DEF Unheld
  <2>2. Owing' = Owed(Unheld', OpenToks(cmdQ) \ {pump.tok})
    BY <1>8, <1>10 DEF Owing
  <2>3. Afforded(Owing', count'.late)
    BY <2>1, <2>2, OwesLess
  <2>4. \A x \in Elems(cmdQ') : x.op = "open" => x \in Elems(cmdQ)
    BY <1>1, <1>3, <1>6, <1>10
  <2>5. Separate' /\ OneGrant' /\ Nonzero' /\ Pumped'
    BY <1>5, <1>10, <2>4 DEF SInv, Separate, OneGrant, Nonzero, Pumped
  <2>. QED BY <1>3, <1>10, <2>3, <2>5 DEF SInv
<1>11. ASSUME NEW t \in Nat \ {0}, t \notin TokensInUse, cmdQ' = b \o <<Command("open", t, 0)>>,
              pump'.tok = t, pump'.ret # "none", sess'.id = 0
       PROVE  SInv'
  <2>. DEFINE o == Command("open", t, 0)
  <2>1. o \in K /\ o.op = "open" /\ o.tok = t /\ cmdQ' = b \o <<o>>
    BY <1>11, CommandIs DEF Command, K
  <2>. HIDE DEF o
  <2>2. Without(cmdQ, t) /\ Without(out, t) /\ Without(evQ, t)
    BY <1>11, Unused
  <2>3. cmdQ' = Append(b, o)
    BY <1>3, <2>1, Joined
  <2>4. Elems(cmdQ') = Elems(b) \cup {o}
    <3>1. Elems(Append(b, o)) = Elems(b) \cup {o}
      BY <1>3, <2>1, Appended
    <3>. QED BY <2>3, <3>1
  <2>5. \A x \in Elems(b) : x.op = "open" => x \in Elems(cmdQ) /\ x.tok # t
    BY <1>1, <1>3, <1>6, <2>2 DEF Without
  <2>6. OpensOnce(cmdQ')
    <3>1. OpensOnce(Append(b, o))
      BY <1>3, <2>1, <2>5, OpensAppend
    <3>. QED BY <2>3, <3>1
  <2>7. \A e \in Told : e.tok # t
    BY <2>2 DEF Told, Without
  <2>8. Separate' /\ OneGrant' /\ Nonzero' /\ Pumped'
    BY <1>5, <1>11, <2>1, <2>4, <2>5, <2>7 DEF SInv, Separate, OneGrant, Nonzero, Pumped
  <2>9. Unheld' \subseteq Unheld
    <3>1. ClosingIds(b) \subseteq ClosingIds(cmdQ')
      BY <2>4, ClosingIs
    <3>. QED BY <1>9, <3>1 DEF Unheld
  <2>10. OpenToks(cmdQ') \ {t} \subseteq OpenToks(cmdQ) \ {pump.tok}
    <3>1. 0 \notin OpenToks(cmdQ)
      BY DEF SInv, Nonzero, OpenToks
    <3>2. OpenToks(cmdQ') \subseteq OpenToks(b) \cup {t}
      BY <2>1, <2>4 DEF OpenToks
    <3>. QED BY <1>4, <1>8, <3>1, <3>2
  <2>11. Owing' = Owed(Unheld', OpenToks(cmdQ') \ {t})
    BY <1>11 DEF Owing
  <2>12. Afforded(Owing', count'.late)
    BY <2>9, <2>10, <2>11, OwesLess
  <2>. QED BY <2>6, <2>8, <2>12 DEF SInv
<1>. QED BY <1>10, <1>11 DEF b

\* A command of a request changes nothing about sessions.
LEMMA PostedSInv ==
  ASSUME TInv, SInv, UNCHANGED <<out, evQ, slots, count, pump, sess>>,
         \/ cmdQ' = cmdQ
         \/ \E c \in CommandKind(mix.req) :
              c.op \notin {"open", "close"} /\ cmdQ' = Append(cmdQ, c)
  PROVE  SInv'
<1>1. OpensOnce(cmdQ)
  BY DEF SInv
<1>2. /\ OpensOnce(cmdQ') /\ ClosingIds(cmdQ') = ClosingIds(cmdQ)
      /\ OpenToks(cmdQ') = OpenToks(cmdQ)
      /\ \A x \in Elems(cmdQ') : x.op = "open" => x \in Elems(cmdQ)
  BY <1>1, PlainSent
<1>3. Told' = Told
  BY DEF Told
<1>4. Separate' /\ OneGrant' /\ Nonzero' /\ Pumped'
  BY <1>2, <1>3 DEF SInv, Separate, OneGrant, Nonzero, Pumped
<1>5. Owing' = Owing
  BY <1>2, <1>3 DEF Owing, Unheld
<1>. QED BY <1>2, <1>4, <1>5 DEF SInv

LEMMA PollSInv ==
  ASSUME TInv, SInv, NEW at \in {"events", "poll2"}, Poll(at)
  PROVE  SInv'
<1>. DEFINE r == Head(reqQ)
<1>1. /\ main = at /\ r \in RequestKind(mix.req) /\ UNCHANGED <<out, slots, evQ, count>>
      /\ Answered(r, at) \/ Deferred(r, at) \/ Opening(r, at, Second)
  BY PollIs
<1>2. FreshToken \in Nat /\ 0 \in Nat /\ Second \in Nat \ {0} /\ Second \notin TokensInUse
  BY Fresh DEF Second
<1>. HIDE DEF r
<1>3. r.id \in 0 .. mix.req /\ pump.ret = "none"
  BY <1>1, <1>2, EntryTyped DEF TInv, MainShape
<1>4. CASE Answered(r, at) \/ Deferred(r, at)
  <2>1. /\ UNCHANGED <<pump, sess>>
        /\ \/ cmdQ' = cmdQ
           \/ \E op \in {"run", "pause", "step", "reset", "enter", "leave", "cpu", "list", "mach",
                         "hist"}, t \in Nat : cmdQ' = Append(cmdQ, Command(op, t, r.id))
    BY <1>2, <1>4 DEF Answered, Deferred, Tokened
  <2>2. CASE cmdQ' = cmdQ
    BY <1>1, <2>1, <2>2, PostedSInv
  <2>3. ASSUME NEW op \in {"run", "pause", "step", "reset", "enter", "leave", "cpu", "list", "mach",
                           "hist"}, NEW t \in Nat, cmdQ' = Append(cmdQ, Command(op, t, r.id))
        PROVE  SInv'
    <3>1. Command(op, t, r.id) \in CommandKind(mix.req)
      BY <1>3, CommandIs
    <3>2. Command(op, t, r.id).op \notin {"open", "close"}
      BY DEF Command
    <3>. QED BY <1>1, <2>1, <2>3, <3>1, <3>2, PostedSInv
  <2>. QED BY <2>1, <2>2, <2>3
<1>5. CASE Opening(r, at, Second)
  <2>. DEFINE c == ReleaseCommands
  <2>1. c \in {<<>>, <<Closing>>} /\ (c = <<>> => sess.id = 0)
    BY ReleaseIs DEF ReleaseCommands
  <2>2. /\ sess'.id = 0 /\ pump'.tok = Second /\ pump'.ret # "none"
        /\ cmdQ' = cmdQ \o c \o <<Command("open", Second, 0)>>
    BY <1>5 DEF Opening
  <2>. HIDE DEF c
  <2>. QED BY <1>1, <1>2, <1>3, <2>1, <2>2, ReleasedSInv
<1>. QED BY <1>1, <1>4, <1>5

LEMMA CheckBindSInv ==
  ASSUME TInv, SInv, CheckBind
  PROVE  SInv'
<1>. DEFINE release == sess.id # 0 /\ (~seen.has \/ sess.ep # srv.epoch)
            c == IF release THEN <<Closing>> ELSE <<>>
            open == seen.has /\ (release \/ sess.id = 0) /\ srv.has
            t == FreshToken
<1>1. /\ main = "bind" /\ UNCHANGED <<out, slots, evQ, count>>
      /\ sess' = IF release THEN [id |-> 0, ep |-> 0] ELSE sess
      /\ IF open
           THEN /\ cmdQ' = cmdQ \o c \o <<Command("open", t, 0)>>
                /\ pump' = [tok |-> t, ep |-> srv.epoch, ret |-> "bind", hid |-> 0]
           ELSE cmdQ' = cmdQ \o c /\ UNCHANGED pump
  BY DEF CheckBind, Closing
<1>2. t \in Nat \ {0} /\ t \notin TokensInUse
  BY Fresh
<1>3. pump.ret = "none"
  BY <1>1 DEF TInv, MainShape
<1>4. c \in {<<>>, <<Closing>>} /\ (c = <<>> => ~release) /\ (c = <<Closing>> => release)
  OBVIOUS
<1>5. (release => sess'.id = 0) /\ (~release => sess'.id = sess.id) /\ (open => sess'.id = 0)
  BY <1>1
<1>6. CASE open
  <2>1. /\ cmdQ' = cmdQ \o c \o <<Command("open", t, 0)>>
        /\ pump'.tok = t /\ pump'.ret # "none" /\ sess'.id = 0
    BY <1>1, <1>5, <1>6
  <2>. HIDE DEF release, open, c, t
  <2>. QED BY <1>1, <1>2, <1>3, <1>4, <1>5, <2>1, ReleasedSInv
<1>7. CASE ~open
  <2>1. cmdQ' = cmdQ \o c /\ pump' = pump
    BY <1>1, <1>7
  <2>. HIDE DEF release, open, c, t
  <2>. QED BY <1>1, <1>3, <1>4, <1>5, <2>1, ReleasedSInv
<1>. QED BY <1>6, <1>7

LEMMA QuitSInv ==
  ASSUME TInv, SInv, Quit
  PROVE  SInv'
<1>. DEFINE c == ReleaseCommands
<1>1. /\ main = "events" /\ sess'.id = 0 /\ cmdQ' = cmdQ \o c
      /\ UNCHANGED <<out, evQ, slots, count, pump>>
  BY DEF Quit
<1>2. pump.ret = "none"
  BY <1>1 DEF TInv, MainShape
<1>3. c \in {<<>>, <<Closing>>} /\ (c = <<>> => sess'.id = sess.id)
  BY <1>1, ReleaseIs DEF ReleaseCommands
<1>. HIDE DEF c
<1>. QED BY <1>1, <1>2, <1>3, ReleasedSInv

LEMMA AsideSInv ==
  ASSUME TInv, SInv,
         \/ Connect \/ Hangup \/ Socket \/ Leave \/ (\E k \in mix.kinds : ReadRequest(k))
         \/ CheckHasClient \/ CheckDeadline \/ Expire \/ Stop \/ Join
         \/ PollNothing("events") \/ PollNothing("poll2") \/ Ended
  PROVE  SInv'
<1>1. UNCHANGED <<cmdQ, slots, sess, pump, out, evQ>>
  BY DEF Connect, Hangup, Socket, Leave, ReadRequest, CheckHasClient, CheckDeadline,
     CheckDeadlineWith, Expire, Stop, Join, PollNothing, Ended, Accept, Begin, FlushUnsolicited,
     PeerGone, TakeReply, DrainDiscard, DrainEnd, Close, AcceptStopped, mainVars, workVars, vars
<1>2. count'.late = count.late
  <2>1. \/ count' = count
        \/ \E n : count' = [count EXCEPT !.req = n] \/ count' = [count EXCEPT !.conn = n]
    BY DEF Connect, Hangup, Socket, Leave, ReadRequest, CheckHasClient, CheckDeadline,
       CheckDeadlineWith, Expire, Stop, Join, PollNothing, Ended, Accept, Begin, FlushUnsolicited,
       PeerGone, TakeReply, DrainDiscard, DrainEnd, Close, AcceptStopped, vars
  <2>. QED BY <2>1, Counted DEF CountKind
<1>3. Told' = Told
  BY <1>1 DEF Told
<1>. QED BY <1>1, <1>2, <1>3, SaidLess

LEMMA NextSInv == ASSUME TInv, SInv, Next PROVE SInv'
<1>1. CASE Worker \/ BreakpointHit
  BY <1>1, WorkerSInv
<1>2. CASE Main \/ PumpTimeout \/ Expire \/ Quit
  BY <1>2, EventsSInv, PollSInv, CheckBindSInv, QuitSInv, AsideSInv DEF Main
<1>3. CASE \/ Connect \/ Hangup \/ Socket \/ Leave \/ (\E k \in mix.kinds : ReadRequest(k))
           \/ Ended
  BY <1>3, AsideSInv
<1>. QED BY <1>1, <1>2, <1>3 DEF Next

LEMMA InitSInv == ASSUME Init PROVE SInv
<1>1. /\ cmdQ = <<>> /\ slots = {} /\ pump.ret = "none" /\ pump.tok = 0 /\ count.late = 0
      /\ Told = {} /\ Elems(cmdQ) = {}
  BY Emptied DEF Init, NoPump, Told
<1>2. OpensOnce(cmdQ) /\ Separate /\ OneGrant /\ Nonzero /\ Pumped
  BY <1>1 DEF OpensOnce, Separate, OneGrant, Nonzero, Pumped
<1>3. Owing = {}
  BY <1>1 DEF Owing, Owed, Unheld, OpenToks
<1>4. Afforded(Owing, count.late)
  BY <1>1, <1>3, FS_EmptySet DEF Afforded
<1>. QED BY <1>2, <1>4 DEF SInv

\* The slots nobody will give back are among what the timeouts account for.
LEMMA SInvAccounts == ASSUME TInv, SInv PROVE SessionsAccounted
<1>. DEFINE f == [x \in Unheld |-> <<0, x>>]
<1>1. IsFiniteSet(Owing) /\ Cardinality(Owing) <= count.late /\ count.late \in Nat
  BY Counted DEF SInv, Afforded
<1>2. \A x \in Unheld : f[x] \in Owing
  BY DEF Owing, Owed
<1>3. f \in Injection(Unheld, Owing)
  BY <1>2 DEF Injection, IsInjective
<1>. HIDE DEF f
<1>4. IsFiniteSet(Unheld) /\ Cardinality(Unheld) <= Cardinality(Owing)
  BY <1>1, <1>3, FS_Injection
<1>5. Cardinality(Unheld) \in Nat /\ Cardinality(Owing) \in Nat
  BY <1>1, <1>4, FS_CardinalityType
<1>6. Cardinality(Unheld) <= count.late
  BY <1>1, <1>4, <1>5
<1>. QED BY <1>6 DEF SessionsAccounted, Unheld, Granting, Told

\* A slot of the runtime's session table is bound, on its way to the pump that
\* waits for it, or on its way back; each other slot is one of the opens that
\* control_dispatch_ensure_session gave up on, and each give-up costs no more
\* than one, whichever of the open, its grant and the give-up comes first.
THEOREM SessionsAreAccounted == Spec => []SessionsAccounted
<1>1. TInv /\ SInv /\ [Next]_vars => SInv'
  <2>1. CASE Next
    BY <2>1, NextSInv
  <2>2. CASE UNCHANGED vars
    BY <2>2 DEF vars, SInv, OpensOnce, Separate, OneGrant, Nonzero, Pumped, Owing, Unheld, Told
  <2>. QED BY <2>1, <2>2
<1>. QED BY <1>1, InitSInv, Typing, SInvAccounts, PTL DEF Spec

-----------------------------------------------------------------------------
(* The mirror of the machine's state.                                      *)

(* What an event tells the mirror: that the machine runs or not, that the  *)
(* Inspector is on or not, or nothing.                                     *)
TellsRun(n) ==
    [e \in EventKind(n) |->
       IF e.t = "running" THEN {TRUE}
       ELSE IF e.t \in Stopping \/ (e.t = "mach" /\ ~e.on) THEN {FALSE} ELSE {}]
TellsInsp(n) ==
    [e \in EventKind(n) |->
       IF e.t = "mach" THEN {e.insp} ELSE IF e.t = "imode" THEN {e.on} ELSE {}]

(* With every event of q heard, what is now `now' will be b.               *)
Silent(q, f) == \A j \in DOMAIN q : f[q[j]] = {}
EndsWith(q, f, b) ==
    \E i \in DOMAIN q : f[q[i]] = {b} /\ \A j \in DOMAIN q : j > i => f[q[j]] = {}
Becomes(q, f, now, b) == (Silent(q, f) /\ now = b) \/ EndsWith(q, f, b)

(* The events still to be heard bring the mirror to the machine's state,   *)
(* except what a queued run, and while inspecting a refused one, claims.   *)
Unheard == evQ \o out
RunPending == \E c \in Elems(cmdQ) : c.op = "run"
MInv ==
    /\ wk.insp => ~wk.run
    /\ Becomes(Unheard, TellsInsp(mix.req), disp.insp, wk.insp)
    /\ wk.insp \/ RunPending \/ Becomes(Unheard, TellsRun(mix.req), disp.running, wk.run)

LEMMA JoinIs ==
  ASSUME NEW K, NEW q \in Seq(K), NEW r \in Seq(K)
  PROVE  /\ q \o r \in Seq(K) /\ Len(q) \in Nat /\ Len(r) \in Nat
         /\ DOMAIN q = 1 .. Len(q) /\ DOMAIN r = 1 .. Len(r)
         /\ DOMAIN (q \o r) = 1 .. Len(q) + Len(r)
         /\ \A i \in 1 .. Len(q) : (q \o r)[i] = q[i]
         /\ \A i \in 1 .. Len(r) : (q \o r)[Len(q) + i] = r[i]
OBVIOUS

\* More is said: it decides, or it is silent and what was said stands.
LEMMA SaidMore ==
  ASSUME NEW K, NEW q \in Seq(K), NEW r \in Seq(K), NEW f, NEW now, NEW b
  PROVE  /\ EndsWith(r, f, b) => EndsWith(q \o r, f, b)
         /\ Silent(r, f) /\ Becomes(q, f, now, b) => Becomes(q \o r, f, now, b)
<1>. DEFINE s == q \o r
            m == Len(q)
            n == Len(r)
<1>1. /\ m \in Nat /\ n \in Nat /\ DOMAIN q = 1 .. m /\ DOMAIN r = 1 .. n
      /\ DOMAIN s = 1 .. m + n
      /\ \A i \in 1 .. m : s[i] = q[i]
      /\ \A i \in 1 .. n : s[m + i] = r[i]
  BY JoinIs
<1>. HIDE DEF s, m, n
<1>2. \A j \in DOMAIN s : j \in DOMAIN q \/ (j - m \in DOMAIN r /\ j = m + (j - m) /\ j > m)
  BY <1>1
<1>3. \A j \in DOMAIN s : (j \in DOMAIN q /\ s[j] = q[j])
                            \/ (j - m \in DOMAIN r /\ s[j] = r[j - m] /\ j > m)
  BY <1>1, <1>2
<1>4. ASSUME EndsWith(r, f, b) PROVE EndsWith(s, f, b)
  <2>1. PICK i \in DOMAIN r : f[r[i]] = {b} /\ \A j \in DOMAIN r : j > i => f[r[j]] = {}
    BY <1>4 DEF EndsWith
  <2>2. m + i \in DOMAIN s /\ f[s[m + i]] = {b}
    BY <1>1, <2>1
  <2>3. ASSUME NEW j \in DOMAIN s, j > m + i PROVE f[s[j]] = {}
    <3>1. j \notin DOMAIN q
      BY <1>1, <2>1, <2>3
    <3>2. j - m \in DOMAIN r /\ s[j] = r[j - m]
      BY <1>3, <3>1
    <3>3. j - m > i
      BY <1>1, <2>1, <2>3
    <3>. QED BY <2>1, <3>2, <3>3
  <2>. QED BY <2>2, <2>3 DEF EndsWith
<1>5. ASSUME Silent(r, f), Silent(q, f) PROVE Silent(s, f)
  BY <1>3, <1>5 DEF Silent
<1>6. ASSUME Silent(r, f), EndsWith(q, f, b) PROVE EndsWith(s, f, b)
  <2>1. PICK i \in DOMAIN q : f[q[i]] = {b} /\ \A j \in DOMAIN q : j > i => f[q[j]] = {}
    BY <1>6 DEF EndsWith
  <2>2. i \in DOMAIN s /\ f[s[i]] = {b}
    BY <1>1, <2>1
  <2>3. \A j \in DOMAIN s : j > i => f[s[j]] = {}
    BY <1>3, <1>6, <2>1 DEF Silent
  <2>. QED BY <2>2, <2>3 DEF EndsWith
<1>. QED BY <1>4, <1>5, <1>6 DEF Becomes, s

\* The first event is heard.
LEMMA HeardFirst ==
  ASSUME NEW K, NEW q \in Seq(K), q # <<>>, NEW f, NEW now, NEW b, Becomes(q, f, now, b)
  PROVE  /\ f[Head(q)] = {} => Becomes(Tail(q), f, now, b)
         /\ \A c : f[Head(q)] = {c} => Becomes(Tail(q), f, c, b)
<1>. DEFINE t == Tail(q)
<1>1. /\ Len(q) \in Nat \ {0} /\ DOMAIN q = 1 .. Len(q) /\ Head(q) = q[1]
      /\ \A i \in DOMAIN t : i \in Nat \ {0} /\ i + 1 \in DOMAIN q /\ t[i] = q[i + 1]
  BY Tailed
<1>2. DOMAIN t = 1 .. Len(q) - 1
  BY <1>1
<1>. HIDE DEF t
<1>3. \A i \in DOMAIN q : i # 1 => i - 1 \in DOMAIN t /\ t[i - 1] = q[i]
  BY <1>1, <1>2
<1>4. 1 \in DOMAIN q
  BY <1>1
<1>5. CASE Silent(q, f)
  <2>1. Silent(t, f) /\ f[Head(q)] = {}
    BY <1>1, <1>4, <1>5 DEF Silent
  <2>. QED BY <1>5, <2>1 DEF Becomes, EndsWith, Silent, t
<1>6. CASE EndsWith(q, f, b)
  <2>1. PICK i \in DOMAIN q : f[q[i]] = {b} /\ \A j \in DOMAIN q : j > i => f[q[j]] = {}
    BY <1>6 DEF EndsWith
  <2>2. CASE i = 1
    <3>1. Silent(t, f)
      <4>. SUFFICES ASSUME NEW j \in DOMAIN t PROVE f[t[j]] = {}
        BY DEF Silent
      <4>1. j + 1 > i /\ j + 1 \in DOMAIN q
        BY <1>1, <2>2
      <4>. QED BY <1>1, <2>1, <4>1
    <3>2. f[Head(q)] = {b}
      BY <1>1, <2>1, <2>2
    <3>. QED BY <3>1, <3>2 DEF Becomes, t
  <2>3. CASE i # 1
    <3>1. i - 1 \in DOMAIN t /\ f[t[i - 1]] = {b}
      BY <1>3, <2>1, <2>3
    <3>2. ASSUME NEW j \in DOMAIN t, j > i - 1 PROVE f[t[j]] = {}
      <4>1. j + 1 > i /\ j + 1 \in DOMAIN q
        BY <1>1, <3>2
      <4>. QED BY <1>1, <2>1, <4>1
    <3>3. EndsWith(t, f, b)
      BY <3>1, <3>2 DEF EndsWith
    <3>. QED BY <3>3 DEF Becomes, t
  <2>. QED BY <2>2, <2>3
<1>. QED BY <1>5, <1>6 DEF Becomes

\* What the short lists of events say that the worker publishes.
LEMMA Lists ==
  ASSUME NEW f, NEW a, NEW b, NEW c, NEW v
  PROVE  /\ Silent(<<>>, f)
         /\ f[a] = {} => Silent(<<a>>, f)
         /\ f[a] = {} /\ f[b] = {} => Silent(<<a, b>>, f)
         /\ f[a] = {} /\ f[b] = {} /\ f[c] = {} => Silent(<<a, b, c>>, f)
         /\ f[a] = {v} => EndsWith(<<a>>, f, v)
         /\ f[b] = {v} => EndsWith(<<a, b>>, f, v)
         /\ f[c] = {v} => EndsWith(<<a, b, c>>, f, v)
         /\ f[c] = {} /\ f[b] = {v} => EndsWith(<<a, b, c>>, f, v)
         /\ f[c] = {} /\ f[b] = {} /\ f[a] = {v} => EndsWith(<<a, b, c>>, f, v)
<1>1. /\ DOMAIN <<a>> = {1} /\ <<a>>[1] = a
      /\ DOMAIN <<a, b>> = {1, 2} /\ <<a, b>>[1] = a /\ <<a, b>>[2] = b
      /\ DOMAIN <<a, b, c>> = {1, 2, 3} /\ <<a, b, c>>[1] = a /\ <<a, b, c>>[2] = b
      /\ <<a, b, c>>[3] = c
  OBVIOUS
<1>2. Silent(<<>>, f)
  BY DEF Silent
<1>3. /\ f[a] = {} => Silent(<<a>>, f)
      /\ f[a] = {} /\ f[b] = {} => Silent(<<a, b>>, f)
      /\ f[a] = {} /\ f[b] = {} /\ f[c] = {} => Silent(<<a, b, c>>, f)
  BY <1>1 DEF Silent
<1>4. /\ f[a] = {v} => EndsWith(<<a>>, f, v)
      /\ f[b] = {v} => EndsWith(<<a, b>>, f, v)
  BY <1>1 DEF EndsWith
<1>5. f[c] = {v} => EndsWith(<<a, b, c>>, f, v)
  BY <1>1 DEF EndsWith
<1>6. f[c] = {} /\ f[b] = {v} => EndsWith(<<a, b, c>>, f, v)
  BY <1>1 DEF EndsWith
<1>7. f[c] = {} /\ f[b] = {} /\ f[a] = {v} => EndsWith(<<a, b, c>>, f, v)
  BY <1>1 DEF EndsWith
<1>. QED BY <1>2, <1>3, <1>4, <1>5, <1>6, <1>7

LEMMA TellsOf ==
  ASSUME NEW n \in Nat, wk \in WkKind
  PROVE  LET f == TellsRun(n)
             g == TellsInsp(n)
         IN /\ \A e \in EventKind(n) :
                 e.t \in {"sc", "brk", "cpu", "hist", "sess"} => f[e] = {} /\ g[e] = {}
            /\ f[StateChanged] = {} /\ g[StateChanged] = {}
            /\ f[Plain("running")] = {TRUE} /\ g[Plain("running")] = {}
            /\ \A t \in Stopping : f[Plain(t)] = {FALSE} /\ g[Plain(t)] = {}
            /\ f[Plain("brk")] = {} /\ g[Plain("brk")] = {}
            /\ \A on \in BOOLEAN : /\ f[Event("imode", 0, 0, on)] = {}
                                   /\ g[Event("imode", 0, 0, on)] = {on}
            /\ \A x \in 0 .. n, on, insp \in BOOLEAN :
                 /\ f[Machine(x, on, insp)] = IF on THEN {} ELSE {FALSE}
                 /\ g[Machine(x, on, insp)] = {insp}
<1>. DEFINE f == TellsRun(n)
            g == TellsInsp(n)
<1>0. ASSUME NEW c PROVE Following(c, n) \subseteq EventKind(n)
  BY DEF Following
<1>1. /\ StateChanged \in EventKind(n)
      /\ \A t \in {"running", "paused", "stepc", "brk"} : Plain(t) \in EventKind(n)
      /\ \A on \in BOOLEAN : Event("imode", 0, 0, on) \in EventKind(n)
      /\ \A x \in 0 .. n, on, insp \in BOOLEAN : Machine(x, on, insp) \in EventKind(n)
  BY <1>0, PlainFollows
<1>2. /\ StateChanged.t = "sc" /\ \A t : Plain(t).t = t
      /\ \A on \in BOOLEAN : Event("imode", 0, 0, on).t = "imode" /\ Event("imode", 0, 0, on).on = on
  BY DEF StateChanged, Plain, Event
<1>3. ASSUME NEW x, NEW on, NEW insp
      PROVE  /\ Machine(x, on, insp).t = "mach" /\ Machine(x, on, insp).on = on
             /\ Machine(x, on, insp).insp = insp
  BY DEF Machine, Event
<1>4. ASSUME NEW e \in EventKind(n)
      PROVE  /\ f[e] = IF e.t = "running" THEN {TRUE}
                       ELSE IF e.t \in Stopping \/ (e.t = "mach" /\ ~e.on) THEN {FALSE} ELSE {}
             /\ g[e] = IF e.t = "mach" THEN {e.insp} ELSE IF e.t = "imode" THEN {e.on} ELSE {}
  BY DEF TellsRun, TellsInsp
<1>. HIDE DEF f, g
<1>5. \A e \in EventKind(n) :
        e.t \in {"sc", "brk", "cpu", "hist", "sess"} => f[e] = {} /\ g[e] = {}
  BY <1>4 DEF Stopping
<1>6. f[StateChanged] = {} /\ g[StateChanged] = {} /\ f[Plain("brk")] = {} /\ g[Plain("brk")] = {}
  BY <1>1, <1>2, <1>5
<1>7. /\ f[Plain("running")] = {TRUE} /\ g[Plain("running")] = {}
      /\ \A t \in Stopping : f[Plain(t)] = {FALSE} /\ g[Plain(t)] = {}
  <2>1. /\ Plain("running") \in EventKind(n) /\ Plain("running").t = "running"
        /\ \A t \in Stopping : Plain(t) \in EventKind(n) /\ Plain(t).t = t
    BY <1>1, <1>2 DEF Stopping
  <2>. QED BY <1>4, <2>1 DEF Stopping
<1>8. ASSUME NEW on \in BOOLEAN
      PROVE  f[Event("imode", 0, 0, on)] = {} /\ g[Event("imode", 0, 0, on)] = {on}
  BY <1>1, <1>2, <1>4 DEF Stopping
<1>9. ASSUME NEW x \in 0 .. n, NEW on \in BOOLEAN, NEW insp \in BOOLEAN
      PROVE  /\ f[Machine(x, on, insp)] = IF on THEN {} ELSE {FALSE}
             /\ g[Machine(x, on, insp)] = {insp}
  <2>. DEFINE e == Machine(x, on, insp)
  <2>1. e \in EventKind(n) /\ e.t = "mach" /\ e.on = on /\ e.insp = insp
    BY <1>1, <1>3
  <2>. HIDE DEF e
  <2>2. (f[e] = IF on THEN {} ELSE {FALSE}) /\ g[e] = {insp}
    BY <1>4, <2>1 DEF Stopping
  <2>. QED BY <2>2 DEF e
<1>. QED BY <1>5, <1>6, <1>7, <1>8, <1>9 DEF f, g

\* The worker says what it does.
LEMMA SaidMInv ==
  ASSUME TInv, MInv, out = <<>>, out' \in Seq(EventKind(mix.req)), wk' \in WkKind,
         UNCHANGED <<mix, evQ, disp>>, wk'.insp => ~wk'.run,
         \/ EndsWith(out', TellsInsp(mix.req), wk'.insp)
         \/ Silent(out', TellsInsp(mix.req)) /\ wk'.insp = wk.insp,
         \/ wk'.insp
         \/ EndsWith(out', TellsRun(mix.req), wk'.run)
         \/ Silent(out', TellsRun(mix.req)) /\ wk' = wk /\ (RunPending => RunPending')
  PROVE  MInv'
<1>. DEFINE f == TellsRun(mix.req)
            g == TellsInsp(mix.req)
            K == EventKind(mix.req)
<1>1. evQ \in Seq(K) /\ evQ \o <<>> = evQ
  BY DEF TInv, WorkShape
<1>2. Unheard = evQ /\ Unheard' = evQ \o out' /\ TellsRun(mix.req)' = f /\ TellsInsp(mix.req)' = g
  BY <1>1 DEF Unheard
<1>. HIDE DEF f, g, K
<1>3. /\ Becomes(evQ, g, disp.insp, wk.insp)
      /\ wk.insp \/ RunPending \/ Becomes(evQ, f, disp.running, wk.run)
  BY <1>2 DEF MInv, f, g
<1>4. out' \in Seq(K)
  BY DEF K
<1>5. Becomes(evQ \o out', g, disp.insp, wk'.insp)
  <2>1. CASE EndsWith(out', g, wk'.insp)
    BY <1>1, <1>4, <2>1, SaidMore DEF Becomes
  <2>2. CASE Silent(out', g) /\ wk'.insp = wk.insp
    BY <1>1, <1>3, <1>4, <2>2, SaidMore
  <2>. QED BY <2>1, <2>2 DEF g
<1>6. wk'.insp \/ RunPending' \/ Becomes(evQ \o out', f, disp.running, wk'.run)
  <2>1. CASE EndsWith(out', f, wk'.run)
    BY <1>1, <1>4, <2>1, SaidMore DEF Becomes
  <2>2. CASE Silent(out', f) /\ wk' = wk /\ (RunPending => RunPending')
    BY <1>1, <1>3, <1>4, <2>2, SaidMore
  <2>. QED BY <2>1, <2>2 DEF f
<1>. QED BY <1>2, <1>5, <1>6 DEF MInv

\* The answer to a command that does not change the machine is silent, or is
\* the machine's state.
LEMMA TakenMInv ==
  ASSUME TInv, MInv, WorkerTake
  PROVE  MInv'
<1>. DEFINE c == Head(cmdQ)
            r == out'
            f == TellsRun(mix.req)
            g == TellsInsp(mix.req)
            s == IF Cardinality(slots) < MaxSessions THEN FreshSession ELSE 0
<1>1. /\ mix.req \in Nat /\ c \in CommandKind(mix.req) /\ out = <<>> /\ cmdQ' = Tail(cmdQ)
      /\ cmdQ # <<>> /\ r \in Seq(EventKind(mix.req)) /\ UNCHANGED <<mix, evQ, disp>>
  BY Mixed, WorkerTakeTInv DEF WorkerTook, sockVars, mainVars
<1>2. wk \in WkKind /\ wk' \in WkKind /\ (wk.insp => ~wk.run)
  BY WorkerTakeTInv DEF TInv, WorkShape, MInv
<1>3. /\ r = Resulting(c, s)
      /\ wk' = CASE c.op = "run" -> [wk EXCEPT !.run = ~wk.insp]
                 [] c.op = "pause" -> [wk EXCEPT !.run = FALSE]
                 [] c.op = "enter" -> [run |-> FALSE, insp |-> TRUE]
                 [] c.op = "leave" -> [wk EXCEPT !.insp = FALSE]
                 [] OTHER -> wk
  BY DEF WorkerTake
<1>4. s \in Nat
  BY FreshSessionIs
<1>5. c.op # "run" => (RunPending => RunPending')
  <2>1. Elems(cmdQ) = {c} \cup Elems(Tail(cmdQ))
    BY <1>1, Tailed DEF TInv, WorkShape
  <2>. HIDE DEF c
  <2>. QED BY <1>1, <2>1 DEF RunPending
<1>6. /\ f[StateChanged] = {} /\ g[StateChanged] = {}
      /\ f[Plain("running")] = {TRUE} /\ g[Plain("running")] = {}
      /\ f[Plain("paused")] = {FALSE} /\ g[Plain("paused")] = {}
      /\ f[Plain("stepc")] = {FALSE} /\ g[Plain("stepc")] = {}
      /\ \A on \in BOOLEAN : /\ f[Event("imode", 0, 0, on)] = {}
                             /\ g[Event("imode", 0, 0, on)] = {on}
      /\ \A x \in 0 .. mix.req, on, insp \in BOOLEAN :
           /\ f[Machine(x, on, insp)] = IF on THEN {} ELSE {FALSE}
           /\ g[Machine(x, on, insp)] = {insp}
  <2>1. "paused" \in Stopping /\ "stepc" \in Stopping
    BY DEF Stopping
  <2>. QED BY <1>1, <1>2, <2>1, TellsOf
<1>7. /\ wk.run \in BOOLEAN /\ wk.insp \in BOOLEAN /\ 0 \in 0 .. mix.req
      /\ TRUE \in BOOLEAN /\ FALSE \in BOOLEAN
  BY <1>1, <1>2 DEF WkKind
<1>. DEFINE Said == /\ wk'.insp => ~wk'.run
                    /\ EndsWith(r, g, wk'.insp) \/ (Silent(r, g) /\ wk'.insp = wk.insp)
                    /\ \/ wk'.insp
                       \/ EndsWith(r, f, wk'.run)
                       \/ Silent(r, f) /\ wk' = wk /\ (RunPending => RunPending')
<1>. SUFFICES Said
  BY <1>1, <1>2, SaidMInv
<1>. HIDE DEF c, r, f, g, s
<1>8. CASE c.op = "run"
  <2>1. r = IF wk.insp THEN <<StateChanged>> ELSE <<StateChanged, Plain("running")>>
    BY <1>3, <1>8 DEF Resulting
  <2>2. wk'.run = ~wk.insp /\ wk'.insp = wk.insp
    BY <1>2, <1>3, <1>8 DEF WkKind
  <2>3. Silent(r, g)
    BY <1>6, <2>1, Lists
  <2>4. wk'.insp \/ EndsWith(r, f, wk'.run)
    <3>1. CASE ~wk.insp
      <4>1. wk'.run = TRUE /\ r = <<StateChanged, Plain("running")>>
        BY <2>1, <2>2, <3>1
      <4>. QED BY <1>6, <4>1, Lists
    <3>. QED BY <2>2, <3>1
  <2>. QED BY <2>2, <2>3, <2>4
<1>9. CASE c.op = "pause"
  <2>1. r = IF wk.run THEN <<Machine(0, FALSE, wk.insp), Plain("paused"), StateChanged>> ELSE <<>>
    BY <1>3, <1>9 DEF Resulting
  <2>2. wk'.run = FALSE /\ wk'.insp = wk.insp /\ wk' = [wk EXCEPT !.run = FALSE]
    BY <1>2, <1>3, <1>9 DEF WkKind
  <2>3. CASE wk.run
    <3>1. r = <<Machine(0, FALSE, wk.insp), Plain("paused"), StateChanged>>
      BY <2>1, <2>3
    <3>2. EndsWith(r, f, FALSE)
      BY <1>6, <3>1, Lists
    <3>3. EndsWith(r, g, wk.insp)
      BY <1>6, <1>7, <3>1, Lists
    <3>. QED BY <2>2, <3>2, <3>3
  <2>4. CASE ~wk.run
    <3>1. r = <<>> /\ wk' = wk
      BY <1>2, <2>1, <2>2, <2>4 DEF WkKind
    <3>. QED BY <1>2, <1>5, <1>9, <2>2, <3>1, Lists
  <2>. QED BY <2>3, <2>4
<1>10. CASE c.op = "step"
  <2>1. r = IF wk.run \/ wk.insp THEN <<StateChanged>>
            ELSE <<StateChanged, Plain("stepc"), Plain("paused")>>
    BY <1>3, <1>10 DEF Resulting
  <2>2. wk' = wk
    BY <1>3, <1>10
  <2>3. CASE wk.run \/ wk.insp
    <3>1. r = <<StateChanged>>
      BY <2>1, <2>3
    <3>. QED BY <1>2, <1>5, <1>6, <1>10, <2>2, <3>1, Lists
  <2>4. CASE ~(wk.run \/ wk.insp)
    <3>1. r = <<StateChanged, Plain("stepc"), Plain("paused")>> /\ wk.run = FALSE
      BY <1>7, <2>1, <2>4
    <3>2. EndsWith(r, f, FALSE) /\ Silent(r, g)
      BY <1>6, <3>1, Lists
    <3>. QED BY <1>2, <2>2, <3>1, <3>2
  <2>. QED BY <2>3, <2>4
<1>11. CASE c.op = "reset"
  <2>1. r = IF wk.insp THEN <<>>
            ELSE <<StateChanged, Machine(0, wk.run, FALSE),
                   Plain(IF wk.run THEN "running" ELSE "paused")>>
    BY <1>3, <1>11 DEF Resulting
  <2>2. wk' = wk
    BY <1>3, <1>11
  <2>3. CASE wk.insp
    <3>1. r = <<>>
      BY <2>1, <2>3
    <3>. QED BY <1>2, <1>5, <1>11, <2>2, <3>1, Lists
  <2>4. CASE ~wk.insp
    <3>. DEFINE p == Plain(IF wk.run THEN "running" ELSE "paused")
    <3>1. r = <<StateChanged, Machine(0, wk.run, FALSE), p>> /\ wk.insp = FALSE
      BY <1>7, <2>1, <2>4
    <3>2. f[p] = {wk.run} /\ g[p] = {}
      BY <1>6, <1>7
    <3>3. g[Machine(0, wk.run, FALSE)] = {FALSE}
      BY <1>6, <1>7
    <3>. HIDE DEF p
    <3>4. EndsWith(r, f, wk.run) /\ EndsWith(r, g, FALSE)
      BY <3>1, <3>2, <3>3, Lists
    <3>. QED BY <1>2, <2>2, <3>1, <3>4
  <2>. QED BY <2>3, <2>4
<1>12. CASE c.op = "enter"
  <2>. DEFINE p == IF wk.run THEN <<Machine(0, FALSE, FALSE), Plain("paused")>> ELSE <<>>
              q == <<Machine(0, FALSE, TRUE), StateChanged, Event("imode", 0, 0, TRUE)>>
  <2>1. r = p \o q
    BY <1>3, <1>12 DEF Resulting
  <2>2. wk'.run = FALSE /\ wk'.insp = TRUE
    BY <1>3, <1>12
  <2>3. EndsWith(q, g, TRUE)
    BY <1>6, <1>7, Lists
  <2>4. p \in Seq(EventKind(mix.req)) /\ q \in Seq(EventKind(mix.req))
    <3>1. /\ Machine(0, FALSE, FALSE) \in EventKind(mix.req)
          /\ Machine(0, FALSE, TRUE) \in EventKind(mix.req)
          /\ StateChanged \in EventKind(mix.req) /\ Plain("paused") \in EventKind(mix.req)
          /\ Event("imode", 0, 0, TRUE) \in EventKind(mix.req)
      BY <1>1, <1>2, <1>7, PlainFollows DEF Following
    <3>. QED BY <3>1, Tuples
  <2>. HIDE DEF p, q
  <2>5. EndsWith(r, g, TRUE)
    BY <2>1, <2>3, <2>4, SaidMore
  <2>. QED BY <2>2, <2>5
<1>13. CASE c.op = "leave"
  <2>1. r = <<Machine(0, wk.run, FALSE), StateChanged, Event("imode", 0, 0, FALSE)>>
    BY <1>3, <1>13 DEF Resulting
  <2>2. wk'.run = wk.run /\ wk'.insp = FALSE /\ wk' = [wk EXCEPT !.insp = FALSE]
    BY <1>2, <1>3, <1>13 DEF WkKind
  <2>3. EndsWith(r, g, FALSE)
    BY <1>6, <1>7, <2>1, Lists
  <2>4. CASE ~wk.run
    <3>1. f[Machine(0, wk.run, FALSE)] = {FALSE} /\ wk.run = FALSE
      BY <1>6, <1>7, <2>4
    <3>2. EndsWith(r, f, FALSE)
      BY <1>6, <1>7, <2>1, <3>1, Lists
    <3>. QED BY <2>2, <2>3, <3>1, <3>2
  <2>5. CASE wk.run
    <3>1. f[Machine(0, wk.run, FALSE)] = {} /\ wk.insp = FALSE
      BY <1>2, <1>6, <1>7, <2>5
    <3>2. Silent(r, f)
      BY <1>6, <1>7, <2>1, <3>1, Lists
    <3>3. wk' = wk
      BY <1>2, <2>2, <3>1 DEF WkKind
    <3>. QED BY <1>5, <1>13, <2>2, <2>3, <3>2, <3>3
  <2>. QED BY <2>4, <2>5
<1>14. CASE c.op = "mach"
  <2>. DEFINE e == Machine(c.src, wk.run, wk.insp)
  <2>1. r = <<e>> /\ wk' = wk /\ c.src \in 0 .. mix.req
    BY <1>1, <1>3, <1>14 DEF Resulting, CommandKind
  <2>2. f[e] = (IF wk.run THEN {} ELSE {FALSE}) /\ g[e] = {wk.insp}
    BY <1>6, <1>7, <2>1
  <2>. HIDE DEF e
  <2>3. EndsWith(r, g, wk.insp)
    BY <2>1, <2>2, Lists
  <2>4. Silent(r, f) \/ EndsWith(r, f, wk.run)
    BY <1>7, <2>1, <2>2, Lists
  <2>. QED BY <1>2, <1>5, <1>14, <2>1, <2>3, <2>4
<1>15. CASE c.op \in {"cpu", "hist", "list", "open", "close"}
  <2>1. /\ wk' = wk
        /\ r = <<>> \/ \E e \in EventKind(mix.req) :
                         r = <<e>> /\ e.t \in {"brk", "cpu", "hist", "sess"}
    <3>1. CASE c.op = "close"
      BY <1>3, <3>1 DEF Resulting
    <3>2. CASE c.op = "open"
      <4>1. wk' = wk /\ r = <<Event("sess", c.tok, s, s # 0)>> /\ c.tok \in Nat
        BY <1>1, <1>3, <3>2 DEF Resulting, CommandKind
      <4>2. Event("sess", c.tok, s, s # 0) \in EventKind(mix.req)
        BY <1>4, <4>1 DEF Event, EventKind
      <4>. QED BY <4>1, <4>2 DEF Event
    <3>3. CASE c.op = "list"
      <4>1. wk' = wk /\ r = <<Event("brk", 0, c.src, FALSE)>> /\ c.src \in 0 .. mix.req
        BY <1>1, <1>3, <3>3 DEF Resulting, CommandKind
      <4>2. Event("brk", 0, c.src, FALSE) \in EventKind(mix.req)
        BY <4>1 DEF Event, EventKind
      <4>. QED BY <4>1, <4>2 DEF Event
    <3>4. CASE c.op \in {"cpu", "hist"}
      <4>1. /\ wk' = wk /\ r = <<Event(c.op, c.tok, c.src, FALSE)>> /\ c.src \in 0 .. mix.req
            /\ c.tok \in Nat
        BY <1>1, <1>3, <3>4 DEF Resulting, CommandKind
      <4>2. Event(c.op, c.tok, c.src, FALSE) \in EventKind(mix.req)
        BY <3>4, <4>1 DEF Event, EventKind
      <4>. QED BY <3>4, <4>1, <4>2 DEF Event
    <3>. QED BY <1>15, <3>1, <3>2, <3>3, <3>4
  <2>2. Silent(r, f) /\ Silent(r, g)
    <3>1. ASSUME NEW e \in EventKind(mix.req), e.t \in {"brk", "cpu", "hist", "sess"}
          PROVE  f[e] = {} /\ g[e] = {}
      BY <1>1, <1>2, <3>1, TellsOf DEF f, g
    <3>. QED BY <2>1, <3>1, Lists
  <2>. QED BY <1>2, <1>5, <1>15, <2>1, <2>2
<1>. QED BY <1>1, <1>8, <1>9, <1>10, <1>11, <1>12, <1>13, <1>14, <1>15 DEF CommandKind, Tokened

LEMMA BreakpointMInv ==
  ASSUME TInv, MInv, BreakpointHit
  PROVE  MInv'
<1>. DEFINE f == TellsRun(mix.req)
            g == TellsInsp(mix.req)
            r == out'
<1>1. /\ mix.req \in Nat /\ wk \in WkKind /\ wk.run /\ out = <<>> /\ wk' = [wk EXCEPT !.run = FALSE]
      /\ r = <<Machine(0, FALSE, wk.insp), Plain("paused"), Plain("brk")>>
      /\ UNCHANGED <<mix, evQ, disp>>
  BY Mixed DEF BreakpointHit, TInv, WorkShape, sockVars, mainVars
<1>2. r \in Seq(EventKind(mix.req)) /\ wk' \in WkKind
  BY <1>1, BreakpointHitTInv DEF TInv, WorkShape
<1>3. wk'.run = FALSE /\ wk'.insp = wk.insp /\ 0 \in 0 .. mix.req /\ FALSE \in BOOLEAN
      /\ wk.insp \in BOOLEAN /\ "paused" \in Stopping
  BY <1>1 DEF WkKind, Stopping
<1>4. /\ f[Plain("paused")] = {FALSE} /\ g[Plain("paused")] = {} /\ f[Plain("brk")] = {}
      /\ g[Plain("brk")] = {} /\ g[Machine(0, FALSE, wk.insp)] = {wk.insp}
  <2>1. /\ \A t \in Stopping : f[Plain(t)] = {FALSE} /\ g[Plain(t)] = {}
        /\ f[Plain("brk")] = {} /\ g[Plain("brk")] = {}
        /\ \A x \in 0 .. mix.req, on, insp \in BOOLEAN :
             /\ f[Machine(x, on, insp)] = IF on THEN {} ELSE {FALSE}
             /\ g[Machine(x, on, insp)] = {insp}
    BY <1>1, TellsOf
  <2>. HIDE DEF f, g
  <2>. QED BY <1>3, <2>1
<1>. HIDE DEF f, g, r
<1>5. EndsWith(r, f, FALSE) /\ EndsWith(r, g, wk.insp)
  BY <1>1, <1>4, Lists
<1>. QED BY <1>1, <1>2, <1>3, <1>5, SaidMInv DEF f, g, r

LEMMA Shifted ==
  ASSUME NEW K, NEW s \in Seq(K), NEW b \in Seq(K), b # <<>>
  PROVE  Append(s, Head(b)) \o Tail(b) = s \o b
<1>. DEFINE p == Append(s, Head(b)) \o Tail(b)
            q == s \o b
<1>1. Head(b) = b[1] /\ Len(b) \in Nat \ {0} /\ Len(s) \in Nat /\ b[1] \in K
  OBVIOUS
<1>2. p \in Seq(K) /\ q \in Seq(K) /\ Len(p) = Len(q) /\ Len(q) = Len(s) + Len(b)
  OBVIOUS
<1>3. ASSUME NEW i \in 1 .. Len(q) PROVE p[i] = q[i]
  <2>1. CASE i <= Len(s)
    BY <1>1, <1>2, <2>1
  <2>2. CASE i = Len(s) + 1
    BY <1>1, <1>2, <2>2
  <2>3. CASE i > Len(s) + 1
    BY <1>1, <1>2, <2>3
  <2>. QED BY <1>1, <1>2, <2>1, <2>2, <2>3
<1>. QED BY <1>2, <1>3

LEMMA TailJoined ==
  ASSUME NEW K, NEW s \in Seq(K), NEW b \in Seq(K), s # <<>>
  PROVE  Tail(s) \o b = Tail(s \o b) /\ Head(s \o b) = Head(s) /\ s \o b # <<>>
<1>. DEFINE p == Tail(s) \o b
            q == s \o b
<1>1. Len(s) \in Nat \ {0} /\ Len(b) \in Nat
  OBVIOUS
<1>2. q \in Seq(K) /\ q # <<>> /\ Len(q) = Len(s) + Len(b)
  OBVIOUS
<1>3. p \in Seq(K) /\ Tail(q) \in Seq(K) /\ Len(p) = Len(q) - 1 /\ Len(Tail(q)) = Len(q) - 1
  BY <1>2
<1>4. ASSUME NEW i \in 1 .. Len(p) PROVE p[i] = Tail(q)[i]
  <2>1. CASE i <= Len(s) - 1
    BY <1>1, <1>2, <1>3, <2>1
  <2>2. CASE i > Len(s) - 1
    BY <1>1, <1>2, <1>3, <2>2
  <2>. QED BY <1>1, <2>1, <2>2
<1>. QED BY <1>1, <1>2, <1>3, <1>4

\* Publishing moves an event within what is unheard.
LEMMA PublishMInv ==
  ASSUME TInv, MInv, Publish
  PROVE  MInv'
<1>1. /\ evQ' = Append(evQ, Head(out)) /\ out' = Tail(out) /\ out # <<>>
      /\ UNCHANGED <<mix, disp, wk, cmdQ>>
  BY DEF Publish, sockVars, mainVars
<1>2. evQ \in Seq(EventKind(mix.req)) /\ out \in Seq(EventKind(mix.req))
  BY DEF TInv, WorkShape
<1>3. Unheard' = Unheard
  BY <1>1, <1>2, Shifted DEF Unheard
<1>. QED BY <1>1, <1>3 DEF MInv, RunPending

\* An event is heard: the mirror follows it.
LEMMA MirrorFollows ==
  ASSUME disp \in DispKind, NEW n, NEW e \in EventKind(n), OnRuntimeEvent(e)
  PROVE  /\ (disp'.running = disp.running /\ TellsRun(n)[e] = {}) \/ TellsRun(n)[e] = {disp'.running}
         /\ (disp'.insp = disp.insp /\ TellsInsp(n)[e] = {}) \/ TellsInsp(n)[e] = {disp'.insp}
<1>. DEFINE m == Mirror(e)
            f == TellsRun(n)
            g == TellsInsp(n)
            Follows == /\ (disp'.running = disp.running /\ f[e] = {}) \/ f[e] = {disp'.running}
                       /\ (disp'.insp = disp.insp /\ g[e] = {}) \/ g[e] = {disp'.insp}
<1>. SUFFICES Follows
  OBVIOUS
<1>1. e.on \in BOOLEAN /\ e.insp \in BOOLEAN /\ disp.running \in BOOLEAN
  BY DEF EventKind, DispKind
<1>2. /\ f[e] = IF e.t = "running" THEN {TRUE}
                ELSE IF e.t \in Stopping \/ (e.t = "mach" /\ ~e.on) THEN {FALSE} ELSE {}
      /\ g[e] = IF e.t = "mach" THEN {e.insp} ELSE IF e.t = "imode" THEN {e.on} ELSE {}
  BY DEF TellsRun, TellsInsp
<1>3. m \in DispKind /\ disp'.running = m.running /\ disp'.insp = m.insp
  <2>. DEFINE y == m.paused /\ d.kind # "waitP"
  <2>1. m \in DispKind
    BY MirrorIs
  <2>2. disp' = m \/ disp' = [m EXCEPT !.latch = FALSE, !.paused = y]
    BY DEF OnRuntimeEvent
  <2>. HIDE DEF m, y
  <2>. QED BY <2>1, <2>2 DEF DispKind
<1>4. CASE e.t = "running"
  <2>0. e.t # "mach" /\ e.t \notin Stopping /\ e.t # "imode"
    BY <1>4 DEF Stopping
  <2>1. m = [disp EXCEPT !.running = TRUE, !.paused = FALSE]
    BY <1>4, <2>0, Zenon DEF Mirror
  <2>2. f[e] = {TRUE} /\ g[e] = {}
    BY <1>2, <1>4
  <2>. HIDE DEF m, f, g
  <2>3. m.running = TRUE /\ m.insp = disp.insp
    BY <2>1 DEF DispKind
  <2>. QED BY <1>3, <2>2, <2>3, Zenon
<1>5. CASE e.t = "mach"
  <2>. DEFINE x == disp.running /\ e.on
              y == disp.paused \/ ~e.on
  <2>0. e.t # "running" /\ e.t \notin Stopping /\ e.t # "imode"
    BY <1>5 DEF Stopping
  <2>1. m = [disp EXCEPT !.running = x, !.paused = y, !.insp = e.insp]
    BY <1>5, <2>0, Zenon DEF Mirror
  <2>2. (e.on => x = disp.running) /\ (~e.on => x = FALSE)
    BY <1>1
  <2>3. f[e] = (IF e.on THEN {} ELSE {FALSE}) /\ g[e] = {e.insp}
    BY <1>1, <1>2, <1>5, <2>0
  <2>. HIDE DEF x, y
  <2>4. m.running = x /\ m.insp = e.insp
    BY <2>1 DEF DispKind
  <2>. HIDE DEF m, f, g
  <2>5. CASE e.on
    <3>1. f[e] = {}
      BY <2>3, <2>5
    <3>. QED BY <1>3, <2>2, <2>3, <2>4, <2>5, <3>1, Zenon
  <2>6. CASE ~e.on
    <3>1. f[e] = {FALSE}
      BY <2>3, <2>6
    <3>. QED BY <1>3, <2>2, <2>3, <2>4, <2>6, <3>1, Zenon
  <2>. QED BY <2>5, <2>6
<1>6. CASE e.t \in Stopping
  <2>0. e.t # "running" /\ e.t # "mach" /\ e.t # "imode"
    BY <1>6 DEF Stopping
  <2>1. m = [disp EXCEPT !.running = FALSE, !.paused = TRUE, !.latch = TRUE]
    BY <1>6, <2>0, Zenon DEF Mirror
  <2>2. f[e] = {FALSE} /\ g[e] = {}
    BY <1>2, <1>6, <2>0
  <2>. HIDE DEF m, f, g
  <2>3. m.running = FALSE /\ m.insp = disp.insp
    BY <2>1 DEF DispKind
  <2>. QED BY <1>3, <2>2, <2>3, Zenon
<1>7. CASE e.t = "imode"
  <2>0. e.t # "running" /\ e.t # "mach" /\ e.t \notin Stopping
    BY <1>7 DEF Stopping
  <2>1. m = [disp EXCEPT !.insp = e.on]
    BY <1>7, <2>0, Zenon DEF Mirror
  <2>2. f[e] = {} /\ g[e] = {e.on}
    BY <1>2, <1>7, <2>0
  <2>. HIDE DEF m, f, g
  <2>3. m.running = disp.running /\ m.insp = e.on
    BY <2>1 DEF DispKind
  <2>. QED BY <1>3, <2>2, <2>3, Zenon
<1>8. CASE e.t \notin {"running", "mach", "imode"} \cup Stopping
  <2>1. m = disp
    BY <1>8 DEF Mirror
  <2>2. f[e] = {} /\ g[e] = {}
    BY <1>2, <1>8
  <2>. HIDE DEF m, f, g
  <2>. QED BY <1>3, <2>1, <2>2, Zenon
<1>. QED BY <1>4, <1>5, <1>6, <1>7, <1>8

LEMMA HeardMInv ==
  ASSUME TInv, MInv, evQ # <<>>, evQ' = Tail(evQ), UNCHANGED <<mix, out, wk>>,
         RunPending => RunPending',
         OnRuntimeEvent(Head(evQ)) \/ (Head(evQ).t = "sess" /\ UNCHANGED disp)
  PROVE  MInv'
<1>. DEFINE n == mix.req
            f == TellsRun(n)
            g == TellsInsp(n)
            e == Head(evQ)
            K == EventKind(n)
<1>1. evQ \in Seq(K) /\ out \in Seq(K) /\ disp \in DispKind /\ e \in K
  BY EventTaken DEF TInv, WorkShape, MainShape
<1>2. Unheard \in Seq(K) /\ Unheard # <<>> /\ Head(Unheard) = e /\ Unheard' = Tail(Unheard)
  <2>. HIDE DEF K
  <2>. QED BY <1>1, JoinIs, TailJoined DEF Unheard
<1>3. TellsRun(mix.req)' = f /\ TellsInsp(mix.req)' = g
  OBVIOUS
<1>4. /\ (disp'.running = disp.running /\ f[e] = {}) \/ f[e] = {disp'.running}
      /\ (disp'.insp = disp.insp /\ g[e] = {}) \/ g[e] = {disp'.insp}
  <2>1. CASE OnRuntimeEvent(e)
    BY <1>1, <2>1, MirrorFollows
  <2>2. CASE e.t = "sess" /\ UNCHANGED disp
    <3>1. f[e] = {} /\ g[e] = {}
      BY <1>1, <2>2 DEF TellsRun, TellsInsp, Stopping
    <3>. QED BY <2>2, <3>1
  <2>. QED BY <2>1, <2>2
<1>5. /\ Becomes(Unheard, g, disp.insp, wk.insp) /\ (wk.insp => ~wk.run)
      /\ wk.insp \/ RunPending \/ Becomes(Unheard, f, disp.running, wk.run)
  BY DEF MInv
<1>. HIDE DEF n, f, g, e, K
<1>6. Becomes(Tail(Unheard), g, disp'.insp, wk.insp)
  BY <1>2, <1>4, <1>5, HeardFirst
<1>7. wk.insp \/ RunPending' \/ Becomes(Tail(Unheard), f, disp'.running, wk.run)
  BY <1>2, <1>4, <1>5, HeardFirst
<1>. QED BY <1>2, <1>3, <1>5, <1>6, <1>7 DEF MInv

\* The main thread leaves events and machine alone; a claim has its command.
LEMMA KeptMInv ==
  ASSUME TInv, MInv, UNCHANGED <<mix, evQ, out, wk>>, disp'.insp = disp.insp,
         Elems(cmdQ) \subseteq Elems(cmdQ'), RunPending' \/ disp'.running = disp.running
  PROVE  MInv'
<1>1. Unheard' = Unheard /\ (RunPending => RunPending')
  BY DEF Unheard, RunPending
<1>. QED BY <1>1 DEF MInv

\* Commands are added at the end of the queue.
LEMMA Queued ==
  ASSUME TInv, NEW c \in {<<>>, <<Closing>>}, NEW t \in Nat
  PROVE  /\ Elems(cmdQ) \subseteq Elems(cmdQ \o c)
         /\ Elems(cmdQ) \subseteq Elems(cmdQ \o c \o <<Command("open", t, 0)>>)
<1>. DEFINE K == CommandKind(mix.req)
            o == Command("open", t, 0)
<1>1. cmdQ \in Seq(K) /\ Closing \in K /\ o \in K
  BY CommandIs
<1>. HIDE DEF K, o
<1>2. c \in Seq(K) /\ <<o>> \in Seq(K)
  BY <1>1, Tuples
<1>3. ASSUME NEW q \in Seq(K), NEW r \in Seq(K) PROVE Elems(q) \subseteq Elems(q \o r)
  <2>1. /\ Len(q) \in Nat /\ Len(r) \in Nat /\ DOMAIN q = 1 .. Len(q)
        /\ DOMAIN (q \o r) = 1 .. Len(q) + Len(r) /\ \A i \in 1 .. Len(q) : (q \o r)[i] = q[i]
    BY JoinIs
  <2>2. \A i \in DOMAIN q : i \in DOMAIN (q \o r) /\ (q \o r)[i] = q[i]
    BY <2>1
  <2>. QED BY <2>2 DEF Elems
<1>4. cmdQ \o c \in Seq(K)
  BY <1>1, <1>2, JoinIs
<1>. QED BY <1>1, <1>2, <1>3, <1>4 DEF o

\* A run is claimed by the mirror when its command is queued, and nothing else
\* that a request does changes what the mirror says.
LEMMA PollMInv ==
  ASSUME TInv, MInv, NEW at \in {"events", "poll2"}, Poll(at)
  PROVE  MInv'
<1>. DEFINE r == Head(reqQ)
<1>1. /\ main = at /\ r \in RequestKind(mix.req) /\ UNCHANGED <<mix, wk, out, evQ>>
      /\ Answered(r, at) \/ Deferred(r, at) \/ Opening(r, at, Second)
  BY PollIs
<1>2. FreshToken \in Nat /\ 0 \in Nat /\ Second \in Nat
  BY Fresh DEF Second
<1>3. \/ HandleAccepted(r) \/ HandleDeferred(r) \/ HandleWait(r)
      \/ r.kind = "hist" /\ Busy(r)
      \/ r.kind = "hist" /\ UNCHANGED disp
  BY DEF Poll
<1>4. disp \in DispKind
  BY DEF TInv, MainShape
<1>. HIDE DEF r
<1>5. r.id \in 0 .. mix.req
  BY <1>1, <1>2, EntryTyped
<1>6. Elems(cmdQ) \subseteq Elems(cmdQ')
  <2>1. CASE cmdQ' = cmdQ
    BY <2>1
  <2>2. ASSUME NEW op \in {"run", "pause", "step", "reset", "enter", "leave", "cpu", "list", "mach",
                           "hist"}, NEW t \in Nat, cmdQ' = Append(cmdQ, Command(op, t, r.id))
        PROVE  Elems(cmdQ) \subseteq Elems(cmdQ')
    BY <1>5, <2>2, Posted
  <2>3. CASE cmdQ' = cmdQ \o ReleaseCommands \o <<Command("open", Second, 0)>>
    BY <1>2, <2>3, ReleaseIs, Queued
  <2>. QED BY <1>1, <1>2, <2>1, <2>2, <2>3 DEF Answered, Deferred, Opening, Tokened
<1>7. disp'.insp = disp.insp /\ (RunPending' \/ disp'.running = disp.running)
  <2>1. CASE HandleAccepted(r)
    <3>1. \/ disp' = disp \/ disp' = [disp EXCEPT !.latch = FALSE]
          \/ /\ r.kind = "run" /\ cmdQ' = Append(cmdQ, Command(r.kind, 0, r.id))
             /\ disp' = [[disp EXCEPT !.latch = FALSE] EXCEPT !.running = TRUE, !.paused = FALSE]
      BY <2>1 DEF HandleAccepted, Latching
    <3>2. CASE disp' = disp \/ disp' = [disp EXCEPT !.latch = FALSE]
      BY <1>4, <3>2 DEF DispKind
    <3>3. CASE /\ r.kind = "run" /\ cmdQ' = Append(cmdQ, Command(r.kind, 0, r.id))
               /\ disp' = [[disp EXCEPT !.latch = FALSE] EXCEPT !.running = TRUE, !.paused = FALSE]
      <4>1. disp'.insp = disp.insp
        BY <1>4, <3>3 DEF DispKind
      <4>2. Command("run", 0, r.id) \in Elems(cmdQ')
        <5>1. cmdQ' = Append(cmdQ, Command("run", 0, r.id))
          BY <3>3
        <5>2. Elems(Append(cmdQ, Command("run", 0, r.id))) = Elems(cmdQ) \cup {Command("run", 0, r.id)}
          BY <1>2, <1>5, Posted
        <5>. QED BY <5>1, <5>2
      <4>. QED BY <4>1, <4>2 DEF RunPending, Command
    <3>. QED BY <3>1, <3>2, <3>3
  <2>2. CASE HandleDeferred(r) \/ Busy(r) \/ UNCHANGED disp
    <3>1. disp' = disp
      BY <2>2 DEF HandleDeferred, Busy
    <3>. QED BY <3>1
  <2>3. CASE HandleWait(r)
    <3>. DEFINE y == disp.paused /\ r.kind # "waitP"
    <3>1. disp' = disp \/ disp' = [disp EXCEPT !.latch = FALSE, !.paused = y]
      BY <2>3 DEF HandleWait, Busy
    <3>. HIDE DEF y
    <3>. QED BY <1>4, <3>1 DEF DispKind
  <2>. QED BY <1>3, <2>1, <2>2, <2>3
<1>. QED BY <1>1, <1>6, <1>7, KeptMInv

LEMMA EventsMInv ==
  ASSUME TInv, MInv, DrainEvent \/ PumpEvent \/ PumpTimeout
  PROVE  MInv'
<1>1. ASSUME main = "pump", PumpReturn(d) PROVE Elems(cmdQ) \subseteq Elems(cmdQ')
  <2>1. cmdQ' = cmdQ \/ cmdQ' = Append(cmdQ, Command("hist", d.tok, pump.hid))
    BY <1>1, PumpReturnIs
  <2>2. d.tok \in Nat /\ pump.hid \in 0 .. mix.req
    BY Mixed, EntryIs DEF TInv, MainShape, PumpKind
  <2>3. Elems(Append(cmdQ, Command("hist", d.tok, pump.hid))) =
          Elems(cmdQ) \cup {Command("hist", d.tok, pump.hid)}
    BY <2>2, Posted
  <2>. QED BY <2>1, <2>3
<1>2. CASE DrainEvent
  <2>1. /\ evQ # <<>> /\ evQ' = Tail(evQ) /\ OnRuntimeEvent(Head(evQ))
        /\ UNCHANGED <<mix, out, wk, cmdQ>>
    BY <1>2 DEF DrainEvent, sockVars, workVars
  <2>. QED BY <2>1, HeardMInv DEF RunPending
<1>3. CASE PumpEvent
  <2>1. /\ main = "pump" /\ evQ # <<>> /\ evQ' = Tail(evQ) /\ UNCHANGED <<mix, out, wk>>
        /\ \/ Head(evQ).t = "sess" /\ UNCHANGED disp /\ PumpReturn(d)
           \/ OnRuntimeEvent(Head(evQ)) /\ UNCHANGED cmdQ
    BY <1>3 DEF PumpEvent, sockVars
  <2>2. RunPending => RunPending'
    BY <1>1, <2>1 DEF RunPending
  <2>. QED BY <2>1, <2>2, HeardMInv
<1>4. CASE PumpTimeout
  <2>1. main = "pump" /\ PumpReturn(d) /\ UNCHANGED <<mix, evQ, out, wk, disp>>
    BY <1>4 DEF PumpTimeout, sockVars
  <2>. QED BY <1>1, <2>1, KeptMInv
<1>. QED BY <1>2, <1>3, <1>4

LEMMA AsideMInv ==
  ASSUME TInv, MInv,
         \/ Connect \/ Hangup \/ Socket \/ Leave \/ (\E k \in mix.kinds : ReadRequest(k))
         \/ CheckHasClient \/ CheckBind \/ CheckDeadline \/ Expire \/ Quit \/ Stop \/ Join
         \/ PollNothing("events") \/ PollNothing("poll2") \/ Ended
  PROVE  MInv'
<1>1. UNCHANGED <<mix, evQ, out, wk, disp>>
  BY DEF Connect, Hangup, Socket, Leave, ReadRequest, CheckHasClient, CheckBind, CheckDeadline,
     CheckDeadlineWith, Expire, Quit, Stop, Join, PollNothing, Ended, Accept, Begin,
     FlushUnsolicited, PeerGone, TakeReply, DrainDiscard, DrainEnd, Close, AcceptStopped,
     sockVars, mainVars, workVars, vars
<1>2. Elems(cmdQ) \subseteq Elems(cmdQ')
  <2>1. CASE CheckBind
    <3>1. \E c \in {<<>>, <<Closing>>} :
            cmdQ' = cmdQ \o c \o <<Command("open", FreshToken, 0)>> \/ cmdQ' = cmdQ \o c
      BY <2>1, CheckBindTInv DEF Bind
    <3>. QED BY <3>1, Fresh, Queued
  <2>2. CASE Quit
    <3>1. cmdQ' = cmdQ \o ReleaseCommands /\ 0 \in Nat
      BY <2>2 DEF Quit
    <3>. QED BY <3>1, ReleaseIs, Queued
  <2>3. CASE ~CheckBind /\ ~Quit
    <3>1. cmdQ' = cmdQ
      BY <2>3 DEF Connect, Hangup, Socket, Leave, ReadRequest, CheckHasClient, CheckDeadline,
         CheckDeadlineWith, Expire, Stop, Join, PollNothing, Ended, Accept, Begin,
         FlushUnsolicited, PeerGone, TakeReply, DrainDiscard, DrainEnd, Close, AcceptStopped,
         mainVars, workVars, vars
    <3>. QED BY <3>1
  <2>. QED BY <2>1, <2>2, <2>3
<1>. QED BY <1>1, <1>2, KeptMInv

LEMMA NextMInv == ASSUME TInv, MInv, Next PROVE MInv'
<1>1. CASE Worker \/ BreakpointHit
  BY <1>1, TakenMInv, PublishMInv, BreakpointMInv DEF Worker
<1>2. CASE Main \/ PumpTimeout \/ Expire \/ Quit
  BY <1>2, EventsMInv, PollMInv, AsideMInv DEF Main
<1>3. CASE \/ Connect \/ Hangup \/ Socket \/ Leave \/ (\E k \in mix.kinds : ReadRequest(k))
           \/ Ended
  BY <1>3, AsideMInv
<1>. QED BY <1>1, <1>2, <1>3 DEF Next

LEMMA InitMInv == ASSUME Init PROVE MInv
<1>1. /\ evQ = <<>> /\ out = <<>> /\ disp.running = FALSE /\ disp.insp = FALSE
      /\ wk.run = FALSE /\ wk.insp = FALSE
  BY DEF Init
<1>2. Unheard = <<>>
  BY <1>1 DEF Unheard
<1>3. \A f, b : Becomes(Unheard, f, b, b)
  BY <1>2 DEF Becomes, Silent
<1>. QED BY <1>1, <1>3 DEF MInv

LEMMA MInvCoherent == ASSUME TInv, MInv PROVE MirrorCoherent
<1>. SUFFICES ASSUME cmdQ = <<>>, out = <<>>, evQ = <<>>, ~wk.insp
              PROVE  disp.running = wk.run /\ ~disp.insp
  BY DEF MirrorCoherent
<1>1. Unheard = <<>> /\ ~RunPending
  BY Emptied DEF Unheard, RunPending
<1>2. \A f, b : ~EndsWith(Unheard, f, b)
  BY <1>1 DEF EndsWith
<1>. QED BY <1>1, <1>2 DEF MInv, Becomes

\* When commands and events have been worked off, what get-state reports is
\* the machine's state: the mirror that control_dispatch.c sets early for an
\* accepted run, and lowers or raises with each event, is led back by the events
\* still queued, in whatever order runs, stops, steps and the Inspector came.
THEOREM MirrorSettles == Spec => []MirrorCoherent
<1>1. TInv /\ MInv /\ [Next]_vars => MInv'
  <2>1. CASE Next
    BY <2>1, NextMInv
  <2>2. CASE UNCHANGED vars
    BY <2>2 DEF vars, MInv, Unheard, RunPending
  <2>. QED BY <2>1, <2>2
<1>. QED BY <1>1, InitMInv, Typing, MInvCoherent, PTL DEF Spec
=============================================================================
