---------------------------- MODULE ChatClientProofs ----------------------------
(* Proofs about ChatClient, for any users, requests and failures of the server: *)
(* the acknowledgement of the idle connection is told from messages, and no     *)
(* failure ends the attempts to connect.  The invariants are about a Net, so    *)
(* that each operation on a socket is shown once to keep them, wherever a       *)
(* handler calls it.                                                            *)
EXTENDS ChatClient, FiniteSetTheorems, SequenceTheorems, TLAPS

Connecting == {"connect", "handshake"}
Transfers == {"write", "read"}

Attempt(e) == e.slot = "http" /\ e.op \in Connecting
IdleRead(e) == e.slot = "idle" /\ e.op = "read"
Arrived(e) == IdleRead(e) /\ e.ok
Acknowledges(e) == Arrived(e) /\ e.reply.ok /\ e.reply.cmd = "ack"

\* An object has no read, write or handshake before its first handshake.
Fresh(n) == \A s \in Slots : n.tls[s] = "new" => n.ops[s] \subseteq {"connect"}

Good(n) == n \in Net /\ Fresh(n) /\ IsFiniteSet(n.stale)

\* m_HttpIdle has one read at a time, its handler included: what arrived is the only
\* read that is due, and it arrived on the current object.
IdleInv(n) ==
    /\ \A o \in n.stale : ~IdleRead(o)
    /\ "read" \in n.ops["idle"] => \A i \in DOMAIN n.ready : ~IdleRead(n.ready[i])
    /\ \A i, j \in DOMAIN n.ready : Arrived(n.ready[i]) /\ IdleRead(n.ready[j]) => i = j
    /\ \A i \in DOMAIN n.ready : Arrived(n.ready[i]) => n.tls["idle"] # "new"

\* Messages that arrived come after the acknowledgement was read; what the server has
\* acknowledged is read or due.
Acks(n, read) ==
    /\ \A i \in DOMAIN n.ready :
          Arrived(n.ready[i]) /\ n.ready[i].reply.ok => n.ready[i].reply.cmd = "ack" \/ read
    /\ n.news = "acked" => read \/ \E i \in DOMAIN n.ready : Acknowledges(n.ready[i])

IdleOk(n, read) == ~n.clashed => IdleInv(n) /\ Acks(n, read)

\* An attempt to connect m_Http is under way or due.
Trying(n) ==
    \/ n.resolving = "http"
    \/ n.ops["http"] \cap Connecting # {}
    \/ \E o \in n.stale : Attempt(o)
    \/ \E i \in DOMAIN n.ready : Attempt(n.ready[i])

\* The variables that are no part of the sockets.
RestTyped ==
    /\ server \in BOOLEAN /\ downs \in 0..MaxDowns /\ inputs \in 0..MaxInputs
    /\ idleWire \in Credentials
    /\ lastCmd \in {"none", "login", "other"}
    /\ self \in People /\ password \in People /\ typed \in People \cup {NotTyped}
    /\ idleState \in BOOLEAN /\ timeout \in BOOLEAN /\ told \in BOOLEAN /\ ackRead \in BOOLEAN

\* The inductive invariant.
ClientInv ==
    /\ RestTyped
    /\ Good(net)
    /\ IdleOk(net, ackRead)
    /\ AckFirst
    /\ told => Trying(net)

\* An operation that takes n to r keeps what is said of the idle connection, and the
\* attempts to connect m_Http.
Safe(n, r) ==
    /\ Good(r)
    /\ n.clashed => r.clashed
    /\ \A read \in BOOLEAN : IdleOk(n, read) => IdleOk(r, read)

Keeps(n, r) == Safe(n, r) /\ (Trying(n) => Trying(r))

--------------------------------------------------------------------------------
(* The fields of a Net *)

NetRecord(r) ==
    r = [link |-> r.link, tls |-> r.tls, open |-> r.open, ops |-> r.ops, stale |-> r.stale,
         ready |-> r.ready, out |-> r.out, wire |-> r.wire, news |-> r.news,
         resolving |-> r.resolving, clashed |-> r.clashed]

\* All but the handlers and the requests, which are sequences.
FieldsTyped(r) ==
    /\ r.link \in [Slots -> {"closed", "up", "dead"}]
    /\ r.tls \in [Slots -> {"new", "begun", "done", "stuck", "foreign"}]
    /\ r.open \in [Slots -> BOOLEAN] /\ r.ops \in [Slots -> SUBSET Ops]
    /\ r.stale \in SUBSET Stale /\ r.out \in Request
    /\ r.news \in {"none", "asked", "acked"} /\ r.resolving \in Slots \cup {NoSlot}
    /\ r.clashed \in BOOLEAN

\* The fields of a Net.
LEMMA NetFields ==
    ASSUME NEW n \in Net
    PROVE  /\ NetRecord(n) /\ FieldsTyped(n)
           /\ n.ready \in Seq(Completion) /\ n.wire \in Seq(Request)
  BY DEF Net, NetRecord, FieldsTyped

\* A record with the fields of a Net.
LEMMA NetTyped ==
    ASSUME NEW r, NetRecord(r), FieldsTyped(r), r.ready \in Seq(Completion),
           r.wire \in Seq(Request)
    PROVE  r \in Net
<1>1. PICK S, W : S = Seq(Completion) /\ W = Seq(Request)
  OBVIOUS
<1>2. r.ready \in S /\ r.wire \in W
  BY <1>1
<1>3. r \in [link : [Slots -> {"closed", "up", "dead"}],
             tls : [Slots -> {"new", "begun", "done", "stuck", "foreign"}],
             open : [Slots -> BOOLEAN], ops : [Slots -> SUBSET Ops], stale : SUBSET Stale,
             ready : S, out : Request, wire : W,
             news : {"none", "asked", "acked"}, resolving : Slots \cup {NoSlot},
             clashed : BOOLEAN]
  BY <1>2, Zenon DEF NetRecord, FieldsTyped
<1> QED BY <1>1, <1>3 DEF Net

\* The handlers that are due, as a sequence.
LEMMA ReadyIndex ==
    ASSUME NEW n \in Net
    PROVE  /\ DOMAIN n.ready = 1..Len(n.ready) /\ Len(n.ready) \in Nat
           /\ \A i \in DOMAIN n.ready : n.ready[i] \in Completion
<1>1. n.ready \in Seq(Completion)
  BY NetFields
<1> QED BY <1>1

\* The fields of a Completion.
LEMMA CompletionFields ==
    ASSUME NEW e \in Completion
    PROVE  /\ e.slot \in Slots /\ e.op \in Ops /\ e.ok \in BOOLEAN /\ e.late \in BOOLEAN
           /\ e.reply \in Reply
  BY DEF Completion

\* A request is a reply without a kind of its own.
LEMMA RequestIsReply == Request \subseteq Reply /\ NoRequest \in Request
  BY DEF Request, Reply, NoRequest, People

\* What ends is a Completion.
LEMMA EndedTyped ==
    ASSUME NEW s \in Slots, NEW op \in Ops, NEW ok \in BOOLEAN, NEW reply \in Reply
    PROVE  /\ Ended(s, op, ok, reply) \in Completion
           /\ Ended(s, op, ok, reply).slot = s /\ Ended(s, op, ok, reply).op = op
           /\ Ended(s, op, ok, reply).ok = ok
           /\ Ended(s, op, ok, reply).reply = reply
  BY DEF Ended, Completion

\* A failure is a Completion.
LEMMA FailedTyped ==
    ASSUME NEW s \in Slots, NEW op \in Ops
    PROVE  /\ Failed(s, op) \in Completion /\ Failed(s, op).slot = s /\ Failed(s, op).op = op
           /\ ~Failed(s, op).ok
<1>1. PICK reply \in Reply : reply = NoRequest
  BY RequestIsReply
<1>2. PICK b \in BOOLEAN : b = FALSE
  OBVIOUS
<1>3. PICK e : e = Ended(s, op, b, reply)
  OBVIOUS
<1>4. e = Failed(s, op)
  BY <1>1, <1>2, <1>3, Zenon DEF Failed
<1>5. e \in Completion /\ e.slot = s /\ e.op = op /\ e.ok = b
  BY <1>3, EndedTyped
<1>6. ~e.ok
  BY <1>2, <1>5, Zenon
<1> QED BY <1>4, <1>5, <1>6, Zenon

--------------------------------------------------------------------------------
(* The handlers that are due *)

\* The handlers of p, and then those of F.
Grows(p, q, F) ==
    /\ q \in Seq(Completion)
    /\ \A i \in DOMAIN p : i \in DOMAIN q /\ q[i] = p[i]
    /\ \A i \in DOMAIN q : i \in DOMAIN p \/ q[i] \in F
    /\ \A e \in F : \E i \in DOMAIN q : q[i] = e

\* An operation that ends has its handler at the end of the others.
LEMMA AppendGrows ==
    ASSUME NEW p \in Seq(Completion), NEW e \in Completion, NEW q, q = Append(p, e)
    PROVE  /\ Grows(p, q, {e})
           /\ \A i, j \in DOMAIN q : i \notin DOMAIN p /\ j \notin DOMAIN p => i = j
<1>1. PICK k : k = Len(p)
  OBVIOUS
<1>2. /\ k \in Nat /\ DOMAIN p = 1..k /\ DOMAIN q = 1..(k + 1) /\ q[k + 1] = e
      /\ \A i \in 1..k : q[i] = p[i]
      /\ q \in Seq(Completion)
  BY <1>1
<1>3. k + 1 \in DOMAIN q /\ \A i \in DOMAIN q : i \in DOMAIN p \/ i = k + 1
  BY <1>2
<1>4. \A i \in DOMAIN p : i \in DOMAIN q /\ q[i] = p[i]
  BY <1>2
<1> QED BY <1>2, <1>3, <1>4 DEF Grows

\* The sequence of a finite set holds each of its elements.
LEMMA SetToSeqTyped ==
    ASSUME NEW S, IsFiniteSet(S)
    PROVE  /\ SetToSeq(S) \in [1..Cardinality(S) -> S] /\ Cardinality(S) \in Nat
           /\ \A x \in S : \E i \in 1..Cardinality(S) : SetToSeq(S)[i] = x
<1>1. PICK c : c = Cardinality(S)
  OBVIOUS
<1>2. c \in Nat /\ ExistsBijection(1..c, S)
  BY <1>1, FS_CardinalityType
<1>3. PICK f \in [1..c -> S] : IsInjective(f)
  BY <1>2, Zenon DEF ExistsBijection, Bijection, Injection, IsInjective
<1>4. PICK g : g = SetToSeq(S)
  OBVIOUS
<1>5. g \in [1..c -> S] /\ IsInjective(g)
  BY <1>1, <1>3, <1>4 DEF SetToSeq
<1>6. g \in Injection(1..c, S)
  BY <1>5 DEF Injection
<1>7. Cardinality(1..c) = c
  BY <1>2, FS_Interval
<1>8. g \in Surjection(1..c, S)
  BY <1>1, <1>6, <1>7, FS_Injection
<1>9. \A x \in S : \E i \in 1..c : g[i] = x
  BY <1>8 DEF Surjection
<1> QED BY <1>1, <1>2, <1>4, <1>5, <1>9

\* There are finitely many operations.
LEMMA OpsFinite ==
    ASSUME NEW S, S \subseteq Ops
    PROVE  IsFiniteSet(S)
<1>1. IsFiniteSet(Connecting)
  <2>1. Connecting = {"connect"} \cup {"handshake"}
    BY DEF Connecting
  <2> QED BY <2>1, FS_Singleton, FS_Union
<1>2. IsFiniteSet(Transfers)
  <2>1. Transfers = {"write"} \cup {"read"}
    BY DEF Transfers
  <2> QED BY <2>1, FS_Singleton, FS_Union
<1>3. Ops = Connecting \cup Transfers
  BY DEF Ops, Connecting, Transfers
<1> QED BY <1>1, <1>2, <1>3, FS_Union, FS_Subset

\* The failures of operations are handlers that are due, one for each operation.
LEMMA FailuresTyped ==
    ASSUME NEW s \in Slots, NEW S \in SUBSET Ops
    PROVE  /\ Failures(s, S) \in Seq(Completion)
           /\ \A i \in DOMAIN Failures(s, S) : \E op \in S : Failures(s, S)[i] = Failed(s, op)
           /\ \A op \in S : \E i \in DOMAIN Failures(s, S) : Failures(s, S)[i] = Failed(s, op)
<1>0. PICK f, q, c : f = SetToSeq(S) /\ q = [i \in DOMAIN f |-> Failed(s, f[i])] /\ c = Cardinality(S)
  OBVIOUS
<1>1. f \in [1..c -> S] /\ c \in Nat /\ \A op \in S : \E i \in 1..c : f[i] = op
  BY <1>0, OpsFinite, SetToSeqTyped
<1>2. DOMAIN q = 1..c /\ \A i \in 1..c : f[i] \in S /\ q[i] = Failed(s, f[i])
  BY <1>0, <1>1
<1>3. \A i \in 1..c : q[i] \in Completion
  BY <1>2, FailedTyped
<1>4. q \in [1..c -> Completion]
  BY <1>0, <1>1, <1>3
<1>5. q \in Seq(Completion)
  BY <1>1, <1>4
<1>6. q = Failures(s, S)
  BY <1>0, Zenon DEF Failures
<1> QED BY <1>1, <1>2, <1>5, <1>6

\* They are appended to the handlers that are due.
LEMMA FailuresGrow ==
    ASSUME NEW p \in Seq(Completion), NEW s \in Slots, NEW S \in SUBSET Ops,
           NEW r, r = p \o Failures(s, S)
    PROVE  Grows(p, r, {Failed(s, op) : op \in S})
<1>1. PICK q : q = Failures(s, S)
  OBVIOUS
<1>2. /\ q \in Seq(Completion)
      /\ \A i \in DOMAIN q : \E op \in S : q[i] = Failed(s, op)
      /\ \A op \in S : \E i \in DOMAIN q : q[i] = Failed(s, op)
  BY <1>1, FailuresTyped
<1>3. PICK k, l : k = Len(p) /\ l = Len(q)
  OBVIOUS
<1>4. /\ k \in Nat /\ l \in Nat /\ DOMAIN p = 1..k /\ DOMAIN q = 1..l
      /\ r \in Seq(Completion) /\ DOMAIN r = 1..(k + l)
      /\ \A i \in 1..(k + l) : r[i] = IF i <= k THEN p[i] ELSE q[i - k]
  BY <1>1, <1>2, <1>3, ConcatProperties
<1>5. \A i \in DOMAIN p : i \in DOMAIN r /\ r[i] = p[i]
  BY <1>4
<1>6. \A i \in DOMAIN r : i \in DOMAIN p \/ (i - k \in DOMAIN q /\ r[i] = q[i - k])
  BY <1>4
<1>7. \A j \in DOMAIN q : j + k \in DOMAIN r /\ r[j + k] = q[j]
  BY <1>4
<1>8. \A i \in DOMAIN r : i \in DOMAIN p \/ r[i] \in {Failed(s, op) : op \in S}
  BY <1>2, <1>6
<1>9. ASSUME NEW e \in {Failed(s, op) : op \in S}
      PROVE  \E i \in DOMAIN r : r[i] = e
  <2>1. PICK op \in S : e = Failed(s, op)
    OBVIOUS
  <2>2. PICK j \in DOMAIN q : q[j] = e
    BY <1>2, <2>1
  <2> QED BY <1>7, <2>2
<1>10. r \in Seq(Completion)
  BY <1>4
<1> QED BY <1>5, <1>8, <1>9, <1>10 DEF Grows

--------------------------------------------------------------------------------
(* What the operations on a socket keep *)

\* The handlers of n are due in r.
Due(n, r) ==
    \A i \in DOMAIN n.ready :
        /\ i \in DOMAIN r.ready
        /\ r.ready[i].slot = n.ready[i].slot /\ r.ready[i].op = n.ready[i].op
        /\ r.ready[i].ok = n.ready[i].ok /\ r.ready[i].reply = n.ready[i].reply

\* Nothing arrives on the idle connection, and no read starts there; a read may fail.
Calm(n, r) ==
    /\ Due(n, r)
    /\ \A i \in DOMAIN r.ready : i \notin DOMAIN n.ready /\ IdleRead(r.ready[i]) =>
          ~r.ready[i].ok /\ "read" \in n.ops["idle"] /\ "read" \notin r.ops["idle"]
    /\ \A o \in r.stale : IdleRead(o) => o \in n.stale
    /\ "read" \in r.ops["idle"] => "read" \in n.ops["idle"]
    /\ r.tls["idle"] = "new" => n.tls["idle"] = "new"
    /\ r.news = "acked" => n.news = "acked"
    /\ n.clashed => r.clashed

\* Then what is said of the idle connection stays.
LEMMA CalmSafe ==
    ASSUME NEW n, NEW r, Good(r), Calm(n, r)
    PROVE  Safe(n, r)
<1> SUFFICES ASSUME NEW read \in BOOLEAN, IdleOk(n, read), ~r.clashed
             PROVE  IdleInv(r) /\ Acks(r, read)
  BY DEF Safe, IdleOk, Calm
<1>1. IdleInv(n) /\ Acks(n, read)
  BY DEF IdleOk, Calm
<1>2. ASSUME NEW i \in DOMAIN r.ready, Arrived(r.ready[i])
      PROVE  /\ i \in DOMAIN n.ready /\ Arrived(n.ready[i])
             /\ r.ready[i].reply = n.ready[i].reply
  BY <1>2 DEF Calm, Due, Arrived, IdleRead
<1>3. ASSUME NEW i \in DOMAIN r.ready, IdleRead(r.ready[i]), i \in DOMAIN n.ready
      PROVE  IdleRead(n.ready[i])
  BY <1>3 DEF Calm, Due, IdleRead
<1>4. ASSUME NEW i \in DOMAIN r.ready, IdleRead(r.ready[i]), i \notin DOMAIN n.ready
      PROVE  /\ "read" \notin r.ops["idle"]
             /\ \A j \in DOMAIN n.ready : ~IdleRead(n.ready[j])
  BY <1>1, <1>4 DEF Calm, IdleInv
<1>5. \A o \in r.stale : ~IdleRead(o)
  BY <1>1 DEF Calm, IdleInv
<1>6. "read" \in r.ops["idle"] => \A i \in DOMAIN r.ready : ~IdleRead(r.ready[i])
  BY <1>1, <1>3, <1>4 DEF Calm, IdleInv
<1>7. ASSUME NEW i \in DOMAIN r.ready, NEW j \in DOMAIN r.ready,
             Arrived(r.ready[i]), IdleRead(r.ready[j])
      PROVE  i = j
  <2>1. i \in DOMAIN n.ready /\ Arrived(n.ready[i]) /\ IdleRead(n.ready[i])
    BY <1>2, <1>7 DEF Arrived
  <2>2. j \in DOMAIN n.ready /\ IdleRead(n.ready[j])
    BY <1>3, <1>4, <1>7, <2>1
  <2> QED BY <1>1, <2>1, <2>2 DEF IdleInv
<1>8. \A i \in DOMAIN r.ready : Arrived(r.ready[i]) => r.tls["idle"] # "new"
  BY <1>1, <1>2 DEF Calm, IdleInv
<1>9. IdleInv(r)
  BY <1>5, <1>6, <1>7, <1>8 DEF IdleInv
<1>10. \A i \in DOMAIN r.ready :
          Arrived(r.ready[i]) /\ r.ready[i].reply.ok => r.ready[i].reply.cmd = "ack" \/ read
  BY <1>1, <1>2 DEF Acks
<1>11. ASSUME r.news = "acked", ~read
       PROVE  \E i \in DOMAIN r.ready : Acknowledges(r.ready[i])
  <2>1. PICK i \in DOMAIN n.ready : Acknowledges(n.ready[i])
    BY <1>1, <1>11 DEF Calm, Acks
  <2>2. i \in DOMAIN r.ready /\ Acknowledges(r.ready[i])
    BY <2>1 DEF Calm, Due, Acknowledges, Arrived, IdleRead
  <2> QED BY <2>2
<1> QED BY <1>9, <1>10, <1>11 DEF Acks

\* Operations follow one another.
LEMMA KeepsTrans ==
    ASSUME NEW n, NEW m, NEW r, Safe(n, m), Safe(m, r)
    PROVE  Safe(n, r) /\ (Keeps(n, m) /\ Keeps(m, r) => Keeps(n, r))
  BY DEF Safe, Keeps

\* The operations of n are those of r.
Plain(n, r) ==
    /\ r.ops = n.ops /\ r.stale = n.stale /\ r.ready = n.ready /\ r.tls = n.tls
    /\ r.clashed = n.clashed /\ (r.news = "acked" => n.news = "acked")
    /\ n.resolving = "http" => r.resolving = "http"

\* What happens beside them keeps the invariants.
LEMMA PlainKeeps ==
    ASSUME NEW n, Good(n), NEW r \in Net, Plain(n, r)
    PROVE  Keeps(n, r)
<1>1. Good(r)
  BY DEF Good, Plain, Fresh
<1>2. Calm(n, r)
  BY DEF Plain, Calm, Due
<1>3. Trying(n) => Trying(r)
  BY DEF Plain, Trying
<1> QED BY <1>1, <1>2, <1>3, CalmSafe DEF Keeps

\* The operation op of s has ended, and e is its handler.
Completed(n, s, op, e, r) ==
    /\ r \in Net
    /\ Grows(n.ready, r.ready, {e})
    /\ \A i, j \in DOMAIN r.ready : i \notin DOMAIN n.ready /\ j \notin DOMAIN n.ready => i = j
    /\ r.link = n.link /\ r.tls = n.tls /\ r.open = n.open /\ r.stale = n.stale
    /\ r.out = n.out /\ r.wire = n.wire /\ r.news = n.news
    /\ r.resolving = n.resolving /\ r.clashed = n.clashed
    /\ r.ops[s] = n.ops[s] \ {op} /\ \A t \in Slots \ {s} : r.ops[t] = n.ops[t]

\* Complete, by its fields.
LEMMA CompleteShape ==
    ASSUME NEW n \in Net, NEW s \in Slots, NEW op \in Ops, NEW ok \in BOOLEAN, NEW reply \in Reply,
           NEW r, r = Complete(n, s, op, ok, reply)
    PROVE  Completed(n, s, op, Ended(s, op, ok, reply), r)
<1>1. PICK e \in Completion : e = Ended(s, op, ok, reply)
  BY EndedTyped
<1>2. r = [n EXCEPT !.ops[s] = @ \ {op}, !.ready = Append(@, e)]
  BY <1>1 DEF Complete
<1>3. /\ NetRecord(r)
      /\ r.link = n.link /\ r.tls = n.tls /\ r.open = n.open /\ r.stale = n.stale
      /\ r.out = n.out /\ r.wire = n.wire /\ r.news = n.news
      /\ r.resolving = n.resolving /\ r.clashed = n.clashed
      /\ r.ops = [n.ops EXCEPT ![s] = n.ops[s] \ {op}] /\ r.ready = Append(n.ready, e)
  BY <1>2 DEF Net, NetRecord
<1>4. FieldsTyped(n) /\ n.ready \in Seq(Completion) /\ n.wire \in Seq(Request)
  BY NetFields
<1>5. /\ r.ops \in [Slots -> SUBSET Ops] /\ r.ops[s] = n.ops[s] \ {op}
      /\ \A t \in Slots \ {s} : r.ops[t] = n.ops[t]
  BY <1>3, <1>4 DEF FieldsTyped
<1>6. FieldsTyped(r)
  BY <1>3, <1>4, <1>5, Zenon DEF FieldsTyped
<1>7. /\ Grows(n.ready, r.ready, {e})
      /\ \A i, j \in DOMAIN r.ready : i \notin DOMAIN n.ready /\ j \notin DOMAIN n.ready => i = j
  BY <1>3, <1>4, AppendGrows
<1>8. r.ready \in Seq(Completion) /\ r.wire \in Seq(Request)
  BY <1>3, <1>4, <1>7, Zenon DEF Grows
<1>9. r \in Net
  BY <1>3, <1>6, <1>8, NetTyped
<1>10. Completed(n, s, op, e, r)
  BY <1>3, <1>5, <1>7, <1>9 DEF Completed
<1> QED BY <1>1, <1>10, Zenon

\* An operation that ends keeps the invariants, if it is not a read of the idle
\* connection or failed.
LEMMA CompleteKeeps ==
    ASSUME NEW n, Good(n), NEW s \in Slots, NEW op \in n.ops[s], NEW ok \in BOOLEAN,
           NEW reply \in Reply, s = "idle" /\ op = "read" => ~ok,
           NEW r, r = Complete(n, s, op, ok, reply)
    PROVE  Keeps(n, r)
<1>0. n \in Net /\ Fresh(n) /\ IsFiniteSet(n.stale)
  BY DEF Good
<1>1. op \in Ops /\ n.ops \in [Slots -> SUBSET Ops]
  BY <1>0, NetFields DEF FieldsTyped
<1>2. PICK e : e = Ended(s, op, ok, reply)
  OBVIOUS
<1>3. /\ r \in Net /\ Grows(n.ready, r.ready, {e})
      /\ r.tls = n.tls /\ r.stale = n.stale /\ r.news = n.news
      /\ r.resolving = n.resolving /\ r.clashed = n.clashed
      /\ r.ops[s] = n.ops[s] \ {op} /\ \A t \in Slots \ {s} : r.ops[t] = n.ops[t]
  <2>1. op \in Ops /\ n \in Net
    BY <1>0, <1>1
  <2>2. Completed(n, s, op, e, r)
    BY <1>2, <2>1, CompleteShape, Zenon
  <2> QED BY <2>2 DEF Completed
<1>4. e.slot = s /\ e.op = op /\ e.ok = ok
  BY <1>1, <1>2, EndedTyped
<1>5. \A t \in Slots : r.ops[t] \subseteq n.ops[t]
  BY <1>3
<1>6. Good(r)
  BY <1>0, <1>3, <1>5 DEF Good, Fresh
<1>7. /\ \A i \in DOMAIN n.ready : i \in DOMAIN r.ready /\ r.ready[i] = n.ready[i]
      /\ \A i \in DOMAIN r.ready : i \in DOMAIN n.ready \/ r.ready[i] = e
      /\ \E i \in DOMAIN r.ready : r.ready[i] = e
  BY <1>3 DEF Grows
<1>8. IdleRead(e) => ~e.ok /\ "read" \in n.ops["idle"] /\ "read" \notin r.ops["idle"]
  BY <1>3, <1>4 DEF IdleRead
<1>9. Calm(n, r)
  <2>1. Due(n, r)
    BY <1>7 DEF Due
  <2>2. \A i \in DOMAIN r.ready : i \notin DOMAIN n.ready /\ IdleRead(r.ready[i]) =>
            ~r.ready[i].ok /\ "read" \in n.ops["idle"] /\ "read" \notin r.ops["idle"]
    BY <1>7, <1>8
  <2>3. "read" \in r.ops["idle"] => "read" \in n.ops["idle"]
    BY <1>5 DEF Slots
  <2> QED BY <1>3, <2>1, <2>2, <2>3 DEF Calm
<1>10. Trying(n) => Trying(r)
  <2>1. CASE \E i \in DOMAIN n.ready : Attempt(n.ready[i])
    BY <1>7, <2>1 DEF Trying
  <2>2. CASE n.ops["http"] \cap Connecting # {}
    <3>1. CASE r.ops["http"] \cap Connecting # {}
      BY <3>1 DEF Trying
    <3>2. CASE r.ops["http"] \cap Connecting = {}
      <4>1. s = "http" /\ op \in Connecting
        BY <1>3, <2>2, <3>2 DEF Slots
      <4>2. Attempt(e)
        BY <1>4, <4>1 DEF Attempt
      <4> QED BY <1>7, <4>2 DEF Trying
    <3> QED BY <3>1, <3>2
  <2>3. CASE n.resolving = "http" \/ \E o \in n.stale : Attempt(o)
    BY <1>3, <2>3 DEF Trying
  <2> QED BY <2>1, <2>2, <2>3 DEF Trying
<1> QED BY <1>6, <1>9, <1>10, CalmSafe DEF Keeps

\* The operations in ended of s have failed.
Aborted(n, s, ended, r) ==
    /\ r \in Net
    /\ Grows(n.ready, r.ready, {Failed(s, op) : op \in ended})
    /\ r.link = n.link /\ r.tls = n.tls /\ r.open = n.open /\ r.stale = n.stale
    /\ r.out = n.out /\ r.wire = n.wire /\ r.news = n.news
    /\ r.resolving = n.resolving /\ r.clashed = n.clashed
    /\ r.ops[s] = n.ops[s] \ ended /\ \A t \in Slots \ {s} : r.ops[t] = n.ops[t]

\* Abort, by its fields.
LEMMA AbortShape ==
    ASSUME NEW n \in Net, NEW s \in Slots, NEW held, NEW r, r = Abort(n, s, held)
    PROVE  Aborted(n, s, n.ops[s] \cap (held \cup {"connect"}), r)
<1>1. PICK S, q : S = n.ops[s] \cap (held \cup {"connect"}) /\ q = n.ready \o Failures(s, S)
  OBVIOUS
<1>2. r = [n EXCEPT !.ops[s] = @ \ S, !.ready = q]
  BY <1>1 DEF Abort
<1>3. /\ NetRecord(r)
      /\ r.link = n.link /\ r.tls = n.tls /\ r.open = n.open /\ r.stale = n.stale
      /\ r.out = n.out /\ r.wire = n.wire /\ r.news = n.news
      /\ r.resolving = n.resolving /\ r.clashed = n.clashed
      /\ r.ops = [n.ops EXCEPT ![s] = n.ops[s] \ S] /\ r.ready = q
  BY <1>2 DEF Net, NetRecord
<1>4. FieldsTyped(n) /\ n.ready \in Seq(Completion) /\ n.wire \in Seq(Request)
  BY NetFields
<1>5. /\ r.ops \in [Slots -> SUBSET Ops] /\ r.ops[s] = n.ops[s] \ S
      /\ \A t \in Slots \ {s} : r.ops[t] = n.ops[t]
  BY <1>3, <1>4 DEF FieldsTyped
<1>6. FieldsTyped(r)
  BY <1>3, <1>4, <1>5, Zenon DEF FieldsTyped
<1>7. S \in SUBSET Ops
  BY <1>1, <1>4 DEF FieldsTyped
<1>8. Grows(n.ready, q, {Failed(s, op) : op \in S})
  BY <1>1, <1>4, <1>7, FailuresGrow
<1>9. Grows(n.ready, r.ready, {Failed(s, op) : op \in S})
  BY <1>3, <1>8, Zenon
<1>10. r.ready \in Seq(Completion) /\ r.wire \in Seq(Request)
  BY <1>3, <1>4, <1>9, Zenon DEF Grows
<1>11. r \in Net
  BY <1>3, <1>6, <1>10, NetTyped
<1>12. Aborted(n, s, S, r)
  BY <1>3, <1>5, <1>9, <1>11 DEF Aborted
<1> QED BY <1>1, <1>12, Zenon

\* Operations that are aborted keep the invariants.
LEMMA AbortedKeeps ==
    ASSUME NEW n, Good(n), NEW s \in Slots, NEW ended \in SUBSET n.ops[s], NEW r,
           Aborted(n, s, ended, r)
    PROVE  Keeps(n, r)
<1>0. n \in Net /\ Fresh(n) /\ IsFiniteSet(n.stale)
  BY DEF Good
<1>1. ended \in SUBSET Ops /\ n.ops \in [Slots -> SUBSET Ops]
  BY <1>0, NetFields DEF FieldsTyped
<1>2. /\ r \in Net /\ r.tls = n.tls /\ r.stale = n.stale /\ r.news = n.news
      /\ r.resolving = n.resolving /\ r.clashed = n.clashed
      /\ r.ops[s] = n.ops[s] \ ended /\ \A t \in Slots \ {s} : r.ops[t] = n.ops[t]
  BY DEF Aborted
<1>3. \A t \in Slots : r.ops[t] \subseteq n.ops[t]
  BY <1>2
<1>4. Good(r)
  BY <1>0, <1>2, <1>3 DEF Good, Fresh
<1>5. /\ \A i \in DOMAIN n.ready : i \in DOMAIN r.ready /\ r.ready[i] = n.ready[i]
      /\ \A i \in DOMAIN r.ready : i \in DOMAIN n.ready \/ \E op \in ended : r.ready[i] = Failed(s, op)
      /\ \A op \in ended : \E i \in DOMAIN r.ready : r.ready[i] = Failed(s, op)
  BY DEF Aborted, Grows
<1>6. \A op \in ended : Failed(s, op).slot = s /\ Failed(s, op).op = op /\ ~Failed(s, op).ok
  BY <1>1, FailedTyped
<1>7. Calm(n, r)
  <2>1. Due(n, r)
    BY <1>5 DEF Due
  <2>2. ASSUME NEW i \in DOMAIN r.ready, i \notin DOMAIN n.ready, IdleRead(r.ready[i])
        PROVE  ~r.ready[i].ok /\ "read" \in n.ops["idle"] /\ "read" \notin r.ops["idle"]
    <3>1. PICK op \in ended : r.ready[i] = Failed(s, op)
      BY <1>5, <2>2
    <3>2. ~r.ready[i].ok /\ s = "idle" /\ op = "read"
      BY <1>6, <2>2, <3>1 DEF IdleRead
    <3> QED BY <1>2, <3>2
  <2>3. "read" \in r.ops["idle"] => "read" \in n.ops["idle"]
    BY <1>3 DEF Slots
  <2> QED BY <1>2, <2>1, <2>2, <2>3 DEF Calm
<1>8. Trying(n) => Trying(r)
  <2>1. CASE \E i \in DOMAIN n.ready : Attempt(n.ready[i])
    BY <1>5, <2>1 DEF Trying
  <2>2. CASE n.ops["http"] \cap Connecting # {}
    <3>1. CASE r.ops["http"] \cap Connecting # {}
      BY <3>1 DEF Trying
    <3>2. CASE r.ops["http"] \cap Connecting = {}
      <4>1. PICK op \in ended : s = "http" /\ op \in Connecting
        BY <1>2, <2>2, <3>2 DEF Slots
      <4>2. PICK i \in DOMAIN r.ready : r.ready[i] = Failed(s, op)
        BY <1>5
      <4>3. Attempt(r.ready[i])
        BY <1>6, <4>1, <4>2 DEF Attempt
      <4> QED BY <4>3 DEF Trying
    <3> QED BY <3>1, <3>2
  <2>3. CASE n.resolving = "http" \/ \E o \in n.stale : Attempt(o)
    BY <1>2, <2>3 DEF Trying
  <2> QED BY <2>1, <2>2, <2>3 DEF Trying
<1> QED BY <1>4, <1>7, <1>8, CalmSafe DEF Keeps

\* Disconnected, by its fields.
LEMMA DisconnectedShape ==
    ASSUME NEW n \in Net, NEW s \in Slots, NEW r, r = Disconnected(n, s)
    PROVE  /\ r \in Net /\ Plain(n, r) /\ r.open = n.open /\ r.resolving = n.resolving
           /\ s = "idle" => r.news # "acked"
<1>1. PICK w, v : w = (IF s = "http" THEN <<>> ELSE n.wire) /\ v = (IF s = "idle" THEN "none" ELSE n.news)
  OBVIOUS
<1>2. r = [n EXCEPT !.link[s] = "closed", !.wire = w, !.news = v]
  BY <1>1 DEF Disconnected
<1>3. /\ NetRecord(r)
      /\ r.link = [n.link EXCEPT ![s] = "closed"]
      /\ r.ops = n.ops /\ r.ready = n.ready /\ r.tls = n.tls /\ r.open = n.open
      /\ r.stale = n.stale /\ r.out = n.out /\ r.wire = w /\ r.news = v
      /\ r.resolving = n.resolving /\ r.clashed = n.clashed
  BY <1>2 DEF Net, NetRecord
<1>4. FieldsTyped(n) /\ n.ready \in Seq(Completion) /\ n.wire \in Seq(Request)
  BY NetFields
<1>5. /\ r.link \in [Slots -> {"closed", "up", "dead"}]
      /\ r.news \in {"none", "asked", "acked"}
      /\ r.news = "acked" => n.news = "acked" /\ s # "idle"
  BY <1>1, <1>3, <1>4 DEF FieldsTyped
<1>6. FieldsTyped(r)
  BY <1>3, <1>4, <1>5, Zenon DEF FieldsTyped
<1>7. r.wire \in Seq(Request)
  BY <1>1, <1>3, <1>4
<1>8. r \in Net
  BY <1>3, <1>4, <1>6, <1>7, NetTyped
<1> QED BY <1>3, <1>5, <1>8 DEF Plain

\* RangeConnectOp closes the socket and connects.
LEMMA StartConnectKeeps ==
    ASSUME NEW n, Good(n), NEW s \in Slots, NEW held, n.resolving \in {s, NoSlot},
           NEW r, r = start_connect(n, s, held)
    PROVE  Keeps(n, r)
<1>1. PICK a, d : a = Abort(n, s, held) /\ d = Disconnected(a, s)
  OBVIOUS
<1>2. Aborted(n, s, n.ops[s] \cap (held \cup {"connect"}), a)
  BY <1>1, AbortShape DEF Good
<1>3. Keeps(n, a) /\ Good(a) /\ a \in Net /\ a.resolving = n.resolving
  <2>1. PICK ended \in SUBSET n.ops[s] : ended = n.ops[s] \cap (held \cup {"connect"})
    OBVIOUS
  <2>2. Aborted(n, s, ended, a)
    BY <1>2, <2>1
  <2>3. Keeps(n, a)
    BY <2>2, AbortedKeeps
  <2> QED BY <2>2, <2>3 DEF Keeps, Safe, Aborted, Good
<1>4. d \in Net /\ Plain(a, d) /\ d.resolving = a.resolving
  BY <1>1, <1>3, DisconnectedShape
<1>5. Keeps(a, d) /\ Good(d)
  BY <1>3, <1>4, PlainKeeps DEF Keeps, Safe
<1>6. r = [d EXCEPT !.tls[s] = Interrupted(@), !.ops[s] = @ \cup {"connect"}, !.resolving = NoSlot]
  BY <1>1 DEF start_connect
<1>7. /\ NetRecord(r)
      /\ r.link = d.link /\ r.tls = [d.tls EXCEPT ![s] = Interrupted(d.tls[s])]
      /\ r.ops = [d.ops EXCEPT ![s] = d.ops[s] \cup {"connect"}]
      /\ r.ready = d.ready /\ r.open = d.open /\ r.stale = d.stale /\ r.out = d.out
      /\ r.wire = d.wire /\ r.news = d.news /\ r.resolving = NoSlot /\ r.clashed = d.clashed
  BY <1>4, <1>6 DEF Net, NetRecord
<1>8. FieldsTyped(d) /\ d.ready \in Seq(Completion) /\ d.wire \in Seq(Request)
  BY <1>4, NetFields
<1>9. /\ Interrupted(d.tls[s]) \in {"new", "begun", "done", "stuck", "foreign"}
      /\ Interrupted(d.tls[s]) = "new" <=> d.tls[s] = "new"
  BY <1>8 DEF FieldsTyped, Interrupted
<1>10. /\ r.tls \in [Slots -> {"new", "begun", "done", "stuck", "foreign"}]
       /\ \A t \in Slots : r.tls[t] = "new" <=> d.tls[t] = "new"
  BY <1>7, <1>8, <1>9 DEF FieldsTyped
<1>11. /\ r.ops \in [Slots -> SUBSET Ops] /\ \A t \in Slots : r.ops[t] \subseteq d.ops[t] \cup {"connect"}
       /\ \A t \in Slots : d.ops[t] \subseteq r.ops[t]
       /\ "connect" \in r.ops[s]
  BY <1>7, <1>8 DEF FieldsTyped, Ops
<1>12. FieldsTyped(r)
  BY <1>7, <1>8, <1>10, <1>11, Zenon DEF FieldsTyped
<1>13. r \in Net
  BY <1>7, <1>8, <1>12, NetTyped
<1>14. Good(r)
  BY <1>5, <1>7, <1>10, <1>11, <1>13 DEF Good, Fresh
<1>15. Calm(d, r)
  BY <1>7, <1>10, <1>11 DEF Calm, Due, Slots
<1>16. Trying(d) => Trying(r)
  <2>1. CASE s = "http"
    BY <1>11, <2>1 DEF Trying, Connecting
  <2>2. CASE s # "http"
    <3>1. d.resolving # "http"
      BY <1>3, <1>4, <2>2 DEF NoSlot
    <3>2. d.ops["http"] \subseteq r.ops["http"]
      BY <1>11 DEF Slots
    <3> QED BY <1>7, <3>1, <3>2 DEF Trying
  <2> QED BY <2>1, <2>2
<1>17. Keeps(d, r)
  BY <1>14, <1>15, <1>16, CalmSafe DEF Keeps
<1> QED BY <1>3, <1>5, <1>17, KeepsTrans DEF Keeps

\* asyncConnect waits for the name; it is an attempt if it is for m_Http.
LEMMA AsyncConnectKeeps ==
    ASSUME NEW n, Good(n), NEW s \in Slots, s = "http" \/ n.resolving = NoSlot,
           NEW r, r = asyncConnect(n, s)
    PROVE  Keeps(n, r) /\ (s = "http" => Trying(r))
<1>1. n \in Net
  BY DEF Good
<1>2. r = [n EXCEPT !.resolving = s]
  BY DEF asyncConnect
<1>3. /\ NetRecord(r)
      /\ r.link = n.link /\ r.ops = n.ops /\ r.ready = n.ready /\ r.tls = n.tls /\ r.open = n.open
      /\ r.stale = n.stale /\ r.out = n.out /\ r.wire = n.wire /\ r.news = n.news
      /\ r.resolving = s /\ r.clashed = n.clashed
  BY <1>1, <1>2 DEF Net, NetRecord
<1>4. FieldsTyped(n) /\ n.ready \in Seq(Completion) /\ n.wire \in Seq(Request)
  BY <1>1, NetFields
<1>5. FieldsTyped(r)
  BY <1>3, <1>4, Zenon DEF FieldsTyped
<1>6. r \in Net
  BY <1>3, <1>4, <1>5, NetTyped
<1>7. Plain(n, r)
  BY <1>3 DEF Plain, NoSlot
<1> QED BY <1>3, <1>6, <1>7, PlainKeeps DEF Trying

\* The operations of the old object of s are late, or have failed.
Created(n, s, r) ==
    /\ r \in Net /\ Due(n, r)
    /\ \A i \in DOMAIN r.ready : i \notin DOMAIN n.ready =>
          r.ready[i].slot = s /\ r.ready[i].op \in n.ops[s] /\ ~r.ready[i].ok
    /\ \A o \in r.stale : o \in n.stale \/ (o.slot = s /\ o.op \in n.ops[s])
    /\ IsFiniteSet(r.stale)
    /\ r.ops[s] = {} /\ \A t \in Slots \ {s} : r.ops[t] = n.ops[t]
    /\ \A t \in Slots \ {s} : r.tls[t] = n.tls[t]
    /\ r.news = "acked" => n.news = "acked" /\ s # "idle"
    /\ r.resolving = n.resolving /\ r.clashed = n.clashed

\* createConnect, by its fields.
LEMMA CreateConnectShape ==
    ASSUME NEW n, Good(n), NEW s \in Slots, NEW r, r = createConnect(n, s)
    PROVE  Created(n, s, r)
<1>1. PICK d : d = Disconnected(n, s)
  OBVIOUS
<1>2. /\ d \in Net /\ Plain(n, d) /\ d.open = n.open /\ d.resolving = n.resolving
      /\ s = "idle" => d.news # "acked"
  BY <1>1, DisconnectedShape DEF Good
<1>3. /\ d.ops = n.ops /\ d.stale = n.stale /\ d.ready = n.ready /\ d.tls = n.tls
      /\ d.clashed = n.clashed /\ (d.news = "acked" => n.news = "acked")
  BY <1>2 DEF Plain
<1>4. PICK reply : reply = IF s = "http" /\ n.wire # <<>> THEN Head(n.wire) ELSE NoRequest
  OBVIOUS
<1>5. PICK ended, late, kept :
          /\ ended = IF n.ops[s] \cap {"write", "read"} # {} THEN {} ELSE n.ops[s]
          /\ late = [i \in DOMAIN n.ready |-> IF n.ready[i].slot = s THEN [n.ready[i] EXCEPT !.late = TRUE]
                                              ELSE n.ready[i]]
          /\ kept = IF n.ops[s] \cap {"write", "read"} # {}
                    THEN {[slot |-> s, op |-> op, reply |-> reply] : op \in n.ops[s]} ELSE {}
  OBVIOUS
<1>6. PICK q, st, b : q = late \o Failures(s, ended) /\ st = n.stale \cup kept /\ b = FALSE
  OBVIOUS
<1>7. r = [d EXCEPT !.stale = st, !.ready = q, !.ops[s] = {}, !.open[s] = b, !.tls[s] = "new"]
  <2>1. st = IF n.ops[s] \cap {"write", "read"} # {}
             THEN d.stale \cup {[slot |-> s, op |-> op, reply |-> reply] : op \in n.ops[s]} ELSE d.stale
    BY <1>3, <1>5, <1>6
  <2>2. late = [i \in DOMAIN d.ready |-> IF d.ready[i].slot = s THEN [d.ready[i] EXCEPT !.late = TRUE]
                                         ELSE d.ready[i]]
    BY <1>3, <1>5, Zenon
  <2>3. ended = IF n.ops[s] \cap {"write", "read"} # {} THEN {} ELSE n.ops[s]
    BY <1>5, Zenon
  <2>4. r = [d EXCEPT
                !.stale = IF n.ops[s] \cap {"write", "read"} # {}
                          THEN @ \cup {[slot |-> s, op |-> op,
                                        reply |-> IF s = "http" /\ n.wire # <<>> THEN Head(n.wire)
                                                  ELSE NoRequest] : op \in n.ops[s]} ELSE @,
                !.ready = [i \in DOMAIN @ |-> IF @[i].slot = s THEN [@[i] EXCEPT !.late = TRUE] ELSE @[i]]
                          \o Failures(s, IF n.ops[s] \cap {"write", "read"} # {} THEN {} ELSE n.ops[s]),
                !.ops[s] = {}, !.open[s] = FALSE, !.tls[s] = "new"]
    BY <1>1, Zenon DEF createConnect
  <2>5. PICK st2, late2, ended2 :
            /\ st2 = IF n.ops[s] \cap {"write", "read"} # {}
                     THEN d.stale \cup {[slot |-> s, op |-> op,
                                         reply |-> IF s = "http" /\ n.wire # <<>> THEN Head(n.wire)
                                                   ELSE NoRequest] : op \in n.ops[s]} ELSE d.stale
            /\ late2 = [i \in DOMAIN d.ready |-> IF d.ready[i].slot = s
                                                 THEN [d.ready[i] EXCEPT !.late = TRUE] ELSE d.ready[i]]
            /\ ended2 = IF n.ops[s] \cap {"write", "read"} # {} THEN {} ELSE n.ops[s]
    OBVIOUS
  <2>6. r = [d EXCEPT !.stale = st2, !.ready = late2 \o Failures(s, ended2),
                      !.ops[s] = {}, !.open[s] = FALSE, !.tls[s] = "new"]
    BY <2>4, <2>5, Zenon
  <2>7. st2 = st
    BY <1>4, <2>1, <2>5
  <2>8. late2 = late /\ ended2 = ended
    BY <2>2, <2>3, <2>5, Zenon
  <2> QED BY <1>6, <2>6, <2>7, <2>8, Zenon
<1>8. /\ NetRecord(r)
      /\ r.link = d.link /\ r.tls = [n.tls EXCEPT ![s] = "new"] /\ r.open = [n.open EXCEPT ![s] = b]
      /\ r.ops = [n.ops EXCEPT ![s] = {}] /\ r.stale = st /\ r.ready = q
      /\ r.out = d.out /\ r.wire = d.wire /\ r.news = d.news
      /\ r.resolving = n.resolving /\ r.clashed = n.clashed
  <2>1. PICK tls, open, ops : /\ tls = [d.tls EXCEPT ![s] = "new"] /\ open = [d.open EXCEPT ![s] = b]
                              /\ ops = [d.ops EXCEPT ![s] = {}]
    OBVIOUS
  <2>2. r = [d EXCEPT !.stale = st, !.ready = q, !.ops = ops, !.open = open, !.tls = tls]
    BY <1>2, <1>7, <2>1 DEF Net
  <2>3. /\ NetRecord(r)
        /\ r.link = d.link /\ r.tls = tls /\ r.open = open
        /\ r.ops = ops /\ r.stale = st /\ r.ready = q
        /\ r.out = d.out /\ r.wire = d.wire /\ r.news = d.news
        /\ r.resolving = d.resolving /\ r.clashed = d.clashed
    BY <1>2, <2>2 DEF Net, NetRecord
  <2> QED BY <1>2, <1>3, <2>1, <2>3, Zenon
<1>9. /\ FieldsTyped(n) /\ n.ready \in Seq(Completion) /\ n.wire \in Seq(Request)
      /\ FieldsTyped(d) /\ d.wire \in Seq(Request) /\ n \in Net
  BY <1>2, NetFields DEF Good
<1>10. /\ ended \in SUBSET Ops /\ ended \subseteq n.ops[s] /\ n.ops[s] \subseteq Ops
  BY <1>5, <1>9 DEF FieldsTyped
<1>11. reply \in Reply
  <2>1. CASE s = "http" /\ n.wire # <<>>
    BY <1>4, <1>9, <2>1, RequestIsReply
  <2>2. CASE ~(s = "http" /\ n.wire # <<>>)
    BY <1>4, <2>2, RequestIsReply
  <2> QED BY <2>1, <2>2
<1>12. /\ kept \in SUBSET Stale /\ \A o \in kept : o.slot = s /\ o.op \in n.ops[s]
  BY <1>5, <1>10, <1>11 DEF Stale
<1>13. IsFiniteSet(kept)
  <2>1. PICK x1, x2, x3, x4 :
            /\ x1 = [slot |-> s, op |-> "connect", reply |-> reply]
            /\ x2 = [slot |-> s, op |-> "handshake", reply |-> reply]
            /\ x3 = [slot |-> s, op |-> "write", reply |-> reply]
            /\ x4 = [slot |-> s, op |-> "read", reply |-> reply]
    OBVIOUS
  <2>2. kept \subseteq (({} \cup {x1}) \cup {x2}) \cup ({x3} \cup {x4})
    BY <1>5, <1>10, <2>1 DEF Ops
  <2>3. IsFiniteSet((({} \cup {x1}) \cup {x2}) \cup ({x3} \cup {x4}))
    BY FS_EmptySet, FS_Singleton, FS_Union
  <2> QED BY <2>2, <2>3, FS_Subset
<1>14. IsFiniteSet(st) /\ st \in SUBSET Stale
  BY <1>6, <1>9, <1>12, <1>13, FS_Union DEF Good, FieldsTyped
<1>15. \A i \in DOMAIN n.ready :
          /\ late[i] \in Completion
          /\ late[i].slot = n.ready[i].slot /\ late[i].op = n.ready[i].op
          /\ late[i].ok = n.ready[i].ok /\ late[i].reply = n.ready[i].reply
  <2> SUFFICES ASSUME NEW i \in DOMAIN n.ready, NEW e \in Completion, e = n.ready[i]
               PROVE  /\ late[i] \in Completion
                      /\ late[i].slot = e.slot /\ late[i].op = e.op
                      /\ late[i].ok = e.ok /\ late[i].reply = e.reply
    BY <1>9, ReadyIndex
  <2>1. PICK t \in BOOLEAN : t = TRUE
    OBVIOUS
  <2>2. late[i] = e \/ late[i] = [e EXCEPT !.late = t]
    <3>1. late[i] = IF n.ready[i].slot = s THEN [n.ready[i] EXCEPT !.late = TRUE] ELSE n.ready[i]
      BY <1>5
    <3> QED BY <2>1, <3>1, Zenon
  <2>3. /\ [e EXCEPT !.late = t] \in Completion
        /\ [e EXCEPT !.late = t].slot = e.slot /\ [e EXCEPT !.late = t].op = e.op
        /\ [e EXCEPT !.late = t].ok = e.ok /\ [e EXCEPT !.late = t].reply = e.reply
    BY DEF Completion
  <2> QED BY <2>2, <2>3
<1>16. late \in Seq(Completion) /\ DOMAIN late = DOMAIN n.ready
  <2>1. DOMAIN n.ready = 1..Len(n.ready) /\ Len(n.ready) \in Nat
    BY <1>9, ReadyIndex
  <2>2. DOMAIN late = DOMAIN n.ready
    BY <1>5
  <2>3. late \in [1..Len(n.ready) -> Completion]
    BY <1>5, <1>15, <2>1, <2>2
  <2> QED BY <2>1, <2>2, <2>3
<1>17. Grows(late, q, {Failed(s, op) : op \in ended})
  BY <1>6, <1>10, <1>16, FailuresGrow
<1>18. Due(n, r)
  BY <1>8, <1>15, <1>16, <1>17 DEF Due, Grows
<1>19. ASSUME NEW i \in DOMAIN r.ready, i \notin DOMAIN n.ready
       PROVE  r.ready[i].slot = s /\ r.ready[i].op \in n.ops[s] /\ ~r.ready[i].ok
  <2>1. PICK op \in ended : r.ready[i] = Failed(s, op)
    BY <1>8, <1>16, <1>17, <1>19 DEF Grows
  <2> QED BY <1>10, <2>1, FailedTyped
<1>20. /\ r.ops \in [Slots -> SUBSET Ops] /\ r.ops[s] = {}
       /\ \A t \in Slots \ {s} : r.ops[t] = n.ops[t]
  BY <1>8, <1>9 DEF FieldsTyped
<1>21. /\ r.tls \in [Slots -> {"new", "begun", "done", "stuck", "foreign"}]
       /\ \A t \in Slots \ {s} : r.tls[t] = n.tls[t]
  BY <1>8, <1>9 DEF FieldsTyped
<1>22. r.open \in [Slots -> BOOLEAN]
  <2>1. b \in BOOLEAN
    BY <1>6
  <2> QED BY <1>8, <1>9, <2>1 DEF FieldsTyped
<1>23. FieldsTyped(r)
  BY <1>8, <1>9, <1>14, <1>20, <1>21, <1>22, Zenon DEF FieldsTyped
<1>24. r.ready \in Seq(Completion)
  BY <1>8, <1>17 DEF Grows
<1>25. r \in Net
  BY <1>8, <1>9, <1>23, <1>24, NetTyped
<1>26. \A o \in r.stale : o \in n.stale \/ (o.slot = s /\ o.op \in n.ops[s])
  BY <1>6, <1>8, <1>12
<1> QED BY <1>2, <1>3, <1>8, <1>14, <1>18, <1>19, <1>20, <1>21, <1>25, <1>26 DEF Created

\* A new object has no operation.
LEMMA CreatedGood ==
    ASSUME NEW n, Good(n), NEW s \in Slots, NEW r, Created(n, s, r)
    PROVE  Good(r)
  BY DEF Created, Good, Fresh

\* A new m_Http leaves the idle connection as it is.
LEMMA CreateHttpSafe ==
    ASSUME NEW n, Good(n), NEW r, r = createConnect(n, "http")
    PROVE  Safe(n, r) /\ r.resolving = n.resolving
<1>1. Created(n, "http", r)
  BY CreateConnectShape DEF Slots
<1>2. Good(r)
  BY <1>1, CreatedGood DEF Slots
<1>3. Calm(n, r)
  BY <1>1 DEF Created, Calm, IdleRead, Slots
<1> QED BY <1>1, <1>2, <1>3, CalmSafe DEF Created

\* A new m_HttpIdle, made when nothing that arrived is due, starts anew.
LEMMA CreateIdleStarts ==
    ASSUME NEW n, Good(n), NEW r, r = createConnect(n, "idle"),
           ~n.clashed => /\ \A o \in n.stale : ~IdleRead(o)
                         /\ "read" \notin n.ops["idle"]
                         /\ \A i \in DOMAIN n.ready : ~Arrived(n.ready[i])
    PROVE  /\ Good(r) /\ (n.clashed => r.clashed) /\ r.resolving = n.resolving
           /\ \A read \in BOOLEAN : IdleOk(r, read)
<1>1. Created(n, "idle", r)
  BY CreateConnectShape DEF Slots
<1>2. Good(r)
  BY <1>1, CreatedGood DEF Slots
<1>3. ASSUME ~r.clashed
      PROVE  /\ \A o \in r.stale : ~IdleRead(o)
             /\ "read" \notin r.ops["idle"] /\ r.news # "acked"
             /\ \A i \in DOMAIN r.ready : ~Arrived(r.ready[i])
  <2>1. \A o \in r.stale : ~IdleRead(o)
    BY <1>1, <1>3 DEF Created, IdleRead
  <2>2. "read" \notin r.ops["idle"] /\ r.news # "acked"
    BY <1>1 DEF Created
  <2>3. \A i \in DOMAIN r.ready : ~Arrived(r.ready[i])
    BY <1>1, <1>3 DEF Created, Due, Arrived, IdleRead
  <2> QED BY <2>1, <2>2, <2>3
<1>4. \A read \in BOOLEAN : IdleOk(r, read)
  BY <1>3 DEF IdleOk, IdleInv, Acks
<1> QED BY <1>1, <1>2, <1>4 DEF Created

\* The handlers, with one for a read or write that failed at once.
LEMMA StartFails ==
    ASSUME NEW n, Good(n), NEW s \in Slots, NEW op \in Transfers, n.tls[s] = "new",
           NEW r, r = [n EXCEPT !.ready = Append(@, Failed(s, op))]
    PROVE  Keeps(n, r)
<1>0. n \in Net /\ Fresh(n) /\ IsFiniteSet(n.stale) /\ op \in Ops
  BY DEF Good, Transfers, Ops
<1>1. PICK e \in Completion : e = Failed(s, op)
  BY <1>0, FailedTyped
<1>2. e.slot = s /\ e.op = op /\ ~e.ok
  BY <1>0, <1>1, FailedTyped
<1>3. r = [n EXCEPT !.ready = Append(@, e)]
  BY <1>1
<1>4. /\ NetRecord(r)
      /\ r.link = n.link /\ r.ops = n.ops /\ r.tls = n.tls /\ r.open = n.open
      /\ r.stale = n.stale /\ r.out = n.out /\ r.wire = n.wire /\ r.news = n.news
      /\ r.resolving = n.resolving /\ r.clashed = n.clashed /\ r.ready = Append(n.ready, e)
  BY <1>0, <1>3 DEF Net, NetRecord
<1>5. FieldsTyped(n) /\ n.ready \in Seq(Completion) /\ n.wire \in Seq(Request)
  BY <1>0, NetFields
<1>6. FieldsTyped(r)
  BY <1>4, <1>5, Zenon DEF FieldsTyped
<1>7. Grows(n.ready, r.ready, {e})
  BY <1>4, <1>5, AppendGrows
<1>8. r \in Net
  BY <1>4, <1>5, <1>6, <1>7, NetTyped DEF Grows
<1>9. Good(r)
  BY <1>0, <1>4, <1>8 DEF Good, Fresh
<1>10. /\ \A i \in DOMAIN n.ready : i \in DOMAIN r.ready /\ r.ready[i] = n.ready[i]
       /\ \A i \in DOMAIN r.ready : i \in DOMAIN n.ready \/ r.ready[i] = e
  BY <1>7 DEF Grows
<1>11. ~Arrived(e) /\ ~Acknowledges(e)
  BY <1>2 DEF Arrived, Acknowledges
<1>12. ASSUME NEW read \in BOOLEAN, IdleInv(n), Acks(n, read)
       PROVE  IdleInv(r) /\ Acks(r, read)
  <2>1. ASSUME IdleRead(e)
        PROVE  "read" \notin n.ops["idle"] /\ \A i \in DOMAIN n.ready : ~Arrived(n.ready[i])
    <3>1. n.tls["idle"] = "new" /\ "idle" \in Slots
      BY <1>2, <2>1 DEF IdleRead
    <3>2. n.ops["idle"] \subseteq {"connect"}
      BY <1>0, <3>1 DEF Fresh
    <3> QED BY <1>12, <3>1, <3>2 DEF IdleInv
  <2>2. \A o \in r.stale : ~IdleRead(o)
    BY <1>4, <1>12 DEF IdleInv
  <2>3. "read" \in r.ops["idle"] => \A i \in DOMAIN r.ready : ~IdleRead(r.ready[i])
    BY <1>4, <1>10, <1>12, <2>1 DEF IdleInv
  <2>4. \A i \in DOMAIN r.ready : Arrived(r.ready[i]) => i \in DOMAIN n.ready /\ Arrived(n.ready[i])
    BY <1>10, <1>11
  <2>5. ASSUME NEW i \in DOMAIN r.ready, NEW j \in DOMAIN r.ready,
               Arrived(r.ready[i]), IdleRead(r.ready[j])
        PROVE  i = j
    <3>1. i \in DOMAIN n.ready /\ Arrived(n.ready[i])
      BY <2>4, <2>5
    <3>2. j \in DOMAIN n.ready /\ IdleRead(n.ready[j])
      BY <1>10, <2>1, <2>5, <3>1
    <3> QED BY <1>12, <3>1, <3>2 DEF IdleInv
  <2>6. \A i \in DOMAIN r.ready : Arrived(r.ready[i]) => r.tls["idle"] # "new"
    BY <1>4, <1>12, <2>4 DEF IdleInv
  <2>7. Acks(r, read)
    BY <1>4, <1>10, <1>12, <2>4 DEF Acks
  <2> QED BY <2>2, <2>3, <2>5, <2>6, <2>7 DEF IdleInv
<1>13. Safe(n, r)
  BY <1>4, <1>9, <1>12 DEF Safe, IdleOk
<1>14. Trying(n) => Trying(r)
  BY <1>4, <1>10 DEF Trying
<1> QED BY <1>13, <1>14 DEF Keeps

\* A read or write starts: a read of the idle connection finds none, or clashes.
LEMMA StartKeeps ==
    ASSUME NEW n, Good(n), NEW s \in Slots, NEW op \in Transfers, NEW r, r = Start(n, s, op)
    PROVE  Keeps(n, r) /\ r.resolving = n.resolving
<1>0. n \in Net /\ Fresh(n) /\ IsFiniteSet(n.stale) /\ op \in Ops
  BY DEF Good, Transfers, Ops
<1>1. CASE n.tls[s] = "new"
  <2>1. r = [n EXCEPT !.ready = Append(@, Failed(s, op))]
    BY <1>1 DEF Start
  <2>2. r.resolving = n.resolving
    BY <1>0, <2>1 DEF Net
  <2> QED BY <1>1, <2>1, <2>2, StartFails
<1>2. CASE n.tls[s] # "new"
  <2>1. PICK b \in BOOLEAN : b = (n.clashed \/ InUse(n, s, op))
    OBVIOUS
  <2>2. r = [n EXCEPT !.ops[s] = @ \cup {op}, !.clashed = b]
    <3>1. r = [n EXCEPT !.ops[s] = @ \cup {op}, !.clashed = @ \/ InUse(n, s, op)]
      BY <1>2, Zenon DEF Start
    <3> QED BY <2>1, <3>1, Zenon
  <2>3. /\ NetRecord(r)
        /\ r.link = n.link /\ r.tls = n.tls /\ r.open = n.open /\ r.ready = n.ready
        /\ r.stale = n.stale /\ r.out = n.out /\ r.wire = n.wire /\ r.news = n.news
        /\ r.resolving = n.resolving /\ r.clashed = b
        /\ r.ops = [n.ops EXCEPT ![s] = n.ops[s] \cup {op}]
    BY <1>0, <2>2 DEF Net, NetRecord
  <2>4. FieldsTyped(n) /\ n.ready \in Seq(Completion) /\ n.wire \in Seq(Request)
    BY <1>0, NetFields
  <2>5. /\ r.ops \in [Slots -> SUBSET Ops] /\ r.ops[s] = n.ops[s] \cup {op}
        /\ \A t \in Slots \ {s} : r.ops[t] = n.ops[t]
        /\ \A t \in Slots : n.ops[t] \subseteq r.ops[t]
    BY <1>0, <2>3, <2>4 DEF FieldsTyped
  <2>6. FieldsTyped(r)
    BY <2>3, <2>4, <2>5, Zenon DEF FieldsTyped
  <2>7. r \in Net
    BY <2>3, <2>4, <2>6, NetTyped
  <2>8. Good(r)
    BY <1>0, <1>2, <2>3, <2>5, <2>7 DEF Good, Fresh
  <2>9. ASSUME ~r.clashed
        PROVE  /\ ~n.clashed
               /\ s = "idle" /\ op = "read" => \A i \in DOMAIN n.ready : ~IdleRead(n.ready[i])
    <3>1. ~n.clashed /\ ~InUse(n, s, op)
      BY <2>1, <2>3, <2>9, Zenon
    <3> QED BY <3>1 DEF InUse, IdleRead
  <2>10. ASSUME NEW read \in BOOLEAN, IdleOk(n, read), ~r.clashed
         PROVE  IdleInv(r) /\ Acks(r, read)
    <3>1. IdleInv(n) /\ Acks(n, read)
      BY <2>9, <2>10 DEF IdleOk
    <3>2. "read" \in r.ops["idle"] => \A i \in DOMAIN r.ready : ~IdleRead(r.ready[i])
      BY <2>3, <2>5, <2>9, <2>10, <3>1 DEF IdleInv, Slots
    <3>3. IdleInv(r)
      BY <2>3, <3>1, <3>2 DEF IdleInv
    <3>4. Acks(r, read)
      BY <2>3, <3>1 DEF Acks
    <3> QED BY <3>3, <3>4
  <2>11. Safe(n, r)
    BY <2>8, <2>9, <2>10 DEF Safe, IdleOk
  <2>12. Trying(n) => Trying(r)
    BY <2>3, <2>5 DEF Trying, Slots
  <2> QED BY <2>3, <2>11, <2>12 DEF Keeps
<1> QED BY <1>1, <1>2

\* A handshake starts; it is an attempt if it is of m_Http.
LEMMA HandshakeKeeps ==
    ASSUME NEW n, Good(n), NEW s \in Slots, NEW r, r = async_handshake(n, s)
    PROVE  Keeps(n, r) /\ (s = "http" => Trying(r))
<1>0. n \in Net /\ Fresh(n) /\ IsFiniteSet(n.stale)
  BY DEF Good
<1>1. PICK b \in BOOLEAN : b = (n.clashed \/ InUse(n, s, "handshake"))
  OBVIOUS
<1>2. PICK ops, tls : /\ ops = [n.ops EXCEPT ![s] = @ \cup {"handshake"}]
                      /\ tls = [n.tls EXCEPT ![s] = IF @ = "new" THEN "begun" ELSE @]
  OBVIOUS
<1>3. r = [n EXCEPT !.ops = ops, !.clashed = b, !.tls = tls]
  <2>1. r = [n EXCEPT !.ops[s] = @ \cup {"handshake"}, !.clashed = @ \/ InUse(n, s, "handshake"),
                      !.tls[s] = IF @ = "new" THEN "begun" ELSE @]
    BY Zenon DEF async_handshake
  <2>2. r = [n EXCEPT !.ops[s] = @ \cup {"handshake"}, !.clashed = b,
                      !.tls[s] = IF @ = "new" THEN "begun" ELSE @]
    BY <1>1, <2>1, Zenon
  <2> QED BY <1>0, <1>2, <2>2 DEF Net
<1>4. /\ NetRecord(r)
      /\ r.link = n.link /\ r.tls = tls /\ r.open = n.open /\ r.ready = n.ready
      /\ r.stale = n.stale /\ r.out = n.out /\ r.wire = n.wire /\ r.news = n.news
      /\ r.resolving = n.resolving /\ r.clashed = b /\ r.ops = ops
  BY <1>0, <1>3 DEF Net, NetRecord
<1>5. FieldsTyped(n) /\ n.ready \in Seq(Completion) /\ n.wire \in Seq(Request)
  BY <1>0, NetFields
<1>6. /\ ops \in [Slots -> SUBSET Ops] /\ "handshake" \in ops[s]
      /\ \A t \in Slots \ {s} : ops[t] = n.ops[t]
      /\ \A t \in Slots : n.ops[t] \subseteq ops[t] /\ ops[t] \subseteq n.ops[t] \cup {"handshake"}
  BY <1>2, <1>5 DEF FieldsTyped, Ops
<1>7. /\ tls \in [Slots -> {"new", "begun", "done", "stuck", "foreign"}] /\ tls[s] # "new"
      /\ \A t \in Slots \ {s} : tls[t] = n.tls[t]
      /\ \A t \in Slots : tls[t] = "new" => n.tls[t] = "new"
  BY <1>2, <1>5 DEF FieldsTyped
<1>8. FieldsTyped(r)
  BY <1>4, <1>5, <1>6, <1>7, Zenon DEF FieldsTyped
<1>9. r \in Net
  BY <1>4, <1>5, <1>8, NetTyped
<1>10. Good(r)
  BY <1>0, <1>4, <1>6, <1>7, <1>9 DEF Good, Fresh
<1>11. n.clashed => r.clashed
  BY <1>1, <1>4, Zenon
<1>12. Calm(n, r)
  BY <1>4, <1>6, <1>7, <1>11 DEF Calm, Due, Slots
<1>13. (Trying(n) => Trying(r)) /\ (s = "http" => Trying(r))
  <2>1. s = "http" => Trying(r)
    BY <1>4, <1>6 DEF Trying, Connecting
  <2>2. n.ops["http"] \subseteq r.ops["http"]
    BY <1>4, <1>6 DEF Slots
  <2>3. Trying(n) => Trying(r)
    BY <1>4, <2>2 DEF Trying
  <2> QED BY <2>1, <2>3
<1> QED BY <1>10, <1>12, <1>13, CalmSafe DEF Keeps

\* m_WriteBuffer.
LEMMA OutKeeps ==
    ASSUME NEW n, Good(n), NEW request \in Request, NEW r, r = [n EXCEPT !.out = request]
    PROVE  Keeps(n, r)
<1>1. n \in Net
  BY DEF Good
<1>2. /\ NetRecord(r)
      /\ r.link = n.link /\ r.tls = n.tls /\ r.open = n.open /\ r.ready = n.ready
      /\ r.stale = n.stale /\ r.out = request /\ r.wire = n.wire /\ r.news = n.news
      /\ r.resolving = n.resolving /\ r.clashed = n.clashed /\ r.ops = n.ops
  BY <1>1 DEF Net, NetRecord
<1>3. FieldsTyped(n) /\ n.ready \in Seq(Completion) /\ n.wire \in Seq(Request)
  BY <1>1, NetFields
<1>4. FieldsTyped(r)
  BY <1>2, <1>3, Zenon DEF FieldsTyped
<1>5. r \in Net /\ Plain(n, r)
  BY <1>2, <1>3, <1>4, NetTyped DEF Plain
<1> QED BY <1>5, PlainKeeps

\* m_IsOpen.
LEMMA OpenKeeps ==
    ASSUME NEW n, Good(n), NEW s \in Slots, NEW r, r = [n EXCEPT !.open[s] = TRUE]
    PROVE  Keeps(n, r) /\ r.resolving = n.resolving
<1>1. n \in Net
  BY DEF Good
<1>0. PICK b \in BOOLEAN : b = TRUE
  OBVIOUS
<1>2. PICK open : open = [n.open EXCEPT ![s] = b]
  OBVIOUS
<1>3. r = [n EXCEPT !.open = open]
  <2>1. r = [n EXCEPT !.open[s] = b]
    BY <1>0, Zenon
  <2> QED BY <1>1, <1>2, <2>1 DEF Net
<1>4. /\ NetRecord(r)
      /\ r.link = n.link /\ r.tls = n.tls /\ r.open = open /\ r.ready = n.ready
      /\ r.stale = n.stale /\ r.out = n.out /\ r.wire = n.wire /\ r.news = n.news
      /\ r.resolving = n.resolving /\ r.clashed = n.clashed /\ r.ops = n.ops
  BY <1>1, <1>3 DEF Net, NetRecord
<1>5. FieldsTyped(n) /\ n.ready \in Seq(Completion) /\ n.wire \in Seq(Request)
  BY <1>1, NetFields
<1>6. open \in [Slots -> BOOLEAN]
  BY <1>2, <1>5 DEF FieldsTyped
<1>7. FieldsTyped(r)
  BY <1>4, <1>5, <1>6, Zenon DEF FieldsTyped
<1>8. r \in Net /\ Plain(n, r)
  BY <1>4, <1>5, <1>7, NetTyped DEF Plain
<1> QED BY <1>4, <1>8, PlainKeeps

--------------------------------------------------------------------------------
(* The IoThread takes the handler at the head of ready *)

\* m is n without e.
Popped(n, e, m) ==
    /\ m \in Net /\ e \in Completion
    /\ m.ops = n.ops /\ m.stale = n.stale /\ m.tls = n.tls /\ m.news = n.news
    /\ m.resolving = n.resolving /\ m.clashed = n.clashed
    /\ 1 \in DOMAIN n.ready /\ n.ready[1] = e
    /\ \A i \in DOMAIN m.ready :
          i \in Int /\ i + 1 \in DOMAIN n.ready /\ i + 1 # 1 /\ m.ready[i] = n.ready[i + 1]
    /\ \A i \in DOMAIN n.ready : i = 1 \/ \E j \in DOMAIN m.ready : m.ready[j] = n.ready[i]

\* That is what runHandler makes of net.
LEMMA PopShape ==
    ASSUME NEW n \in Net, n.ready # <<>>, NEW m, m = [n EXCEPT !.ready = Tail(@)]
    PROVE  Popped(n, Head(n.ready), m)
<1>1. PICK p, q, k, e : p = n.ready /\ q = Tail(p) /\ k = Len(p) /\ e = Head(p)
  OBVIOUS
<1>2. m = [n EXCEPT !.ready = q]
  BY <1>1
<1>3. /\ NetRecord(m)
      /\ m.link = n.link /\ m.tls = n.tls /\ m.open = n.open /\ m.ready = q
      /\ m.stale = n.stale /\ m.out = n.out /\ m.wire = n.wire /\ m.news = n.news
      /\ m.resolving = n.resolving /\ m.clashed = n.clashed /\ m.ops = n.ops
  BY <1>2 DEF Net, NetRecord
<1>4. FieldsTyped(n) /\ p \in Seq(Completion) /\ n.wire \in Seq(Request) /\ p # <<>>
  BY <1>1, NetFields
<1>5. FieldsTyped(m)
  BY <1>3, <1>4, Zenon DEF FieldsTyped
<1>6. /\ k \in Nat /\ k >= 1 /\ DOMAIN p = 1..k /\ q \in Seq(Completion) /\ DOMAIN q = 1..(k - 1)
      /\ \A i \in 1..(k - 1) : q[i] = p[i + 1]
      /\ e = p[1] /\ \A i \in 1..k : p[i] \in Completion
  BY <1>1, <1>4
<1>7. 1 \in DOMAIN p /\ e \in Completion
  BY <1>6
<1>8. \A i \in DOMAIN q : i \in Int /\ i + 1 \in DOMAIN p /\ i + 1 # 1 /\ q[i] = p[i + 1]
  BY <1>6
<1>9. \A i \in DOMAIN p : i = 1 \/ \E j \in DOMAIN q : q[j] = p[i]
  <2> SUFFICES ASSUME NEW i \in DOMAIN p, i # 1
               PROVE  \E j \in DOMAIN q : q[j] = p[i]
    OBVIOUS
  <2>1. i - 1 \in DOMAIN q /\ (i - 1) + 1 = i
    BY <1>6
  <2> QED BY <1>8, <2>1
<1>10. m \in Net
  BY <1>3, <1>4, <1>5, <1>6, NetTyped
<1>11. Popped(n, e, m)
  BY <1>1, <1>3, <1>6, <1>7, <1>8, <1>9, <1>10 DEF Popped
<1> QED BY <1>1, <1>11, Zenon

\* What remains without e: what was said of the sockets, but for what e says.
Remains(n, read, e, m) ==
    /\ Good(m) /\ m.resolving = n.resolving /\ m.clashed = n.clashed
    /\ IdleOk(m, read \/ Acknowledges(e))
    /\ Trying(n) => Trying(m) \/ Attempt(e)
    /\ IdleRead(e) /\ ~m.clashed =>
          /\ \A o \in m.stale : ~IdleRead(o)
          /\ "read" \notin m.ops["idle"]
          /\ \A i \in DOMAIN m.ready : ~Arrived(m.ready[i])
    /\ Arrived(e) /\ e.reply.ok /\ ~m.clashed => e.reply.cmd = "ack" \/ read

\* What is said of the sockets holds without e, but for what e says.
LEMMA PopKeeps ==
    ASSUME NEW n, Good(n), NEW e, NEW m, Popped(n, e, m), NEW read \in BOOLEAN, IdleOk(n, read)
    PROVE  Remains(n, read, e, m)
<1>1. /\ m \in Net /\ e \in Completion
      /\ m.ops = n.ops /\ m.stale = n.stale /\ m.tls = n.tls /\ m.news = n.news
      /\ m.resolving = n.resolving /\ m.clashed = n.clashed
      /\ 1 \in DOMAIN n.ready /\ n.ready[1] = e
  BY DEF Popped
<1>2. /\ \A i \in DOMAIN m.ready :
            i \in Int /\ i + 1 \in DOMAIN n.ready /\ i + 1 # 1 /\ m.ready[i] = n.ready[i + 1]
      /\ \A i \in DOMAIN n.ready : i = 1 \/ \E j \in DOMAIN m.ready : m.ready[j] = n.ready[i]
  BY DEF Popped
<1>3. Good(m)
  BY <1>1 DEF Good, Fresh
<1>4. ASSUME ~m.clashed
      PROVE  IdleInv(n) /\ Acks(n, read)
  BY <1>1, <1>4 DEF IdleOk
<1>5. ASSUME ~m.clashed
      PROVE  IdleInv(m)
  <2>1. IdleInv(n)
    BY <1>4, <1>5
  <2>2. \A o \in m.stale : ~IdleRead(o)
    BY <1>1, <2>1 DEF IdleInv
  <2>3. "read" \in m.ops["idle"] => \A i \in DOMAIN m.ready : ~IdleRead(m.ready[i])
    BY <1>1, <1>2, <2>1 DEF IdleInv
  <2>4. ASSUME NEW i \in DOMAIN m.ready, NEW j \in DOMAIN m.ready,
               Arrived(m.ready[i]), IdleRead(m.ready[j])
        PROVE  i = j
    <3>1. i + 1 = j + 1
      BY <1>2, <2>1, <2>4 DEF IdleInv
    <3> QED BY <1>2, <3>1
  <2>5. \A i \in DOMAIN m.ready : Arrived(m.ready[i]) => m.tls["idle"] # "new"
    BY <1>1, <1>2, <2>1 DEF IdleInv
  <2> QED BY <2>2, <2>3, <2>4, <2>5 DEF IdleInv
<1>6. ASSUME ~m.clashed
      PROVE  Acks(m, read \/ Acknowledges(e))
  <2>1. Acks(n, read)
    BY <1>4, <1>6
  <2>2. \A i \in DOMAIN m.ready :
            Arrived(m.ready[i]) /\ m.ready[i].reply.ok => m.ready[i].reply.cmd = "ack" \/ read
    BY <1>2, <2>1 DEF Acks
  <2>3. ASSUME m.news = "acked", ~read, ~Acknowledges(e)
        PROVE  \E i \in DOMAIN m.ready : Acknowledges(m.ready[i])
    <3>1. PICK i \in DOMAIN n.ready : Acknowledges(n.ready[i])
      BY <1>1, <2>1, <2>3 DEF Acks
    <3>2. i # 1
      BY <1>1, <2>3, <3>1
    <3>3. PICK j \in DOMAIN m.ready : m.ready[j] = n.ready[i]
      BY <1>2, <3>2
    <3> QED BY <3>1, <3>3
  <2> QED BY <2>2, <2>3 DEF Acks
<1>7. IdleOk(m, read \/ Acknowledges(e))
  BY <1>5, <1>6 DEF IdleOk
<1>8. ASSUME Trying(n), ~Attempt(e)
      PROVE  Trying(m)
  <2>1. CASE \E i \in DOMAIN n.ready : Attempt(n.ready[i])
    BY <1>1, <1>2, <1>8, <2>1 DEF Trying
  <2>2. CASE ~\E i \in DOMAIN n.ready : Attempt(n.ready[i])
    BY <1>1, <1>8, <2>2 DEF Trying
  <2> QED BY <2>1, <2>2
<1>9. ASSUME IdleRead(e), ~m.clashed
      PROVE  /\ \A o \in m.stale : ~IdleRead(o)
             /\ "read" \notin m.ops["idle"]
             /\ \A i \in DOMAIN m.ready : ~Arrived(m.ready[i])
  <2>1. IdleInv(n)
    BY <1>4, <1>9
  <2>2. "read" \notin m.ops["idle"] /\ \A o \in m.stale : ~IdleRead(o)
    BY <1>1, <1>9, <2>1 DEF IdleInv
  <2>3. ASSUME NEW i \in DOMAIN m.ready, Arrived(m.ready[i])
        PROVE  FALSE
    <3>1. i + 1 \in DOMAIN n.ready /\ Arrived(n.ready[i + 1]) /\ i + 1 # 1
      BY <1>2, <2>3
    <3> QED BY <1>1, <1>9, <2>1, <3>1 DEF IdleInv
  <2> QED BY <2>2, <2>3
<1>10. Arrived(e) /\ e.reply.ok /\ ~m.clashed => e.reply.cmd = "ack" \/ read
  BY <1>1, <1>4 DEF Acks
<1> QED BY <1>1, <1>3, <1>7, <1>8, <1>9, <1>10 DEF Remains

\* What a handler finds: n is net without e.
Taken(n, e) ==
    /\ ClientInv
    /\ Good(n) /\ e \in Completion
    /\ n.resolving = NoSlot /\ n.clashed = net.clashed
    /\ IdleOk(n, ackRead \/ Acknowledges(e))
    /\ told => Trying(n) \/ Attempt(e)
    /\ IdleRead(e) /\ ~n.clashed =>
          /\ \A o \in n.stale : ~IdleRead(o)
          /\ "read" \notin n.ops["idle"]
          /\ \A i \in DOMAIN n.ready : ~Arrived(n.ready[i])
    /\ Arrived(e) /\ e.reply.ok /\ ~n.clashed => e.reply.cmd = "ack" \/ ackRead

\* The handler at the head of ready finds that.
LEMMA TakenFirst ==
    ASSUME ClientInv, net.resolving = NoSlot, net.ready # <<>>,
           NEW n, n = [net EXCEPT !.ready = Tail(@)]
    PROVE  Taken(n, Head(net.ready))
<1>1. PICK e, read : e = Head(net.ready) /\ read = ackRead
  OBVIOUS
<1>2. Good(net) /\ net \in Net /\ read \in BOOLEAN /\ IdleOk(net, read) /\ (told => Trying(net))
  BY <1>1 DEF ClientInv, Good, RestTyped
<1>3. Popped(net, e, n)
  BY <1>1, <1>2, PopShape
<1>4. Remains(net, read, e, n)
  BY <1>2, <1>3, PopKeeps
<1>5. IdleOk(n, ackRead \/ Acknowledges(e))
  BY <1>1, <1>4, Zenon DEF Remains
<1>6. e \in Completion
  BY <1>3 DEF Popped
<1>7. Taken(n, e)
  BY <1>1, <1>2, <1>4, <1>5, <1>6 DEF Taken, Remains
<1> QED BY <1>1, <1>7, Zenon

\* A handler that reads nothing from the idle connection keeps the invariant.
LEMMA HandledInv ==
    ASSUME NEW n, NEW e, Taken(n, e), ~Acknowledges(e), RestTyped',
           UNCHANGED <<idleState, ackRead>>, Safe(n, net'), told' => Trying(net')
    PROVE  ClientInv'
<1>1. PICK read \in BOOLEAN : read = ackRead
  BY DEF Taken, ClientInv, RestTyped
<1>2. IdleOk(n, read)
  <2>1. IdleOk(n, ackRead \/ Acknowledges(e)) /\ (ackRead \/ Acknowledges(e)) = read
    BY <1>1, Zenon DEF Taken
  <2> QED BY <2>1, Zenon
<1>3. IdleOk(net', read) /\ Good(net') /\ (n.clashed => net'.clashed)
  BY <1>2 DEF Safe
<1>4. IdleOk(net, ackRead)'
  BY <1>1, <1>3 DEF IdleOk, IdleInv, Acks
<1>5. Good(net)'
  BY <1>3 DEF Good, Fresh
<1>6. AckFirst'
  BY <1>3 DEF Taken, ClientInv, AckFirst
<1>7. (told => Trying(net))'
  BY DEF Trying
<1> QED BY <1>4, <1>5, <1>6, <1>7 DEF ClientInv

\* One that is not of an attempt to connect m_Http keeps the attempts.
LEMMA HandledKeepsInv ==
    ASSUME NEW n, NEW e, Taken(n, e), ~Acknowledges(e), ~Attempt(e), RestTyped',
           UNCHANGED <<idleState, ackRead, told>>, Keeps(n, net')
    PROVE  ClientInv'
<1>1. told' => Trying(net')
  BY DEF Taken, Keeps
<1> QED BY <1>1, HandledInv DEF Keeps

\* The variables that most handlers leave alone.
LEMMA RestStays ==
    ASSUME RestTyped, UNCHANGED <<env, idleWire, session, ackRead>>
    PROVE  RestTyped' /\ UNCHANGED <<ackRead, idleState, told>>
<1>1. UNCHANGED <<server, downs, inputs, idleWire, lastCmd, self, password, typed, idleState,
                  timeout, told, ackRead>>
  BY DEF env, session
<1> QED BY <1>1 DEF RestTyped

\* A handshake of an object that was replaced.
LEMMA StaleHandshakeKeeps ==
    ASSUME NEW n, Good(n), NEW s \in Slots,
           NEW r, r = [n EXCEPT !.stale = @ \cup {[slot |-> s, op |-> "handshake", reply |-> NoRequest]}]
    PROVE  Keeps(n, r) /\ (s = "http" => Trying(r))
<1>0. n \in Net /\ Fresh(n) /\ IsFiniteSet(n.stale)
  BY DEF Good
<1>1. PICK o : o = [slot |-> s, op |-> "handshake", reply |-> NoRequest]
  OBVIOUS
<1>2. o \in Stale /\ o.slot = s /\ o.op = "handshake"
  <2>1. NoRequest \in Reply
    BY RequestIsReply
  <2> QED BY <1>1, <2>1 DEF Stale, Ops
<1>3. PICK st : st = n.stale \cup {o}
  OBVIOUS
<1>4. r = [n EXCEPT !.stale = st]
  BY <1>1, <1>3
<1>5. /\ NetRecord(r)
      /\ r.link = n.link /\ r.tls = n.tls /\ r.open = n.open /\ r.ready = n.ready
      /\ r.stale = st /\ r.out = n.out /\ r.wire = n.wire /\ r.news = n.news
      /\ r.resolving = n.resolving /\ r.clashed = n.clashed /\ r.ops = n.ops
  BY <1>0, <1>4 DEF Net, NetRecord
<1>6. FieldsTyped(n) /\ n.ready \in Seq(Completion) /\ n.wire \in Seq(Request)
  BY <1>0, NetFields
<1>7. st \in SUBSET Stale /\ IsFiniteSet(st)
  BY <1>0, <1>2, <1>3, <1>6, FS_AddElement DEF FieldsTyped
<1>8. FieldsTyped(r)
  BY <1>5, <1>6, <1>7, Zenon DEF FieldsTyped
<1>9. r \in Net
  BY <1>5, <1>6, <1>8, NetTyped
<1>10. Good(r)
  BY <1>0, <1>5, <1>7, <1>9 DEF Good, Fresh
<1>11. Calm(n, r)
  BY <1>2, <1>3, <1>5 DEF Calm, Due, IdleRead
<1>12. (Trying(n) => Trying(r)) /\ (s = "http" => Trying(r))
  BY <1>2, <1>3, <1>5 DEF Trying, Attempt, Connecting
<1> QED BY <1>10, <1>11, <1>12, CalmSafe DEF Keeps

\* A connect has ended well: the handshake, or the next attempt.
LEMMA HandleConnectInv ==
    ASSUME NEW n, NEW e, Taken(n, e), e.op = "connect", handleConnect(n, e.slot, e.late), UNCHANGED env
    PROVE  ClientInv'
<1>1. RestTyped' /\ UNCHANGED <<ackRead, idleState, told>>
  BY RestStays DEF Taken, ClientInv, handleConnect
<1>2. PICK s \in Slots : s = e.slot
  BY CompletionFields DEF Taken
<1>3. Good(n) /\ n.resolving = NoSlot
  BY DEF Taken
<1>4. Keeps(n, net') /\ (s = "http" => Trying(net'))
  <2>1. CASE net' = [n EXCEPT !.stale = @ \cup {[slot |-> s, op |-> "handshake", reply |-> NoRequest]}]
    BY <1>3, <2>1, StaleHandshakeKeeps
  <2>2. CASE net' = asyncConnect(n, s)
    BY <1>3, <2>2, AsyncConnectKeeps
  <2>3. CASE \E opened : /\ opened = [n EXCEPT !.open[s] = TRUE]
                         /\ net' = asyncConnect(opened, s) \/ net' = async_handshake(opened, s)
    <3>1. PICK opened : /\ opened = [n EXCEPT !.open[s] = TRUE]
                        /\ net' = asyncConnect(opened, s) \/ net' = async_handshake(opened, s)
      BY <2>3
    <3>2. Keeps(n, opened) /\ opened.resolving = NoSlot
      BY <1>3, <3>1, OpenKeeps
    <3>3. Good(opened)
      BY <3>2 DEF Keeps, Safe
    <3>4. Keeps(opened, net') /\ (s = "http" => Trying(net'))
      BY <3>1, <3>2, <3>3, AsyncConnectKeeps, HandshakeKeeps
    <3> QED BY <3>2, <3>4, KeepsTrans DEF Keeps
  <2> QED BY <1>2, <2>1, <2>2, <2>3 DEF handleConnect
<1>5. ~Acknowledges(e)
  BY DEF Acknowledges, Arrived, IdleRead
<1>6. told' => Trying(net')
  <2>1. CASE s = "http"
    BY <1>4, <2>1
  <2>2. CASE s # "http"
    BY <1>1, <1>2, <1>4, <2>2 DEF Taken, Attempt, Keeps
  <2> QED BY <2>1, <2>2
<1> QED BY <1>1, <1>4, <1>5, <1>6, HandledInv DEF Keeps

\* An attempt to connect failed: the next.
LEMMA ConnectAgainInv ==
    ASSUME NEW n, NEW e, Taken(n, e), e.op \in Connecting, connectAgain(n, e.slot), UNCHANGED env
    PROVE  ClientInv'
<1>1. RestTyped' /\ UNCHANGED <<ackRead, idleState, told>>
  BY RestStays DEF Taken, ClientInv, connectAgain
<1>2. PICK s \in Slots : s = e.slot
  BY CompletionFields DEF Taken
<1>3. net' = asyncConnect(n, s) /\ Good(n) /\ n.resolving = NoSlot
  BY <1>2 DEF connectAgain, Taken
<1>4. Keeps(n, net') /\ (s = "http" => Trying(net'))
  BY <1>3, AsyncConnectKeeps
<1>5. ~Acknowledges(e)
  BY DEF Acknowledges, Arrived, IdleRead, Connecting
<1>6. told' => Trying(net')
  <2>1. CASE s = "http"
    BY <1>4, <2>1
  <2>2. CASE s # "http"
    BY <1>1, <1>2, <1>4, <2>2 DEF Taken, Attempt, Keeps
  <2> QED BY <2>1, <2>2
<1> QED BY <1>1, <1>4, <1>5, <1>6, HandledInv DEF Keeps

\* A request is sent: it is written, or the write fails.
LEMMA SendKeeps ==
    ASSUME NEW n, Good(n), NEW cmd, NEW request \in Request, sendRequest(n, cmd, request)
    PROVE  Keeps(n, net') /\ lastCmd' = cmd
<1>1. PICK m : m = Start(n, "http", "write")
  OBVIOUS
<1>2. Keeps(n, m)
  BY <1>1, StartKeeps DEF Slots, Transfers
<1>3. net' = [m EXCEPT !.out = request]
  BY <1>1 DEF sendRequest, asyncRequest
<1>4. Good(m)
  BY <1>2 DEF Keeps, Safe
<1>5. Keeps(m, net')
  BY <1>3, <1>4, OutKeeps
<1> QED BY <1>2, <1>5, KeepsTrans DEF Keeps, sendRequest

\* m_Http is connected: the user may log in, or the user of the command line does.
LEMMA OnHttpConnectInv ==
    ASSUME NEW n, NEW e, Taken(n, e), e.op = "handshake", onHttpConnect(n), UNCHANGED env
    PROVE  ClientInv'
<1>1. /\ told' = FALSE
      /\ UNCHANGED <<env, idleWire, self, password, typed, idleState, timeout, ackRead>>
  BY DEF onHttpConnect
<1>2. Keeps(n, net') /\ lastCmd' \in {"none", "login", "other"}
  <2>1. CASE CmdLineUser # NoUser
    <3>1. PICK ok \in BOOLEAN : ok = (password = CmdLineUser)
      OBVIOUS
    <3>2. PICK request : request = [cmd |-> "login", uid |-> CmdLineUser, ok |-> ok]
      OBVIOUS
    <3>3. request \in Request
      BY <3>2, UsersAssumption DEF Request, People
    <3>4. sendRequest(n, "login", request)
      <4>1. request = [cmd |-> "login", uid |-> CmdLineUser, ok |-> password = CmdLineUser]
        BY <3>1, <3>2, Zenon
      <4> QED BY <2>1, <4>1, Zenon DEF onHttpConnect
    <3> QED BY <3>3, <3>4, SendKeeps DEF Taken
  <2>2. CASE CmdLineUser = NoUser
    <3>1. net' = n /\ UNCHANGED lastCmd
      BY <2>2 DEF onHttpConnect
    <3>2. Keeps(n, n)
      BY DEF Taken, Keeps, Safe
    <3> QED BY <3>1, <3>2 DEF Taken, ClientInv, RestTyped
  <2> QED BY <2>1, <2>2
<1>3. RestTyped'
  <2>1. told' \in BOOLEAN
    BY <1>1
  <2> QED BY <1>1, <1>2, <2>1 DEF Taken, ClientInv, RestTyped, env
<1>4. ~Acknowledges(e) /\ Safe(n, net')
  BY <1>2 DEF Acknowledges, Arrived, IdleRead, Keeps
<1>5. told' => Trying(net')
  BY <1>1
<1> QED BY <1>1, <1>3, <1>4, <1>5, HandledInv

\* The request is written: the answer is read.
LEMMA OnHttpWriteInv ==
    ASSUME NEW n, NEW e, Taken(n, e), e.op = "write", onHttpWrite(n, e.ok), UNCHANGED env
    PROVE  ClientInv'
<1>1. UNCHANGED <<env, idleWire, lastCmd, self, password, typed, idleState, told, ackRead>>
  BY DEF onHttpWrite
<1>2. RestTyped'
  <2>1. timeout' \in BOOLEAN
    BY DEF onHttpWrite
  <2> QED BY <1>1, <2>1 DEF Taken, ClientInv, RestTyped, env
<1>3. Keeps(n, net')
  <2>1. CASE net' = n
    BY <2>1 DEF Taken, Keeps, Safe
  <2>2. CASE net' = Start(n, "http", "read")
    BY <2>2, StartKeeps DEF Taken, Slots, Transfers
  <2> QED BY <2>1, <2>2 DEF onHttpWrite, asyncResponse
<1>4. ~Acknowledges(e) /\ ~Attempt(e)
  BY DEF Acknowledges, Arrived, IdleRead, Attempt, Connecting
<1> QED BY <1>1, <1>2, <1>3, <1>4, HandledKeepsInv

\* The read of m_Http failed: a new object connects.
LEMMA OnHttpReadErrorInv ==
    ASSUME NEW n, NEW e, Taken(n, e), e.op = "read", e.slot = "http", onHttpReadError(n), UNCHANGED env
    PROVE  ClientInv'
<1>1. UNCHANGED <<env, idleWire, lastCmd, self, password, typed, idleState, told, ackRead>>
  BY DEF onHttpReadError
<1>2. RestTyped'
  <2>1. timeout' \in BOOLEAN
    BY DEF onHttpReadError
  <2> QED BY <1>1, <2>1 DEF Taken, ClientInv, RestTyped, env
<1>3. PICK m : m = createConnect(n, "http")
  OBVIOUS
<1>4. Safe(n, m) /\ Good(m)
  BY <1>3, CreateHttpSafe DEF Taken, Safe
<1>5. Keeps(m, net') /\ Trying(net')
  BY <1>3, <1>4, AsyncConnectKeeps DEF onHttpReadError, Slots
<1>6. Safe(n, net')
  BY <1>4, <1>5, KeepsTrans DEF Keeps
<1>7. ~Acknowledges(e)
  BY DEF Acknowledges, Arrived, IdleRead
<1> QED BY <1>1, <1>2, <1>5, <1>6, <1>7, HandledInv

\* An answer on m_Http: that to LOGIN connects m_HttpIdle.
LEMMA OnHttpReadInv ==
    ASSUME NEW n, NEW e, Taken(n, e), e.op = "read", e.slot = "http", onHttpRead(n, e.reply), UNCHANGED env
    PROVE  ClientInv'
<1>1. UNCHANGED <<env, idleWire, lastCmd, password, typed, idleState, told, ackRead>>
  BY DEF onHttpRead
<1>2. RestTyped'
  <2>1. timeout' \in BOOLEAN
    BY DEF onHttpRead
  <2>2. e.reply.uid \in People
    BY CompletionFields DEF Taken, Reply
  <2>3. self' \in People
    BY <2>2 DEF onHttpRead, Taken, ClientInv, RestTyped, People
  <2> QED BY <1>1, <2>1, <2>3 DEF Taken, ClientInv, RestTyped, env
<1>3. Keeps(n, net')
  <2>1. CASE net' = n
    BY <2>1 DEF Taken, Keeps, Safe
  <2>2. CASE net' = asyncConnect(n, "idle")
    BY <2>2, AsyncConnectKeeps DEF Taken, Slots
  <2> QED BY <2>1, <2>2 DEF onHttpRead
<1>4. ~Acknowledges(e) /\ ~Attempt(e)
  BY DEF Acknowledges, Arrived, IdleRead, Attempt, Connecting
<1> QED BY <1>1, <1>2, <1>3, <1>4, HandledKeepsInv

\* m_HttpIdle is connected: the idle request.
LEMMA OnHttpIdleConnectInv ==
    ASSUME NEW n, NEW e, Taken(n, e), e.op = "handshake", e.slot = "idle", onHttpIdleConnect(n),
           UNCHANGED env
    PROVE  ClientInv'
<1>1. UNCHANGED <<env, session, ackRead>>
  BY DEF onHttpIdleConnect
<1>2. idleWire' \in Credentials
  BY DEF onHttpIdleConnect, Taken, ClientInv, RestTyped, Credentials
<1>3. RestTyped' /\ UNCHANGED <<idleState, ackRead, told>>
  BY <1>1, <1>2 DEF Taken, ClientInv, RestTyped, env, session
<1>4. Keeps(n, net')
  BY StartKeeps DEF onHttpIdleConnect, asyncRequest, Taken, Slots, Transfers
<1>5. ~Acknowledges(e) /\ ~Attempt(e)
  BY DEF Acknowledges, Arrived, IdleRead, Attempt, Connecting
<1> QED BY <1>3, <1>4, <1>5, HandledKeepsInv

\* The idle request is written: the acknowledgement is read.
LEMMA OnHttpIdleWriteInv ==
    ASSUME NEW n, NEW e, Taken(n, e), e.op = "write", onHttpIdleWrite(n, e.ok), UNCHANGED env
    PROVE  ClientInv'
<1>1. RestTyped' /\ UNCHANGED <<ackRead, idleState, told>>
  BY RestStays DEF Taken, ClientInv, onHttpIdleWrite
<1>2. Keeps(n, net')
  <2>1. CASE net' = n
    BY <2>1 DEF Taken, Keeps, Safe
  <2>2. CASE net' = Start(n, "idle", "read")
    BY <2>2, StartKeeps DEF Taken, Slots, Transfers
  <2> QED BY <2>1, <2>2 DEF onHttpIdleWrite, asyncResponse
<1>3. ~Acknowledges(e) /\ ~Attempt(e)
  BY DEF Acknowledges, Arrived, IdleRead, Attempt, Connecting
<1> QED BY <1>1, <1>2, <1>3, HandledKeepsInv

\* The idle connection is broken: both objects are new, and m_Http connects.
LEMMA OnHttpIdleReadErrorInv ==
    ASSUME NEW n, NEW e, Taken(n, e), IdleRead(e), onHttpIdleReadError(n), UNCHANGED env
    PROVE  ClientInv'
<1>1. PICK m1, m2 : m1 = createConnect(n, "idle") /\ m2 = createConnect(m1, "http")
  OBVIOUS
<1>2. Good(m1) /\ (n.clashed => m1.clashed) /\ \A read \in BOOLEAN : IdleOk(m1, read)
  BY <1>1, CreateIdleStarts DEF Taken
<1>3. Safe(m1, m2) /\ Good(m2)
  BY <1>1, <1>2, CreateHttpSafe DEF Safe
<1>4. Keeps(m2, net') /\ Trying(net')
  BY <1>1, <1>3, AsyncConnectKeeps DEF onHttpIdleReadError, Slots
<1>5. Good(net') /\ \A read \in BOOLEAN : IdleOk(net', read)
  BY <1>2, <1>3, <1>4 DEF Keeps, Safe
<1>6. /\ told' = TRUE /\ idleState' = FALSE /\ ackRead' = FALSE
      /\ UNCHANGED <<env, idleWire, lastCmd, self, password, typed, timeout>>
  BY DEF onHttpIdleReadError
<1>7. RestTyped'
  <2>1. told' \in BOOLEAN /\ idleState' \in BOOLEAN /\ ackRead' \in BOOLEAN
    BY <1>6
  <2> QED BY <1>6, <2>1 DEF Taken, ClientInv, RestTyped, env
<1>8. AckFirst'
  BY <1>6 DEF AckFirst
<1>9. IdleOk(net, ackRead)'
  <2>1. PICK read \in BOOLEAN : read = ackRead'
    BY <1>6
  <2>2. IdleOk(net', read)
    BY <1>5
  <2> QED BY <2>1, <2>2 DEF IdleOk, IdleInv, Acks
<1>10. Good(net)' /\ Trying(net)'
  BY <1>4, <1>5 DEF Good, Fresh, Trying
<1> QED BY <1>7, <1>8, <1>9, <1>10 DEF ClientInv

\* The acknowledgement or messages: the next is read.
LEMMA OnHttpIdleReadInv ==
    ASSUME NEW n, NEW e, Taken(n, e), IdleRead(e), e.ok, e.reply.ok, onHttpIdleRead(n, e.reply),
           UNCHANGED env
    PROVE  ClientInv'
<1>1. /\ idleState' = TRUE /\ ackRead' = (ackRead \/ e.reply.cmd = "ack")
      /\ UNCHANGED <<env, idleWire, lastCmd, self, password, typed, timeout, told>>
  BY DEF onHttpIdleRead
<1>2. RestTyped'
  <2>1. idleState' \in BOOLEAN /\ ackRead' \in BOOLEAN
    BY <1>1
  <2> QED BY <1>1, <2>1 DEF Taken, ClientInv, RestTyped, env
<1>3. Keeps(n, net')
  BY StartKeeps DEF onHttpIdleRead, asyncResponse, Taken, Slots, Transfers
<1>4. Good(net') /\ (n.clashed => net'.clashed)
  BY <1>3 DEF Keeps, Safe
<1>5. PICK read \in BOOLEAN : read = ackRead'
  BY <1>1
<1>6. IdleOk(n, read)
  <2>1. Acknowledges(e) <=> e.reply.cmd = "ack"
    BY DEF Acknowledges, Arrived
  <2>2. read = (ackRead \/ Acknowledges(e))
    BY <1>1, <1>5, <2>1
  <2> QED BY <2>2, Zenon DEF Taken
<1>7. IdleOk(net', read)
  BY <1>3, <1>6 DEF Keeps, Safe
<1>8. IdleOk(net, ackRead)'
  BY <1>5, <1>7 DEF IdleOk, IdleInv, Acks
<1>9. AckFirst'
  <2>1. ASSUME ~net'.clashed
        PROVE  ackRead'
    BY <1>1, <1>4, <2>1 DEF Taken, Arrived
  <2> QED BY <1>1, <2>1 DEF AckFirst
<1>10. ~Attempt(e)
  BY DEF IdleRead, Attempt
<1>11. Good(net)' /\ (told => Trying(net))'
  BY <1>1, <1>3, <1>4, <1>10 DEF Taken, Keeps, Good, Fresh, Trying
<1> QED BY <1>2, <1>8, <1>9, <1>11 DEF ClientInv

\* The IoThread runs the handler of an operation that ended.
LEMMA RunHandlerInv ==
    ASSUME ClientInv, runHandler
    PROVE  ClientInv'
<1>1. PICK n, e : n = [net EXCEPT !.ready = Tail(@)] /\ e = Head(net.ready)
  OBVIOUS
<1>2. Taken(n, e)
  BY <1>1, TakenFirst DEF runHandler
<1>3. Handle(n, e) /\ UNCHANGED env
  BY <1>1 DEF runHandler
<1>4. CASE e.op = "connect" /\ handleConnect(n, e.slot, e.late)
  BY <1>2, <1>3, <1>4, HandleConnectInv
<1>5. CASE e.op \in {"connect", "handshake"} /\ connectAgain(n, e.slot)
  BY <1>2, <1>3, <1>5, ConnectAgainInv DEF Connecting
<1>6. CASE e.op = "handshake" /\ onHttpConnect(n)
  BY <1>2, <1>3, <1>6, OnHttpConnectInv
<1>7. CASE e.op = "handshake" /\ e.slot = "idle" /\ onHttpIdleConnect(n)
  BY <1>2, <1>3, <1>7, OnHttpIdleConnectInv
<1>8. CASE e.op = "write" /\ onHttpWrite(n, e.ok)
  BY <1>2, <1>3, <1>8, OnHttpWriteInv
<1>9. CASE e.op = "write" /\ onHttpIdleWrite(n, e.ok)
  BY <1>2, <1>3, <1>9, OnHttpIdleWriteInv
<1>10. CASE e.op = "read" /\ e.slot = "http" /\ onHttpReadError(n)
  BY <1>2, <1>3, <1>10, OnHttpReadErrorInv
<1>11. CASE e.op = "read" /\ e.slot = "http" /\ onHttpRead(n, e.reply)
  BY <1>2, <1>3, <1>11, OnHttpReadInv
<1>12. CASE e.op = "read" /\ e.slot = "idle" /\ onHttpIdleReadError(n)
  BY <1>2, <1>3, <1>12, OnHttpIdleReadErrorInv DEF IdleRead
<1>13. CASE e.op = "read" /\ e.slot = "idle" /\ e.ok /\ e.reply.ok /\ onHttpIdleRead(n, e.reply)
  BY <1>2, <1>3, <1>13, OnHttpIdleReadInv DEF IdleRead
<1> QED BY <1>3, <1>4, <1>5, <1>6, <1>7, <1>8, <1>9, <1>10, <1>11, <1>12, <1>13, Zenon DEF Handle

--------------------------------------------------------------------------------
(* The network and the server keep the invariant *)

\* A step that changes the sockets alone.
LEMMA NetStepInv ==
    ASSUME ClientInv, RestTyped', UNCHANGED <<ackRead, idleState, told>>, Keeps(net, net')
    PROVE  ClientInv'
<1>1. PICK read \in BOOLEAN : read = ackRead
  BY DEF ClientInv, RestTyped
<1>2. Good(net') /\ (net.clashed => net'.clashed) /\ IdleOk(net', read)
  BY <1>1 DEF ClientInv, Keeps, Safe
<1>3. IdleOk(net, ackRead)'
  BY <1>1, <1>2 DEF IdleOk, IdleInv, Acks
<1>4. AckFirst'
  BY <1>2 DEF ClientInv, AckFirst
<1>5. Good(net)' /\ (told => Trying(net))'
  BY <1>2 DEF ClientInv, Keeps, Good, Fresh, Trying
<1> QED BY <1>3, <1>4, <1>5 DEF ClientInv

Edited(n, news, r) ==
    /\ r \in Net
    /\ r.tls = n.tls /\ r.ready = n.ready /\ r.stale = n.stale /\ r.news = news
    /\ r.resolving = n.resolving /\ r.clashed = n.clashed /\ r.ops = n.ops

\* The connections, the requests and the news of them change.
LEMMA EditShape ==
    ASSUME NEW n \in Net, NEW link \in [Slots -> {"closed", "up", "dead"}],
           NEW wire \in Seq(Request), NEW news \in {"none", "asked", "acked"},
           NEW r, r = [n EXCEPT !.link = link, !.wire = wire, !.news = news]
    PROVE  Edited(n, news, r)
<1>1. /\ NetRecord(r)
      /\ r.link = link /\ r.tls = n.tls /\ r.open = n.open /\ r.ready = n.ready
      /\ r.stale = n.stale /\ r.out = n.out /\ r.wire = wire /\ r.news = news
      /\ r.resolving = n.resolving /\ r.clashed = n.clashed /\ r.ops = n.ops
  BY DEF Net, NetRecord
<1>2. FieldsTyped(n) /\ n.ready \in Seq(Completion)
  BY NetFields
<1>3. FieldsTyped(r)
  BY <1>1, <1>2, Zenon DEF FieldsTyped
<1>4. r \in Net
  BY <1>1, <1>2, <1>3, NetTyped
<1> QED BY <1>1, <1>4 DEF Edited

\* That keeps the invariants when nothing is acknowledged.
LEMMA EditKeeps ==
    ASSUME NEW n, Good(n), NEW link \in [Slots -> {"closed", "up", "dead"}],
           NEW wire \in Seq(Request), NEW news \in {"none", "asked", "acked"},
           news = "acked" => n.news = "acked",
           NEW r, r = [n EXCEPT !.link = link, !.wire = wire, !.news = news]
    PROVE  Keeps(n, r)
<1>1. Edited(n, news, r)
  BY EditShape DEF Good
<1>2. r \in Net /\ Plain(n, r)
  BY <1>1 DEF Edited, Plain
<1> QED BY <1>2, PlainKeeps

\* An operation that is not a read of the idle connection ends, or fails.
LEMMA EndsKeeps ==
    ASSUME ClientInv, NEW s \in Slots, NEW op \in net.ops[s], NEW ok \in BOOLEAN,
           NEW reply \in Reply, s = "idle" /\ op = "read" => ~ok
    PROVE  \E m : /\ m = Complete(net, s, op, ok, reply) /\ Keeps(net, m) /\ Good(m) /\ m \in Net
                  /\ m.link = net.link /\ m.wire = net.wire /\ m.news = net.news
<1>1. PICK n, m : n = net /\ m = Complete(n, s, op, ok, reply)
  OBVIOUS
<1>2. Good(n) /\ n \in Net /\ op \in n.ops[s] /\ op \in Ops
  BY <1>1, NetFields DEF ClientInv, Good, FieldsTyped
<1>3. Keeps(n, m)
  BY <1>1, <1>2, CompleteKeeps
<1>4. Good(m)
  BY <1>3 DEF Keeps, Safe
<1>5. Completed(n, s, op, Ended(s, op, ok, reply), m)
  BY <1>1, <1>2, CompleteShape, Zenon
<1>6. m \in Net /\ m.link = n.link /\ m.wire = n.wire /\ m.news = n.news
  BY <1>5 DEF Completed
<1> QED BY <1>1, <1>3, <1>4, <1>6, Zenon

\* The connect of a socket ends.
LEMMA ConnectEndsInv ==
    ASSUME ClientInv, NEW s \in Slots, connectEnds(s)
    PROVE  ClientInv'
<1>1. RestTyped' /\ UNCHANGED <<ackRead, idleState, told>>
  BY RestStays DEF ClientInv, connectEnds
<1>2. "connect" \in net.ops[s] /\ NoRequest \in Reply
  BY RequestIsReply DEF connectEnds
<1>3. CASE net' = [Complete(net, s, "connect", TRUE, NoRequest) EXCEPT !.link[s] = "up"]
  <2>1. PICK ok \in BOOLEAN : ok = TRUE
    OBVIOUS
  <2>2. PICK m : /\ m = Complete(net, s, "connect", ok, NoRequest) /\ Keeps(net, m) /\ Good(m) /\ m \in Net
                 /\ m.link = net.link /\ m.wire = net.wire /\ m.news = net.news
    BY <1>2, EndsKeeps
  <2>3. net' = [m EXCEPT !.link[s] = "up"]
    BY <1>3, <2>1, <2>2, Zenon
  <2>4. PICK link : link = [m.link EXCEPT ![s] = "up"]
    OBVIOUS
  <2>5. net' = [m EXCEPT !.link = link, !.wire = m.wire, !.news = m.news]
    BY <2>2, <2>3, <2>4 DEF Net
  <2>6. /\ link \in [Slots -> {"closed", "up", "dead"}] /\ m.wire \in Seq(Request)
        /\ m.news \in {"none", "asked", "acked"}
    BY <2>2, <2>4, NetFields DEF FieldsTyped
  <2>7. Keeps(m, net')
    BY <2>2, <2>5, <2>6, EditKeeps
  <2>8. Keeps(net, net')
    BY <2>2, <2>7, KeepsTrans DEF Keeps
  <2> QED BY <1>1, <2>8, NetStepInv
<1>4. CASE net' = Complete(net, s, "connect", FALSE, NoRequest)
  <2>1. PICK ok \in BOOLEAN : ok = FALSE
    OBVIOUS
  <2>2. PICK m : m = Complete(net, s, "connect", ok, NoRequest) /\ Keeps(net, m)
    BY <1>2, EndsKeeps
  <2>3. net' = m
    BY <1>4, <2>1, <2>2, Zenon
  <2> QED BY <1>1, <2>2, <2>3, NetStepInv
<1> QED BY <1>3, <1>4 DEF connectEnds

\* The SSL object is done.
LEMMA TlsDoneKeeps ==
    ASSUME NEW n, Good(n), NEW s \in Slots,
           NEW r, r = [n EXCEPT !.tls[s] = IF @ = "begun" THEN "done" ELSE @]
    PROVE  Keeps(n, r)
<1>1. n \in Net /\ Fresh(n) /\ IsFiniteSet(n.stale)
  BY DEF Good
<1>2. PICK tls : tls = [n.tls EXCEPT ![s] = IF @ = "begun" THEN "done" ELSE @]
  OBVIOUS
<1>3. r = [n EXCEPT !.tls = tls]
  BY <1>1, <1>2 DEF Net
<1>4. /\ NetRecord(r)
      /\ r.link = n.link /\ r.tls = tls /\ r.open = n.open /\ r.ready = n.ready
      /\ r.stale = n.stale /\ r.out = n.out /\ r.wire = n.wire /\ r.news = n.news
      /\ r.resolving = n.resolving /\ r.clashed = n.clashed /\ r.ops = n.ops
  BY <1>1, <1>3 DEF Net, NetRecord
<1>5. FieldsTyped(n) /\ n.ready \in Seq(Completion) /\ n.wire \in Seq(Request)
  BY <1>1, NetFields
<1>6. /\ tls \in [Slots -> {"new", "begun", "done", "stuck", "foreign"}]
      /\ \A t \in Slots : tls[t] = "new" => n.tls[t] = "new"
  BY <1>2, <1>5 DEF FieldsTyped
<1>7. FieldsTyped(r)
  BY <1>4, <1>5, <1>6, Zenon DEF FieldsTyped
<1>8. r \in Net
  BY <1>4, <1>5, <1>7, NetTyped
<1>9. Good(r)
  BY <1>1, <1>4, <1>6, <1>8 DEF Good, Fresh
<1>10. Calm(n, r) /\ (Trying(n) => Trying(r))
  BY <1>4, <1>6 DEF Calm, Due, Slots, Trying
<1> QED BY <1>9, <1>10, CalmSafe DEF Keeps

\* The handshake of a socket ends.
LEMMA HandshakeEndsInv ==
    ASSUME ClientInv, NEW s \in Slots, handshakeEnds(s)
    PROVE  ClientInv'
<1>1. RestTyped' /\ UNCHANGED <<ackRead, idleState, told>>
  BY RestStays DEF ClientInv, handshakeEnds
<1>2. "handshake" \in net.ops[s] /\ NoRequest \in Reply
  BY RequestIsReply DEF handshakeEnds
<1>3. CASE net' = [Complete(net, s, "handshake", TRUE, NoRequest) EXCEPT
                       !.tls[s] = IF @ = "begun" THEN "done" ELSE @]
  <2>1. PICK ok \in BOOLEAN : ok = TRUE
    OBVIOUS
  <2>2. PICK m : m = Complete(net, s, "handshake", ok, NoRequest) /\ Keeps(net, m) /\ Good(m)
    BY <1>2, EndsKeeps
  <2>3. net' = [m EXCEPT !.tls[s] = IF @ = "begun" THEN "done" ELSE @]
    BY <1>3, <2>1, <2>2, Zenon
  <2>4. Keeps(m, net')
    BY <2>2, <2>3, TlsDoneKeeps
  <2>5. Keeps(net, net')
    BY <2>2, <2>4, KeepsTrans DEF Keeps
  <2> QED BY <1>1, <2>5, NetStepInv
<1>4. CASE net' = Complete(net, s, "handshake", FALSE, NoRequest)
  <2>1. PICK ok \in BOOLEAN : ok = FALSE
    OBVIOUS
  <2>2. PICK m : m = Complete(net, s, "handshake", ok, NoRequest) /\ Keeps(net, m)
    BY <1>2, EndsKeeps
  <2>3. net' = m
    BY <1>4, <2>1, <2>2, Zenon
  <2> QED BY <1>1, <2>2, <2>3, NetStepInv
<1> QED BY <1>3, <1>4, Zenon DEF handshakeEnds

\* A request is written.
LEMMA WriteEndsInv ==
    ASSUME ClientInv, NEW s \in Slots, writeEnds(s)
    PROVE  ClientInv'
<1>1. RestTyped' /\ UNCHANGED <<ackRead, idleState, told>>
  BY RestStays DEF ClientInv, writeEnds
<1>2. "write" \in net.ops[s] /\ NoRequest \in Reply
  BY RequestIsReply DEF writeEnds
<1>3. CASE net' = [Complete(net, s, "write", TRUE, NoRequest) EXCEPT
                       !.wire = IF s = "http" THEN Append(@, net.out) ELSE @,
                       !.news = IF s = "idle" /\ @ = "none" THEN "asked" ELSE @]
  <2>1. PICK ok \in BOOLEAN : ok = TRUE
    OBVIOUS
  <2>2. PICK m : /\ m = Complete(net, s, "write", ok, NoRequest) /\ Keeps(net, m) /\ Good(m) /\ m \in Net
                 /\ m.link = net.link /\ m.wire = net.wire /\ m.news = net.news
    BY <1>2, EndsKeeps
  <2>3. net' = [m EXCEPT !.wire = IF s = "http" THEN Append(@, net.out) ELSE @,
                         !.news = IF s = "idle" /\ @ = "none" THEN "asked" ELSE @]
    BY <1>3, <2>1, <2>2, Zenon
  <2>4. PICK wire, news : /\ wire = IF s = "http" THEN Append(m.wire, net.out) ELSE m.wire
                          /\ news = IF s = "idle" /\ m.news = "none" THEN "asked" ELSE m.news
    OBVIOUS
  <2>5. net' = [m EXCEPT !.link = m.link, !.wire = wire, !.news = news]
    BY <2>2, <2>3, <2>4 DEF Net
  <2>6. /\ m.link \in [Slots -> {"closed", "up", "dead"}] /\ m.wire \in Seq(Request)
        /\ m.news \in {"none", "asked", "acked"}
    BY <2>2, NetFields DEF FieldsTyped
  <2>7. net.out \in Request
    BY NetFields DEF ClientInv, Good, FieldsTyped
  <2>8. wire \in Seq(Request) /\ news \in {"none", "asked", "acked"} /\ (news = "acked" => m.news = "acked")
    BY <2>4, <2>6, <2>7
  <2>9. Keeps(m, net')
    BY <2>2, <2>5, <2>6, <2>8, EditKeeps
  <2>10. Keeps(net, net')
    BY <2>2, <2>9, KeepsTrans DEF Keeps
  <2> QED BY <1>1, <2>10, NetStepInv
<1>4. CASE net' = [Complete(net, s, "write", TRUE, NoRequest) EXCEPT !.link[s] = "dead"]
  <2>1. PICK ok \in BOOLEAN : ok = TRUE
    OBVIOUS
  <2>2. PICK m : /\ m = Complete(net, s, "write", ok, NoRequest) /\ Keeps(net, m) /\ Good(m) /\ m \in Net
                 /\ m.link = net.link /\ m.wire = net.wire /\ m.news = net.news
    BY <1>2, EndsKeeps
  <2>3. net' = [m EXCEPT !.link[s] = "dead"]
    BY <1>4, <2>1, <2>2, Zenon
  <2>4. PICK link : link = [m.link EXCEPT ![s] = "dead"]
    OBVIOUS
  <2>5. net' = [m EXCEPT !.link = link, !.wire = m.wire, !.news = m.news]
    BY <2>2, <2>3, <2>4 DEF Net
  <2>6. /\ link \in [Slots -> {"closed", "up", "dead"}] /\ m.wire \in Seq(Request)
        /\ m.news \in {"none", "asked", "acked"}
    BY <2>2, <2>4, NetFields DEF FieldsTyped
  <2>7. Keeps(m, net')
    BY <2>2, <2>5, <2>6, EditKeeps
  <2>8. Keeps(net, net')
    BY <2>2, <2>7, KeepsTrans DEF Keeps
  <2> QED BY <1>1, <2>8, NetStepInv
<1>5. CASE \E ok \in BOOLEAN : net' = Complete(net, s, "write", ok, NoRequest)
  <2>1. PICK ok \in BOOLEAN : net' = Complete(net, s, "write", ok, NoRequest)
    BY <1>5
  <2>2. PICK m : m = Complete(net, s, "write", ok, NoRequest) /\ Keeps(net, m)
    BY <1>2, EndsKeeps
  <2>3. net' = m
    BY <2>1, <2>2, Zenon
  <2> QED BY <1>1, <2>2, <2>3, NetStepInv
<1> QED BY <1>3, <1>4, <1>5, Zenon DEF writeEnds

\* A read fails.
LEMMA ReadFailsInv ==
    ASSUME ClientInv, NEW s \in Slots, readFails(s)
    PROVE  ClientInv'
<1>1. RestTyped' /\ UNCHANGED <<ackRead, idleState, told>>
  BY RestStays DEF ClientInv, readFails
<1>2. "read" \in net.ops[s] /\ NoRequest \in Reply
  BY RequestIsReply DEF readFails
<1>3. PICK ok \in BOOLEAN : ok = FALSE
  OBVIOUS
<1>4. PICK m : m = Complete(net, s, "read", ok, NoRequest) /\ Keeps(net, m)
  BY <1>2, <1>3, EndsKeeps
<1>5. net' = m
  BY <1>3, <1>4, Zenon DEF readFails
<1> QED BY <1>1, <1>4, <1>5, NetStepInv

\* The server answers on m_Http.
LEMMA ServerAnswersInv ==
    ASSUME ClientInv, serverAnswers
    PROVE  ClientInv'
<1>1. RestTyped' /\ UNCHANGED <<ackRead, idleState, told>>
  BY RestStays DEF ClientInv, serverAnswers
<1>2. PICK s \in Slots : s = "http"
  BY DEF Slots
<1>0. PICK w : w = net.wire
  OBVIOUS
<1>3. w \in Seq(Request) /\ w # <<>>
  BY <1>0, NetFields DEF ClientInv, Good, serverAnswers
<1>4. PICK reply : reply = Head(w)
  OBVIOUS
<1>5. reply \in Reply
  BY <1>3, <1>4, RequestIsReply
<1>6. PICK ok \in BOOLEAN : ok = TRUE
  OBVIOUS
<1>7. "read" \in net.ops[s]
  BY <1>2 DEF serverAnswers
<1>8. PICK m : /\ m = Complete(net, s, "read", ok, reply) /\ Keeps(net, m) /\ Good(m) /\ m \in Net
               /\ m.link = net.link /\ m.wire = net.wire /\ m.news = net.news
  BY <1>2, <1>5, <1>7, EndsKeeps
<1>9. net' = [m EXCEPT !.wire = Tail(@)]
  BY <1>0, <1>2, <1>4, <1>6, <1>8, Zenon DEF serverAnswers
<1>10. PICK wire : wire = Tail(m.wire)
  OBVIOUS
<1>11. net' = [m EXCEPT !.link = m.link, !.wire = wire, !.news = m.news]
  BY <1>8, <1>9, <1>10 DEF Net
<1>12. /\ m.link \in [Slots -> {"closed", "up", "dead"}]
       /\ m.news \in {"none", "asked", "acked"}
  BY <1>8, NetFields DEF FieldsTyped
<1>13. wire \in Seq(Request)
  BY <1>0, <1>3, <1>8, <1>10
<1>14. Keeps(m, net')
  BY <1>8, <1>11, <1>12, <1>13, EditKeeps
<1>15. Keeps(net, net')
  BY <1>8, <1>14, KeepsTrans DEF Keeps
<1> QED BY <1>1, <1>15, NetStepInv

\* The server sends the acknowledgement, and then messages: each finds the read of the
\* idle connection waiting.
LEMMA ServerNotifiesInv ==
    ASSUME ClientInv, serverNotifies
    PROVE  ClientInv'
<1>1. RestTyped' /\ UNCHANGED <<ackRead, idleState, told>>
  BY RestStays DEF ClientInv, serverNotifies
<1>0. PICK n : n = net
  OBVIOUS
<1>2. PICK s \in Slots, op \in Ops : n = net /\ s = "idle" /\ op = "read"
  BY <1>0 DEF Slots, Ops
<1>3. Good(n) /\ n \in Net /\ Fresh(n) /\ IsFiniteSet(n.stale)
  BY <1>2 DEF ClientInv, Good
<1>4. "read" \in n.ops["idle"] /\ n.tls["idle"] = "done"
  BY <1>2 DEF serverNotifies
<1>5. PICK b \in BOOLEAN, ok \in BOOLEAN : b = (idleWire.uid = idleWire.pass) /\ ok = TRUE
  OBVIOUS
<1>6. PICK v : v = IF n.news = "acked" THEN News("messages", b) ELSE News("ack", ok)
  OBVIOUS
<1>7. /\ v \in Reply
      /\ (v.cmd = "ack" /\ v.ok = ok) \/ n.news = "acked"
  BY <1>6 DEF News, Reply, People
<1>8. PICK m : m = Complete(n, s, op, ok, v)
  OBVIOUS
<1>9. net' = [m EXCEPT !.news = "acked"]
  <2>1. v = IF net.news = "acked" THEN News("messages", idleWire.uid = idleWire.pass) ELSE News("ack", TRUE)
    BY <1>2, <1>5, <1>6, Zenon
  <2>2. m = Complete(net, "idle", "read", TRUE, v)
    BY <1>2, <1>5, <1>8, Zenon
  <2> QED BY <2>1, <2>2, Zenon DEF serverNotifies
<1>10. PICK e : e = Ended(s, op, ok, v)
  OBVIOUS
<1>11. e.slot = "idle" /\ e.op = "read" /\ e.ok = ok /\ e.reply = v
  BY <1>2, <1>7, <1>10, EndedTyped
<1>12. Completed(n, s, op, e, m)
  BY <1>3, <1>7, <1>8, <1>10, CompleteShape, Zenon
<1>13. /\ m \in Net /\ m.tls = n.tls /\ m.stale = n.stale /\ m.resolving = n.resolving
       /\ m.clashed = n.clashed /\ m.ops["idle"] = n.ops["idle"] \ {"read"}
       /\ m.ops["http"] = n.ops["http"]
  BY <1>2, <1>12 DEF Completed, Slots
<1>14. /\ \A i \in DOMAIN n.ready : i \in DOMAIN m.ready /\ m.ready[i] = n.ready[i]
       /\ \A i \in DOMAIN m.ready : i \in DOMAIN n.ready \/ m.ready[i] = e
       /\ \E i \in DOMAIN m.ready : m.ready[i] = e
       /\ \A i, j \in DOMAIN m.ready : i \notin DOMAIN n.ready /\ j \notin DOMAIN n.ready => i = j
  BY <1>12 DEF Completed, Grows
<1>15. PICK r : r = net'
  OBVIOUS
<1>16. /\ r \in Net /\ r.tls = n.tls /\ r.ready = m.ready /\ r.stale = n.stale /\ r.news = "acked"
       /\ r.resolving = n.resolving /\ r.clashed = n.clashed /\ r.ops = m.ops
  <2>1. r = [m EXCEPT !.link = m.link, !.wire = m.wire, !.news = "acked"]
    BY <1>9, <1>13, <1>15 DEF Net
  <2>2. m.link \in [Slots -> {"closed", "up", "dead"}] /\ m.wire \in Seq(Request)
    BY <1>13, NetFields DEF FieldsTyped
  <2>3. Edited(m, "acked", r)
    BY <1>13, <2>1, <2>2, EditShape
  <2> QED BY <1>13, <2>3 DEF Edited
<1>17. Good(r)
  BY <1>3, <1>13, <1>16 DEF Good, Fresh, Slots
<1>18. ASSUME NEW read \in BOOLEAN, IdleInv(n), Acks(n, read)
       PROVE  IdleInv(r) /\ Acks(r, read)
  <2>1. \A i \in DOMAIN n.ready : ~IdleRead(n.ready[i])
    BY <1>4, <1>18 DEF IdleInv
  <2>2. \A i \in DOMAIN r.ready : IdleRead(r.ready[i]) => i \notin DOMAIN n.ready /\ r.ready[i] = e
    BY <1>14, <1>16, <2>1
  <2>3. \A i, j \in DOMAIN r.ready : IdleRead(r.ready[i]) /\ IdleRead(r.ready[j]) => i = j
    BY <1>14, <1>16, <2>2
  <2>4. /\ \A o \in r.stale : ~IdleRead(o)
        /\ "read" \notin r.ops["idle"] /\ r.tls["idle"] # "new"
    BY <1>4, <1>13, <1>16, <1>18 DEF IdleInv
  <2>5. IdleInv(r)
    BY <2>3, <2>4 DEF IdleInv, Arrived
  <2>6. n.news = "acked" => read
    BY <1>18, <2>1 DEF Acks, Acknowledges, Arrived
  <2>7. \A i \in DOMAIN r.ready :
            Arrived(r.ready[i]) /\ r.ready[i].reply.ok => r.ready[i].reply.cmd = "ack" \/ read
    BY <1>7, <1>11, <2>2, <2>6 DEF Arrived
  <2>8. ASSUME ~read
        PROVE  \E i \in DOMAIN r.ready : Acknowledges(r.ready[i])
    <3>1. v.cmd = "ack" /\ v.ok /\ e.ok
      BY <1>5, <1>7, <1>11, <2>6, <2>8, Zenon
    <3>2. Acknowledges(e)
      BY <1>11, <3>1 DEF Acknowledges, Arrived, IdleRead
    <3> QED BY <1>14, <1>16, <3>2
  <2> QED BY <2>5, <2>7, <2>8 DEF Acks
<1>19. Safe(n, r)
  BY <1>16, <1>17, <1>18 DEF Safe, IdleOk
<1>20. Trying(n) => Trying(r)
  BY <1>13, <1>14, <1>16 DEF Trying
<1>21. Keeps(net, net')
  BY <1>2, <1>15, <1>19, <1>20 DEF Keeps
<1> QED BY <1>1, <1>21, NetStepInv

\* An operation of an object that was replaced ends.
LEMMA StaleEndsInv ==
    ASSUME ClientInv, NEW o, staleEnds(o)
    PROVE  ClientInv'
<1>1. RestTyped' /\ UNCHANGED <<ackRead, idleState, told>>
  BY RestStays DEF ClientInv, staleEnds
<1>0. PICK n : n = net
  OBVIOUS
<1>2. PICK t \in BOOLEAN : n = net /\ t = TRUE
  BY <1>0
<1>3. Good(n) /\ n \in Net /\ Fresh(n) /\ IsFiniteSet(n.stale) /\ o \in n.stale
  BY <1>2 DEF ClientInv, Good, staleEnds
<1>4. FieldsTyped(n) /\ n.ready \in Seq(Completion) /\ n.wire \in Seq(Request)
  BY <1>3, NetFields
<1>5. o.slot \in Slots /\ o.op \in Ops /\ o.reply \in Reply
  BY <1>3, <1>4 DEF FieldsTyped, Stale
<1>6. PICK ok \in BOOLEAN : \E e :
          /\ e = [slot |-> o.slot, op |-> o.op, ok |-> ok, late |-> t, reply |-> o.reply]
          /\ net' = [n EXCEPT !.stale = @ \ {o}, !.ready = Append(@, e)]
  <2>1. PICK ok \in BOOLEAN :
            net' = [net EXCEPT !.stale = @ \ {o},
                               !.ready = Append(@, [slot |-> o.slot, op |-> o.op, ok |-> ok,
                                                    late |-> TRUE, reply |-> o.reply])]
    BY DEF staleEnds
  <2>2. PICK e : e = [slot |-> o.slot, op |-> o.op, ok |-> ok, late |-> TRUE, reply |-> o.reply]
    OBVIOUS
  <2> QED BY <1>2, <2>1, <2>2, Zenon
<1>6e. PICK e :
          /\ e = [slot |-> o.slot, op |-> o.op, ok |-> ok, late |-> t, reply |-> o.reply]
          /\ net' = [n EXCEPT !.stale = @ \ {o}, !.ready = Append(@, e)]
  BY <1>6
<1>7. e \in Completion /\ e.slot = o.slot /\ e.op = o.op
  BY <1>5, <1>6e DEF Completion
<1>8. PICK r : r = net'
  OBVIOUS
<1>9. /\ NetRecord(r)
      /\ r.link = n.link /\ r.tls = n.tls /\ r.open = n.open /\ r.ready = Append(n.ready, e)
      /\ r.stale = n.stale \ {o} /\ r.out = n.out /\ r.wire = n.wire /\ r.news = n.news
      /\ r.resolving = n.resolving /\ r.clashed = n.clashed /\ r.ops = n.ops
  BY <1>3, <1>6e, <1>8 DEF Net, NetRecord
<1>10. r.stale \in SUBSET Stale /\ IsFiniteSet(r.stale)
  BY <1>3, <1>4, <1>9, FS_RemoveElement DEF FieldsTyped
<1>11. FieldsTyped(r)
  BY <1>4, <1>9, <1>10, Zenon DEF FieldsTyped
<1>12. Grows(n.ready, r.ready, {e})
  BY <1>4, <1>7, <1>9, AppendGrows
<1>13. r \in Net
  BY <1>4, <1>9, <1>11, <1>12, NetTyped DEF Grows
<1>14. Good(r)
  BY <1>3, <1>9, <1>10, <1>13 DEF Good, Fresh
<1>15. /\ \A i \in DOMAIN n.ready : i \in DOMAIN r.ready /\ r.ready[i] = n.ready[i]
       /\ \A i \in DOMAIN r.ready : i \in DOMAIN n.ready \/ r.ready[i] = e
       /\ \E i \in DOMAIN r.ready : r.ready[i] = e
  BY <1>12 DEF Grows
<1>16. Trying(n) => Trying(r)
  <2>1. Attempt(o) => Attempt(e)
    BY <1>7 DEF Attempt
  <2> QED BY <1>9, <1>15, <2>1 DEF Trying
<1>17. ASSUME NEW read \in BOOLEAN, IdleInv(n), Acks(n, read)
       PROVE  IdleInv(r) /\ Acks(r, read)
  <2>1. ~IdleRead(e)
    BY <1>3, <1>7, <1>17 DEF IdleInv, IdleRead
  <2>2. Calm(n, r)
    BY <1>9, <1>15, <2>1 DEF Calm, Due
  <2>3. Safe(n, r)
    BY <1>14, <2>2, CalmSafe
  <2>4. CASE ~r.clashed
    BY <1>17, <2>3, <2>4 DEF Safe, IdleOk
  <2>5. CASE r.clashed
    <3>1. IdleInv(r)
      BY <1>9, <1>15, <1>17, <2>1 DEF IdleInv, Arrived
    <3>2. Acks(r, read)
      BY <1>9, <1>15, <1>17, <2>1 DEF Acks, Arrived
    <3> QED BY <3>1, <3>2
  <2> QED BY <2>4, <2>5
<1>18. Keeps(net, net')
  BY <1>2, <1>8, <1>9, <1>14, <1>16, <1>17 DEF Keeps, Safe, IdleOk
<1> QED BY <1>1, <1>18, NetStepInv

\* The server goes down: the connections are dead, the requests and the news are lost.
LEMMA ServerGoesDownInv ==
    ASSUME ClientInv, serverGoesDown
    PROVE  ClientInv'
<1>1. /\ UNCHANGED <<inputs, idleWire, lastCmd, self, password, typed, idleState, timeout, told,
                     ackRead>>
      /\ server' \in BOOLEAN /\ downs' \in 0..MaxDowns
  <2>1. UNCHANGED <<inputs, idleWire, lastCmd, self, password, typed, idleState, timeout, told,
                    ackRead>>
    BY DEF serverGoesDown, session
  <2>2. server' \in BOOLEAN
    BY DEF serverGoesDown
  <2>3. downs \in 0..MaxDowns /\ downs < MaxDowns /\ downs' = downs + 1
    BY DEF serverGoesDown, ClientInv, RestTyped
  <2>4. downs' \in 0..MaxDowns
    BY <2>3, BoundsAssumption
  <2> QED BY <2>1, <2>2, <2>4
<1>2. RestTyped'
  BY <1>1 DEF ClientInv, RestTyped
<1>3. PICK n, link, wire : /\ n = net /\ wire = <<>>
                           /\ link = [s \in Slots |-> IF net.link[s] = "up" THEN "dead" ELSE net.link[s]]
  OBVIOUS
<1>4. Good(n) /\ n \in Net
  BY <1>3 DEF ClientInv, Good
<1>5. net' = [n EXCEPT !.link = link, !.wire = wire, !.news = "none"]
  BY <1>3 DEF serverGoesDown
<1>6. link \in [Slots -> {"closed", "up", "dead"}] /\ wire \in Seq(Request)
  BY <1>3, <1>4, NetFields DEF FieldsTyped
<1>7. Keeps(n, net')
  BY <1>4, <1>5, <1>6, EditKeeps
<1> QED BY <1>1, <1>2, <1>3, <1>7, NetStepInv

\* The server comes back.
LEMMA ServerComesBackInv ==
    ASSUME ClientInv, serverComesBack
    PROVE  ClientInv'
<1>1. UNCHANGED <<downs, inputs, net, idleWire, session, ackRead>> /\ server' \in BOOLEAN
  BY DEF serverComesBack
<1>2. RestTyped' /\ UNCHANGED <<net, ackRead, idleState, told>>
  BY <1>1 DEF ClientInv, RestTyped, session
<1>3. Keeps(net, net)
  BY DEF ClientInv, Keeps, Safe
<1> QED BY <1>2, <1>3, NetStepInv

\* The name of the server resolves.
LEMMA ResolvedInv ==
    ASSUME ClientInv, resolved
    PROVE  ClientInv'
<1>1. RestTyped' /\ UNCHANGED <<ackRead, idleState, told>>
  BY RestStays DEF ClientInv, resolved
<1>2. Good(net) /\ net.resolving \in Slots
  BY NetFields DEF ClientInv, Good, resolved, FieldsTyped
<1>3. PICK s \in Slots : s = net.resolving
  BY <1>2
<1>4. PICK held : net' = start_connect(net, s, held)
  BY <1>3 DEF resolved
<1>5. Keeps(net, net')
  BY <1>2, <1>3, <1>4, StartConnectKeeps
<1> QED BY <1>1, <1>5, NetStepInv

\* m_Timeout cancels the operations of m_Http.
LEMMA TimeoutExpiresInv ==
    ASSUME ClientInv, timeoutExpires
    PROVE  ClientInv'
<1>1. /\ UNCHANGED <<server, downs, inputs, idleWire, lastCmd, self, password, typed, idleState,
                     told, ackRead>>
      /\ timeout' \in BOOLEAN
  BY DEF timeoutExpires, env
<1>2. RestTyped'
  BY <1>1 DEF ClientInv, RestTyped
<1>3. PICK s \in Slots : s = "http" /\ \E held : net' = Abort(net, s, held)
  BY DEF timeoutExpires, Slots
<1>3h. PICK held : net' = Abort(net, s, held)
  BY <1>3
<1>4. Good(net) /\ net \in Net
  BY DEF ClientInv, Good
<1>5. PICK ended \in SUBSET net.ops[s] : ended = net.ops[s] \cap (held \cup {"connect"})
  OBVIOUS
<1>6. Aborted(net, s, ended, net')
  BY <1>3h, <1>4, <1>5, AbortShape
<1>7. Keeps(net, net')
  BY <1>4, <1>6, AbortedKeeps
<1> QED BY <1>1, <1>2, <1>7, NetStepInv

--------------------------------------------------------------------------------
(* The user keeps the invariant *)

\* A command is sent, and nothing but what is typed changes with it.
LEMMA TypesInv ==
    ASSUME ClientInv, Types, NEW cmd \in {"login", "other"}, NEW request \in Request,
           sendRequest(net, cmd, request), typed' \in People \cup {NotTyped},
           UNCHANGED <<server, downs, idleWire, self, password, idleState, timeout, told, ackRead>>
    PROVE  ClientInv'
<1>1. inputs' \in 0..MaxInputs
  <2>1. inputs \in 0..MaxInputs /\ inputs < MaxInputs /\ inputs' = inputs + 1
    BY DEF Types, ClientInv, RestTyped
  <2> QED BY <2>1, BoundsAssumption
<1>2. Keeps(net, net') /\ lastCmd' = cmd
  BY SendKeeps DEF ClientInv
<1>3. RestTyped'
  BY <1>1, <1>2 DEF ClientInv, RestTyped
<1> QED BY <1>2, <1>3, NetStepInv

\* LOGIN.
LEMMA InputLoginInv ==
    ASSUME ClientInv, NEW user \in Users, NEW pass \in Passwords, inputLogin(user, pass)
    PROVE  ClientInv'
<1>1. PICK ok \in BOOLEAN : ok = (pass = user)
  OBVIOUS
<1>2. PICK request : request = [cmd |-> "login", uid |-> user, ok |-> ok]
  OBVIOUS
<1>3. request \in Request
  BY <1>2 DEF Request, People
<1>4. sendRequest(net, "login", request)
  <2>1. request = [cmd |-> "login", uid |-> user, ok |-> pass = user]
    BY <1>1, <1>2, Zenon
  <2> QED BY <2>1, Zenon DEF inputLogin
<1>5. /\ Types /\ typed' \in People \cup {NotTyped}
      /\ UNCHANGED <<server, downs, idleWire, self, password, idleState, timeout, told, ackRead>>
  BY UsersAssumption DEF inputLogin, People
<1> QED BY <1>3, <1>4, <1>5, TypesInv

\* Another command.
LEMMA InputRequestInv ==
    ASSUME ClientInv, NEW id \in People, inputRequest(id)
    PROVE  ClientInv'
<1>1. PICK ok \in BOOLEAN : sendRequest(net, "other", [cmd |-> "other", uid |-> id, ok |-> ok])
  <2>1. {TRUE, id # NoUser} \subseteq BOOLEAN
    BY Zenon
  <2> QED BY <2>1, Zenon DEF inputRequest
<1>2. PICK request : request = [cmd |-> "other", uid |-> id, ok |-> ok]
  OBVIOUS
<1>3. request \in Request
  BY <1>2 DEF Request
<1>4. sendRequest(net, "other", request)
  BY <1>1, <1>2, Zenon
<1>5. /\ Types /\ typed' = typed
      /\ UNCHANGED <<server, downs, idleWire, self, password, idleState, timeout, told, ackRead>>
  BY DEF inputRequest
<1>6. typed' \in People \cup {NotTyped}
  BY <1>5 DEF ClientInv, RestTyped
<1> QED BY <1>3, <1>4, <1>5, <1>6, TypesInv

\* The password is remembered.
LEMMA RememberPasswordInv ==
    ASSUME ClientInv, rememberPassword
    PROVE  ClientInv'
<1>1. /\ UNCHANGED <<env, net, idleWire, lastCmd, self, idleState, timeout, told, ackRead>>
      /\ password' \in People /\ typed' \in People \cup {NotTyped}
  BY DEF rememberPassword, ClientInv, RestTyped
<1>2. RestTyped'
  BY <1>1 DEF ClientInv, RestTyped, env
<1>3. Keeps(net, net)
  BY DEF ClientInv, Keeps, Safe
<1> QED BY <1>1, <1>2, <1>3, NetStepInv

\* Nothing changes.
LEMMA ClientStutterInv ==
    ASSUME ClientInv, UNCHANGED vars
    PROVE  ClientInv'
<1>1. UNCHANGED <<env, net, idleWire, session, ackRead>>
  BY DEF vars
<1>2. RestTyped' /\ UNCHANGED <<net, ackRead, idleState, told>>
  BY <1>1, RestStays DEF ClientInv
<1>3. Keeps(net, net)
  BY DEF ClientInv, Keeps, Safe
<1> QED BY <1>2, <1>3, NetStepInv

--------------------------------------------------------------------------------
(* The theorems *)

\* The sockets before the IoThread starts: nothing was done on them.
LEMMA NoNetGood == Good(NoNet) /\ \A read \in BOOLEAN : IdleOk(NoNet, read)
<1>1. PICK n, f : n = NoNet /\ f = FALSE
  OBVIOUS
<1>2. n = [link |-> [s \in Slots |-> "closed"], tls |-> [s \in Slots |-> "new"],
           open |-> [s \in Slots |-> f], ops |-> [s \in Slots |-> {}], stale |-> {},
           ready |-> <<>>, out |-> NoRequest, wire |-> <<>>, news |-> "none",
           resolving |-> NoSlot, clashed |-> f]
  BY <1>1, Zenon DEF NoNet
<1>3. /\ NetRecord(n)
      /\ n.link = [s \in Slots |-> "closed"] /\ n.tls = [s \in Slots |-> "new"]
      /\ n.open = [s \in Slots |-> f] /\ n.ops = [s \in Slots |-> {}] /\ n.stale = {}
      /\ n.ready = <<>> /\ n.out = NoRequest /\ n.wire = <<>> /\ n.news = "none"
      /\ n.resolving = NoSlot /\ n.clashed = f
  BY <1>2 DEF NetRecord
<1>4. /\ n.link \in [Slots -> {"closed", "up", "dead"}]
      /\ n.tls \in [Slots -> {"new", "begun", "done", "stuck", "foreign"}]
      /\ n.ops \in [Slots -> SUBSET Ops] /\ \A s \in Slots : n.ops[s] = {}
  BY <1>3
<1>5. n.open \in [Slots -> BOOLEAN] /\ n.clashed \in BOOLEAN
  <2>1. f \in BOOLEAN
    BY <1>1
  <2> QED BY <1>3, <2>1
<1>6. FieldsTyped(n)
  BY <1>3, <1>4, <1>5, RequestIsReply DEF FieldsTyped
<1>7. n.ready \in Seq(Completion) /\ n.wire \in Seq(Request) /\ DOMAIN n.ready = {}
  BY <1>3
<1>8. n \in Net
  BY <1>3, <1>6, <1>7, NetTyped
<1>9. Good(n)
  BY <1>3, <1>4, <1>8, FS_EmptySet DEF Good, Fresh
<1>10. n.ops["idle"] = {}
  BY <1>4 DEF Slots
<1>11. \A read \in BOOLEAN : IdleOk(n, read)
  BY <1>3, <1>7, <1>10 DEF IdleOk, IdleInv, Acks
<1> QED BY <1>1, <1>9, <1>11

\* The client starts so.
LEMMA ClientInit == Init => ClientInv
<1> SUFFICES ASSUME Init
             PROVE  ClientInv
  OBVIOUS
<1>1. Good(NoNet) /\ \A read \in BOOLEAN : IdleOk(NoNet, read)
  BY NoNetGood
<1>2. PICK s \in Slots, held \in {{}} : net = start_connect(NoNet, s, held)
  BY DEF Init, Slots
<1>3. NoNet.resolving = NoSlot
  BY DEF NoNet
<1>4. Keeps(NoNet, net)
  BY <1>1, <1>2, <1>3, StartConnectKeeps
<1>5. Good(net) /\ \A read \in BOOLEAN : IdleOk(net, read)
  BY <1>1, <1>4 DEF Keeps, Safe
<1>6. RestTyped
  <2>1. /\ server \in BOOLEAN /\ idleState \in BOOLEAN /\ timeout \in BOOLEAN
        /\ told \in BOOLEAN /\ ackRead \in BOOLEAN
    BY DEF Init
  <2>2. /\ downs \in 0..MaxDowns /\ inputs \in 0..MaxInputs /\ idleWire \in Credentials
        /\ lastCmd \in {"none", "login", "other"}
        /\ self \in People /\ password \in People /\ typed \in People \cup {NotTyped}
    BY UsersAssumption, BoundsAssumption DEF Init, Credentials, People
  <2> QED BY <2>1, <2>2 DEF RestTyped
<1>7. IdleOk(net, ackRead)
  BY <1>5, <1>6 DEF RestTyped
<1>8. AckFirst /\ ~told
  BY DEF Init, AckFirst
<1> QED BY <1>5, <1>6, <1>7, <1>8 DEF ClientInv

\* Every step of the client, the network, the server and the user keeps the invariant.
LEMMA ClientNext == ClientInv /\ [Next]_vars => ClientInv'
<1> SUFFICES ASSUME ClientInv, [Next]_vars
             PROVE  ClientInv'
  OBVIOUS
<1>1. CASE serverGoesDown
  BY <1>1, ServerGoesDownInv
<1>2. CASE serverComesBack
  BY <1>2, ServerComesBackInv
<1>3. CASE \E s \in Slots : Network(s)
  <2>1. PICK s \in Slots : connectEnds(s) \/ handshakeEnds(s) \/ writeEnds(s) \/ readFails(s)
    BY <1>3 DEF Network
  <2> QED BY <2>1, ConnectEndsInv, HandshakeEndsInv, WriteEndsInv, ReadFailsInv
<1>4. CASE serverAnswers
  BY <1>4, ServerAnswersInv
<1>5. CASE serverNotifies
  BY <1>5, ServerNotifiesInv
<1>6. CASE \E o \in net.stale : staleEnds(o)
  BY <1>6, StaleEndsInv
<1>7. CASE \E user \in Users, pass \in Passwords : inputLogin(user, pass)
  BY <1>7, InputLoginInv
<1>8. CASE rememberPassword
  BY <1>8, RememberPasswordInv
<1>9. CASE \E id \in People : inputRequest(id)
  BY <1>9, InputRequestInv
<1>10. CASE runHandler
  BY <1>10, RunHandlerInv
<1>11. CASE resolved
  BY <1>11, ResolvedInv
<1>12. CASE timeoutExpires
  BY <1>12, TimeoutExpiresInv
<1>13. CASE UNCHANGED vars
  BY <1>13, ClientStutterInv
<1> QED BY <1>1, <1>2, <1>3, <1>4, <1>5, <1>6, <1>7, <1>8, <1>9, <1>10, <1>11, <1>12, <1>13
        DEF Next

\* The inductive invariant holds in every behaviour of the client.
THEOREM ClientInvariant == Spec => []ClientInv
  BY ClientInit, ClientNext, PTL DEF Spec

\* Every variable keeps its type, and an object that createConnect made has no read,
\* write or handshake before its first handshake starts: none of the old object's
\* operations is taken for one of the new.
THEOREM ClientTypeCorrect == Spec => []TypeOK
<1>1. ClientInv => TypeOK
  BY DEF ClientInv, Good, Fresh, TypeOK, RestTyped
<1> QED BY <1>1, ClientInvariant, PTL

\* m_IdleState is TRUE exactly when the acknowledgement was read on the current
\* m_HttpIdle (onHttpIdleRead), whatever breaks in between, while no two operations of
\* one kind meet on a stream.
THEOREM AckComesFirst == Spec => []AckFirst
<1>1. ClientInv => AckFirst
  BY DEF ClientInv
<1> QED BY <1>1, ClientInvariant, PTL

\* The client that has told the user to log in again has an attempt to connect m_Http
\* under way or due: no handler of an error (onHttpConnect, onHttpReadError,
\* onHttpIdleReadError), no replaced object and no timeout loses it.
THEOREM NeverGivesUp == Spec => []StillTrying
<1>1. ClientInv => StillTrying
  <2> SUFFICES ASSUME ClientInv, told
               PROVE  Attempts > 0
    BY DEF StillTrying
  <2>1. net \in Net /\ Trying(net) /\ IsFiniteSet(net.stale)
    BY DEF ClientInv, Good
  <2>2. PICK A, B, C, D :
            /\ A = {"http"} \cap {net.resolving}
            /\ B = net.ops["http"] \cap {"connect", "handshake"}
            /\ C = {o \in net.stale : o.slot = "http" /\ o.op \in {"connect", "handshake"}}
            /\ D = {i \in DOMAIN net.ready : net.ready[i].slot = "http"
                                             /\ net.ready[i].op \in {"connect", "handshake"}}
    OBVIOUS
  <2>3. IsFiniteSet(A) /\ IsFiniteSet(B) /\ IsFiniteSet(C)
    <3>1. IsFiniteSet({"http"}) /\ A \subseteq {"http"}
      BY <2>2, FS_Singleton
    <3>2. B \subseteq Ops /\ C \subseteq net.stale
      BY <2>2 DEF Ops
    <3> QED BY <2>1, <3>1, <3>2, OpsFinite, FS_Subset
  <2>4. IsFiniteSet(D)
    <3>1. PICK k \in Nat : DOMAIN net.ready = 1..k
      BY <2>1, ReadyIndex
    <3>2. IsFiniteSet(1..k)
      BY FS_Interval
    <3> QED BY <2>2, <3>1, <3>2, FS_Subset
  <2>5. A # {} \/ B # {} \/ C # {} \/ D # {}
    BY <2>1, <2>2 DEF Trying, Attempt, Connecting
  <2>6. Cardinality(A) \in Nat /\ Cardinality(B) \in Nat /\ Cardinality(C) \in Nat /\ Cardinality(D) \in Nat
    BY <2>3, <2>4, FS_CardinalityType
  <2>7. Cardinality(A) # 0 \/ Cardinality(B) # 0 \/ Cardinality(C) # 0 \/ Cardinality(D) # 0
    BY <2>3, <2>4, <2>5, FS_EmptySet
  <2>8. Attempts = Cardinality(A) + Cardinality(B) + Cardinality(C) + Cardinality(D)
    BY <2>2 DEF Attempts
  <2> QED BY <2>6, <2>7, <2>8
<1> QED BY <1>1, ClientInvariant, PTL
================================================================================
