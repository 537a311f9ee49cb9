--------------------------- MODULE IdleDeliveryProofs ---------------------------
(* Proofs about IdleDelivery, for any connections, chats, senders, pollers and  *)
(* writes, overlapping polls and failing statements included: what is written   *)
(* is new, and what is passed over is passed over for a reason.                 *)
EXTENDS IdleDelivery, FiniteSetTheorems, WellFoundedInduction, TLAPS

\* The senders that have stamped a message have room to store it.
Stamped == {s \in Senders : sending[s] # NoMessage}
RoomInv ==
    /\ IsFiniteSet(Stamped) /\ Len(messages) + Cardinality(Stamped) <= MaxMessages

\* What polls and writes hold are rows; the timestamp of a write is that of its newest.
BatchInv ==
    /\ \A p \in Pollers : polls[p] # NoPoll => polls[p].batch \subseteq DOMAIN messages
    /\ \A k \in Slots : writes[k] # NoWrite =>
          /\ writes[k].batch \subseteq DOMAIN messages
          /\ \A i \in writes[k].batch : writes[k].kind = "messages" /\ ts(i) <= writes[k].max_ts
          /\ writes[k].max_ts = 0 \/ \E i \in writes[k].batch : ts(i) = writes[k].max_ts

\* A connection that has not asked for messages has none, and nothing under way.
Fresh(c) ==
    state[c] \in {"new", "login"} =>
        /\ newest[c] = 0 /\ params_ts[c] = 0 /\ ~armed[c]
        /\ delivered[c] = {} /\ Quiet(c)

\* While the polls of a connection do not overlap, the last one asks for what is newer
\* than params_ts, and the peer has nothing that is.
InTime(c) ==
    /\ \A p \in Pollers : PollOf(p, c) =>
          /\ polls[p].ts = params_ts[c]
          /\ \A k \in Slots : ~WriteOf(k, c)
          /\ \A q \in Pollers : PollOf(q, c) => q = p
    /\ \A k \in Slots : WriteOf(k, c) =>
          /\ \A i \in writes[k].batch : ts(i) > params_ts[c]
          /\ \A l \in Slots : WriteOf(l, c) => l = k
    /\ \A j \in delivered[c] : ts(j) <= params_ts[c] \/ (Quiet(c) /\ ts(j) <= newest[c])

\* A poll takes what is newer than its timestamp, and of each chat it asked the last
\* MaxCount messages: a message it passed over has as many after it, or was cut off.
Overtaken(i) ==
    Cardinality({k \in DOMAIN messages : k > i /\ messages[k].chat = messages[i].chat}) >= MaxCount

Taken(p) ==
    polls[p] # NoPoll =>
        \A j \in polls[p].batch :
            /\ ts(j) > polls[p].ts
            /\ \A i \in DOMAIN messages :
                  i < j /\ messages[i].chat = messages[j].chat /\ ts(i) > polls[p].ts =>
                      i \in polls[p].batch \/ Overtaken(i) \/ i \in cut[polls[p].conn]

\* Message j is a reason why message i is not sent to c.
Reason(c, i, j) ==
    /\ ts(j) >= ts(i)
    /\ \/ ts(j) = ts(i)
       \/ messages[j].chat # messages[i].chat
       \/ j < i
       \/ i \in cut[c]
       \/ Overtaken(i)

\* When the peer has the messages D, time T may be passed: all up to it are in D, or
\* missed for a reason.
MayPass(c, T, D) ==
    /\ T <= first_ts[c] \/ \E j \in D : ts(j) >= T
    /\ \A i \in DOMAIN messages : first_ts[c] < ts(i) /\ ts(i) <= T =>
          i \in D \/ \E j \in D : Reason(c, i, j)

Passes(c) ==
    (state[c] = "idle" /\ ~clashed[c]) =>
        /\ MayPass(c, params_ts[c], delivered[c])
        /\ MayPass(c, newest[c], delivered[c])
        /\ \A k \in Slots : WriteOf(k, c) =>
              MayPass(c, writes[k].max_ts, delivered[c] \cup writes[k].batch)
        /\ \A p \in Pollers : PollOf(p, c) => polls[p].ts <= params_ts[c]

ConnInv(c) == Fresh(c) /\ (~overlapped[c] => InTime(c)) /\ Passes(c)

\* The inductive invariant.
IdleInv ==
    /\ TypeOK /\ RoomInv /\ BatchInv
    /\ \A p \in Pollers : Taken(p)
    /\ \A c \in Conns : ConnInv(c)
--------------------------------------------------------------------------------
(* Values *)

\* The values the variables hold.
LEMMA Values ==
    ASSUME TypeOK
    PROVE  /\ DOMAIN messages = 1..Len(messages) /\ Len(messages) \in Nat
           /\ \A i \in DOMAIN messages : ts(i) \in 1..MaxClock /\ messages[i].chat \in Chats
           /\ \A p \in Pollers : polls[p] # NoPoll =>
                 /\ polls[p] \in Poll /\ polls[p].conn \in Conns /\ polls[p].ts \in 0..MaxClock
                 /\ polls[p].ping \in BOOLEAN /\ polls[p].at \in 0..(NumChats + 1)
           /\ \A k \in Slots : writes[k] # NoWrite =>
                 /\ writes[k] \in Write /\ writes[k].max_ts \in 0..MaxClock
                 /\ writes[k].conn \in Conns
<1>1. \A i \in DOMAIN messages : messages[i] \in Message
  BY DEF TypeOK
<1>2. \A i \in DOMAIN messages : ts(i) \in 1..MaxClock /\ messages[i].chat \in Chats
  BY <1>1 DEF Message, ts, Times
<1>3. \A p \in Pollers : polls[p] # NoPoll => polls[p] \in Poll
  BY DEF TypeOK
<1>4. \A k \in Slots : writes[k] # NoWrite => writes[k] \in Write
  BY DEF TypeOK
<1>5. DOMAIN messages = 1..Len(messages) /\ Len(messages) \in Nat
  BY DEF TypeOK
<1> QED BY <1>2, <1>3, <1>4, <1>5 DEF Poll, Write

\* A set of numbers up to n has a maximum.
LEMMA MaxExists ==
    ASSUME NEW n \in Nat, NEW S \in SUBSET (1..n), S # {}
    PROVE  Max(S) \in S /\ \A y \in S : Max(S) >= y
<1>1. PICK U : U = {n - x : x \in S}
  OBVIOUS
<1>2. U \subseteq Nat /\ U # {}
  <2>1. \A x \in S : x \in Nat /\ n - x \in Nat
    OBVIOUS
  <2> QED BY <1>1, <2>1
<1>3. PICK u \in U : \A y \in U : ~(<<y, u>> \in OpToRel(<, Nat))
  BY <1>2, NatLessThanWellFounded, WFMin
<1>4. \A y \in U : ~(y < u)
  BY <1>2, <1>3 DEF OpToRel
<1>5. PICK m \in S : u = n - m
  BY <1>1
<1>6. \A y \in S : ~(n - y < n - m)
  BY <1>1, <1>4, <1>5
<1>7. \E x \in S : \A y \in S : x >= y
  BY <1>6
<1> QED BY <1>7 DEF Max

\* The timestamp that goes with a batch is that of its newest message, 0 for a ping.
LEMMA MaxTimestamp ==
    ASSUME TypeOK, NEW batch, batch \subseteq DOMAIN messages, NEW m, m = max_timestamp(batch)
    PROVE  /\ m \in 0..MaxClock
           /\ \A i \in batch : ts(i) <= m
           /\ m = 0 \/ \E i \in batch : ts(i) = m
<1>1. MaxClock \in Nat
  BY BoundsAssumption
<1>2. CASE batch = {}
  BY <1>1, <1>2 DEF max_timestamp
<1>3. CASE batch # {}
  <2>1. PICK S : S = {messages[i].ts : i \in batch}
    OBVIOUS
  <2>2. S \in SUBSET (1..MaxClock) /\ S # {}
    <3>1. \A i \in batch : messages[i].ts \in 1..MaxClock
      BY Values DEF ts
    <3> QED BY <1>3, <2>1, <3>1
  <2>3. m = Max(S) /\ m \in S /\ \A y \in S : m >= y
    BY <1>1, <1>3, <2>1, <2>2, MaxExists DEF max_timestamp
  <2>4. \A i \in batch : messages[i].ts \in S
    BY <2>1
  <2>5. \E i \in batch : messages[i].ts = m
    BY <2>1, <2>3
  <2>6. \A y \in S : y <= m
    BY <1>1, <2>2, <2>3
  <2>7. m \in 0..MaxClock
    BY <1>1, <2>2, <2>3
  <2>8. \A i \in batch : ts(i) <= m
    BY <2>4, <2>6 DEF ts
  <2>9. \E i \in batch : ts(i) = m
    BY <2>5 DEF ts
  <2> QED BY <2>7, <2>8, <2>9
<1> QED BY <1>2, <1>3
--------------------------------------------------------------------------------
(* Types *)

\* What appending a message leaves as it was.
LEMMA Appended ==
    ASSUME TypeOK, NEW m \in Message, messages' = Append(messages, m)
    PROVE  /\ messages' \in Seq(Message)
           /\ Len(messages') = Len(messages) + 1
           /\ DOMAIN messages' = DOMAIN messages \cup {Len(messages) + 1}
           /\ Len(messages) + 1 \notin DOMAIN messages
           /\ messages'[Len(messages) + 1] = m
           /\ \A i \in DOMAIN messages : messages'[i] = messages[i] /\ ts(i)' = ts(i)
<1>1. messages \in Seq(Message)
  BY DEF TypeOK
<1> QED BY <1>1 DEF ts

\* The steps of the senders.
LEMMA SendersTyped ==
    ASSUME TypeOK, RoomInv, BatchInv, NEW s \in Senders, SendStep(s)
    PROVE  TypeOK' /\ RoomInv' /\ BatchInv'
<1>1. /\ Len(messages) \in Nat /\ MaxMessages \in Nat /\ Cardinality(Stamped) \in Nat
      /\ IsFiniteSet(Stamped) /\ sending \in [Senders -> Message \cup {NoMessage}]
      /\ NoMessage \notin Message
  BY Values, BoundsAssumption, NoneAssumption, FS_CardinalityType DEF RoomInv, TypeOK
<1>2. ASSUME NEW chat \in Chats, stampMessage(s, chat)
      PROVE  TypeOK' /\ RoomInv' /\ BatchInv'
  <2>1. PICK m : m = [chat |-> chat, ts |-> clock]
    OBVIOUS
  <2>2. /\ sending[s] = NoMessage /\ Len(messages) + Cardinality(Stamped) < MaxMessages
        /\ sending' = [sending EXCEPT ![s] = m]
        /\ UNCHANGED <<clock, messages, heartbit, conn, polls, writes, history>>
    BY <1>2, <2>1 DEF stampMessage, Stamped
  <2>3. m \in Message /\ sending' \in [Senders -> Message \cup {NoMessage}]
    BY <1>1, <2>1, <2>2 DEF Message, TypeOK
  <2>4. Stamped' = Stamped \cup {s} /\ s \notin Stamped
    BY <1>1, <2>2, <2>3 DEF Stamped
  <2>5. IsFiniteSet(Stamped') /\ Cardinality(Stamped') = Cardinality(Stamped) + 1
    BY <1>1, <2>4, FS_AddElement
  <2>6. RoomInv'
    BY <1>1, <2>2, <2>5 DEF RoomInv
  <2>7. BatchInv'
    BY <2>2 DEF BatchInv, ts
  <2>8. TypeOK'
    BY <2>2, <2>3 DEF TypeOK, conn, history
  <2> QED BY <2>6, <2>7, <2>8
<1>3. CASE saveMessage(s)
  <2>1. PICK m : m = sending[s]
    OBVIOUS
  <2>2. /\ m # NoMessage /\ messages' = Append(messages, m)
        /\ sending' = [sending EXCEPT ![s] = NoMessage]
        /\ UNCHANGED <<clock, heartbit, conn, polls, writes, history>>
    BY <1>3, <2>1 DEF saveMessage
  <2>3. m \in Message /\ sending' \in [Senders -> Message \cup {NoMessage}]
    BY <1>1, <2>1, <2>2
  <2>4. Stamped' = Stamped \ {s} /\ s \in Stamped
    BY <1>1, <2>1, <2>2 DEF Stamped
  <2>5. IsFiniteSet(Stamped') /\ Cardinality(Stamped') = Cardinality(Stamped) - 1
    BY <1>1, <2>4, FS_RemoveElement
  <2>6. /\ messages' \in Seq(Message) /\ Len(messages') = Len(messages) + 1
        /\ DOMAIN messages \subseteq DOMAIN messages'
        /\ \A i \in DOMAIN messages : ts(i)' = ts(i)
    BY <2>2, <2>3, Appended
  <2>7. RoomInv'
    BY <1>1, <2>5, <2>6 DEF RoomInv
  <2>8. Len(messages') <= MaxMessages
    <3>1. Cardinality(Stamped') \in Nat
      BY <2>5, FS_CardinalityType
    <3> QED BY <1>1, <2>6, <2>7, <3>1 DEF RoomInv
  <2>9. BatchInv'
    BY <2>2, <2>6 DEF BatchInv
  <2>10. /\ delivered' \in [Conns -> SUBSET (DOMAIN messages')]
         /\ cut' \in [Conns -> SUBSET (DOMAIN messages')]
    <3>1. /\ delivered \in [Conns -> SUBSET (DOMAIN messages)] /\ UNCHANGED delivered
          /\ cut \in [Conns -> SUBSET (DOMAIN messages)] /\ UNCHANGED cut
      BY <2>2 DEF TypeOK, history
    <3> QED BY <2>6, <3>1
  <2>11. TypeOK'
    BY <2>2, <2>3, <2>6, <2>8, <2>10 DEF TypeOK, conn, history
  <2> QED BY <2>7, <2>9, <2>11
<1>4. CASE saveFails(s)
  <2>1. /\ sending[s] # NoMessage /\ sending' = [sending EXCEPT ![s] = NoMessage]
        /\ UNCHANGED <<clock, messages, heartbit, conn, polls, writes, history>>
    BY <1>4 DEF saveFails
  <2>2. sending' \in [Senders -> Message \cup {NoMessage}]
    BY <1>1, <2>1
  <2>3. Stamped' = Stamped \ {s} /\ s \in Stamped
    BY <1>1, <2>1 DEF Stamped
  <2>4. IsFiniteSet(Stamped') /\ Cardinality(Stamped') = Cardinality(Stamped) - 1
    BY <1>1, <2>3, FS_RemoveElement
  <2>5. RoomInv'
    BY <1>1, <2>1, <2>4 DEF RoomInv
  <2>6. TypeOK' /\ BatchInv'
    BY <2>1, <2>2 DEF TypeOK, BatchInv, conn, history, ts
  <2> QED BY <2>5, <2>6
<1> QED BY <1>2, <1>3, <1>4 DEF SendStep

\* A connection's timer is set or stopped, or a poll is noted as overlapping.
LEMMA FlagTyped ==
    ASSUME NEW f \in [Conns -> BOOLEAN], NEW c \in Conns, NEW b \in BOOLEAN
    PROVE  /\ [f EXCEPT ![c] = b] \in [Conns -> BOOLEAN]
           /\ [f EXCEPT ![c] = b][c] = b
           /\ \A d \in Conns \ {c} : [f EXCEPT ![c] = b][d] = f[d]
BY Zenon

\* The poll the timer puts into the queue.
LEMMA NewPollTyped ==
    ASSUME NEW c \in Conns, NEW t \in 0..MaxClock, NEW ping \in BOOLEAN, NEW q,
           q = [conn |-> c, ts |-> t, ping |-> ping, at |-> 0, batch |-> {}]
    PROVE  q \in Poll /\ q # NoPoll /\ q.conn = c /\ q.ts = t /\ q.batch = {}
<1>1. 0 \in 0..(NumChats + 1) /\ {} \in SUBSET (1..MaxMessages)
  BY SizesAssumption
<1>2. q \in Poll
  BY <1>1 DEF Poll
<1> QED BY <1>2, NoneAssumption

\* What the timer sets.
LEMMA TimerFacts ==
    ASSUME TypeOK, NEW c \in Conns, NEW p \in Pollers, NEW ping \in BOOLEAN,
           timerWaitTaskResultHandler(c, p, ping)
    PROVE  /\ armed[c] /\ polls[p] = NoPoll
           /\ Newer(c) \in 0..MaxClock /\ Newer(c) >= newest[c] /\ Newer(c) >= params_ts[c]
           /\ Newer(c) \in {newest[c], params_ts[c]}
           /\ params_ts' \in [Conns -> 0..MaxClock] /\ params_ts'[c] = Newer(c)
           /\ \A d \in Conns \ {c} : params_ts'[d] = params_ts[d] /\ overlapped'[d] = overlapped[d]
           /\ polls' \in [Pollers -> Poll \cup {NoPoll}]
           /\ polls'[p] # NoPoll /\ polls'[p].conn = c /\ polls'[p].ts = Newer(c)
           /\ polls'[p].batch = {}
           /\ \A r \in Pollers \ {p} : polls'[r] = polls[r]
           /\ overlapped' \in [Conns -> BOOLEAN]
           /\ overlapped'[c] = (overlapped[c] \/ ~Quiet(c))
           /\ UNCHANGED <<store, state, first_ts, newest, armed, writes, delivered, clashed, cut>>
<1>1. newest[c] \in 0..MaxClock /\ params_ts[c] \in 0..MaxClock /\ MaxClock \in Nat
  BY BoundsAssumption DEF TypeOK
<1>2. Newer(c) \in 0..MaxClock /\ Newer(c) >= newest[c] /\ Newer(c) >= params_ts[c]
      /\ Newer(c) \in {newest[c], params_ts[c]}
  BY <1>1 DEF Newer
<1>3. PICK q : q = [conn |-> c, ts |-> Newer(c), ping |-> ping, at |-> 0, batch |-> {}]
  OBVIOUS
<1>4. q \in Poll /\ q # NoPoll /\ q.conn = c /\ q.ts = Newer(c) /\ q.batch = {}
  BY <1>2, <1>3, NewPollTyped
<1>5. /\ armed[c] /\ polls[p] = NoPoll /\ params_ts' = [params_ts EXCEPT ![c] = Newer(c)]
      /\ polls' = [polls EXCEPT ![p] = q]
      /\ overlapped' = [overlapped EXCEPT ![c] = @ \/ ~Quiet(c)]
      /\ UNCHANGED <<store, state, first_ts, newest, armed, writes, delivered, clashed, cut>>
  BY <1>3 DEF timerWaitTaskResultHandler
<1>6. /\ params_ts' \in [Conns -> 0..MaxClock] /\ params_ts'[c] = Newer(c)
      /\ \A d \in Conns \ {c} : params_ts'[d] = params_ts[d]
  BY <1>2, <1>5 DEF TypeOK
<1>7. /\ polls' \in [Pollers -> Poll \cup {NoPoll}] /\ polls'[p] = q
      /\ \A r \in Pollers \ {p} : polls'[r] = polls[r]
  BY <1>4, <1>5 DEF TypeOK
<1>8. PICK b \in BOOLEAN : b = (overlapped[c] \/ ~Quiet(c))
  OBVIOUS
<1>9. overlapped \in [Conns -> BOOLEAN] /\ overlapped' = [overlapped EXCEPT ![c] = b]
  BY <1>5, <1>8, Zenon DEF TypeOK
<1>10. /\ overlapped' \in [Conns -> BOOLEAN] /\ overlapped'[c] = (overlapped[c] \/ ~Quiet(c))
       /\ \A d \in Conns \ {c} : overlapped'[d] = overlapped[d]
  <2>1. /\ overlapped' \in [Conns -> BOOLEAN] /\ overlapped'[c] = b
        /\ \A d \in Conns \ {c} : overlapped'[d] = overlapped[d]
    BY <1>9
  <2> QED BY <1>8, <2>1, Zenon
<1> QED BY <1>2, <1>4, <1>5, <1>6, <1>7, <1>10

\* A write begins: it takes a free slot, and clashes with those under way.
Starts(k, c, kind, B, m) ==
    /\ writes[k] = NoWrite
    /\ writes' \in [Slots -> Write \cup {NoWrite}]
    /\ writes'[k] # NoWrite /\ writes'[k].conn = c /\ writes'[k].kind = kind
    /\ writes'[k].batch = B /\ writes'[k].max_ts = m
    /\ \A l \in Slots \ {k} : writes'[l] = writes[l]
    /\ clashed' \in [Conns -> BOOLEAN]
    /\ clashed[c] => clashed'[c]
    /\ \A d \in Conns \ {c} : clashed'[d] = clashed[d]

\* asyncWrite.
LEMMA WriteStarts ==
    ASSUME TypeOK, NEW c \in Conns, NEW kind \in {"messages", "answer"},
           NEW B \in SUBSET (1..MaxMessages), NEW m \in 0..MaxClock, asyncWrite(c, kind, B, m)
    PROVE  \E k \in Slots : Starts(k, c, kind, B, m)
<1>1. PICK k \in Slots : k = CHOOSE l \in Slots : writes[l] = NoWrite
  BY DEF asyncWrite
<1>2. writes[k] = NoWrite
  BY <1>1 DEF asyncWrite
<1>3. PICK w : w = [conn |-> c, kind |-> kind, batch |-> B, max_ts |-> m]
  OBVIOUS
<1>4. w \in Write /\ w.conn = c /\ w.kind = kind /\ w.batch = B /\ w.max_ts = m
  BY <1>3 DEF Write
<1>5. w # NoWrite
  BY <1>4, NoneAssumption
<1>6. writes' = [writes EXCEPT ![k] = w]
  BY <1>1, <1>3 DEF asyncWrite
<1>7. /\ writes' \in [Slots -> Write \cup {NoWrite}] /\ writes'[k] = w
      /\ \A l \in Slots \ {k} : writes'[l] = writes[l]
  BY <1>4, <1>6 DEF TypeOK
<1>8. PICK b \in BOOLEAN : b = (clashed[c] \/ \E l \in Slots : WriteOf(l, c))
  OBVIOUS
<1>9. clashed \in [Conns -> BOOLEAN] /\ clashed' = [clashed EXCEPT ![c] = b]
  BY <1>8, Zenon DEF asyncWrite, TypeOK
<1>10. /\ clashed' \in [Conns -> BOOLEAN] /\ clashed'[c] = b
       /\ \A d \in Conns \ {c} : clashed'[d] = clashed[d]
  BY <1>9
<1>11. clashed[c] => clashed'[c]
  BY <1>8, <1>10, Zenon
<1> QED BY <1>2, <1>4, <1>5, <1>7, <1>10, <1>11 DEF Starts

\* What is written keeps to the rows, also when a write starts or ends.
LEMMA BatchesKept ==
    ASSUME BatchInv, UNCHANGED messages,
           \A p \in Pollers : polls'[p] # NoPoll => polls'[p].batch \subseteq DOMAIN messages,
           \A k \in Slots : writes'[k] # NoWrite => writes'[k] = writes[k]
    PROVE  BatchInv'
BY DEF BatchInv, ts

\* As above, for a write that starts.
LEMMA BatchStarts ==
    ASSUME BatchInv, UNCHANGED messages,
           \A p \in Pollers : polls'[p] # NoPoll => polls'[p].batch \subseteq DOMAIN messages,
           NEW k \in Slots, NEW c, NEW kind, NEW B \in SUBSET (DOMAIN messages), NEW m, Starts(k, c, kind, B, m),
           \A i \in B : kind = "messages" /\ ts(i) <= m, m = 0 \/ \E i \in B : ts(i) = m
    PROVE  BatchInv'
<1>1. \A i : ts(i)' = ts(i)
  BY DEF ts
<1>2. ASSUME NEW l \in Slots, writes'[l] # NoWrite
      PROVE  /\ writes'[l].batch \subseteq DOMAIN messages
             /\ \A i \in writes'[l].batch : writes'[l].kind = "messages" /\ ts(i) <= writes'[l].max_ts
             /\ writes'[l].max_ts = 0 \/ \E i \in writes'[l].batch : ts(i) = writes'[l].max_ts
  <2>1. CASE l = k
    BY <2>1 DEF Starts
  <2>2. CASE l # k
    BY <1>2, <2>2 DEF Starts, BatchInv
  <2> QED BY <2>1, <2>2
<1> QED BY <1>1, <1>2 DEF BatchInv

\* The steps of a connection but for the timer.
LEMMA ConnTyped ==
    ASSUME TypeOK, BatchInv, NEW c \in Conns,
           login(c) \/ sendOkResponseAndStartIdle(c) \/ peerCloses(c)
    PROVE  TypeOK' /\ BatchInv' /\ UNCHANGED <<sending, messages>>
<1>1. CASE login(c)
  <2>1. /\ state' \in [Conns -> {"new", "login", "idle", "gone"}]
        /\ first_ts' \in [Conns -> 0..MaxClock]
        /\ UNCHANGED <<store, params_ts, newest, armed, polls, writes, history>>
    BY <1>1 DEF login, TypeOK
  <2> QED BY <2>1 DEF TypeOK, BatchInv, store, history, ts
<1>2. CASE sendOkResponseAndStartIdle(c)
  <2>1. /\ state' \in [Conns -> {"new", "login", "idle", "gone"}]
        /\ params_ts' \in [Conns -> 0..MaxClock]
        /\ asyncWrite(c, "answer", {}, 0)
        /\ UNCHANGED <<store, first_ts, newest, polls, delivered, overlapped, cut>>
    BY <1>2 DEF sendOkResponseAndStartIdle, TypeOK
  <2>2. armed' \in [Conns -> BOOLEAN]
    BY <1>2, FlagTyped, Zenon DEF sendOkResponseAndStartIdle, TypeOK
  <2>3. PICK k \in Slots : Starts(k, c, "answer", {}, 0)
    <3>1. 0 \in 0..MaxClock
      BY BoundsAssumption
    <3> QED BY <2>1, <3>1, WriteStarts
  <2>4. UNCHANGED <<sending, messages>> /\ BatchInv'
    <3>1. UNCHANGED <<sending, messages, polls>>
      BY <2>1 DEF store
    <3>2. \A p \in Pollers : polls'[p] # NoPoll => polls'[p].batch \subseteq DOMAIN messages
      BY <3>1 DEF BatchInv
    <3> QED BY <2>3, <3>1, <3>2, BatchStarts
  <2>5. writes' \in [Slots -> Write \cup {NoWrite}] /\ clashed' \in [Conns -> BOOLEAN]
    BY <2>3 DEF Starts
  <2> QED BY <2>1, <2>2, <2>4, <2>5 DEF TypeOK, store
<1>3. CASE peerCloses(c)
  <2>1. /\ state' \in [Conns -> {"new", "login", "idle", "gone"}]
        /\ UNCHANGED <<store, first_ts, params_ts, newest, armed, polls, writes, history>>
    BY <1>3 DEF peerCloses, TypeOK
  <2> QED BY <2>1 DEF TypeOK, BatchInv, store, history, ts
<1> QED BY <1>1, <1>2, <1>3

\* The write of slot k ends; what is delivered is D.
WriteEnds(k, c, D) ==
    /\ WriteOf(k, c) /\ writes' \in [Slots -> Write \cup {NoWrite}] /\ writes'[k] = NoWrite
    /\ \A l \in Slots \ {k} : writes'[l] = writes[l]
    /\ delivered' \in [Conns -> SUBSET (DOMAIN messages)] /\ delivered'[c] = D
    /\ newest' \in [Conns -> 0..MaxClock]
    /\ D = delivered[c] \/ D = delivered[c] \cup writes[k].batch
    /\ (state[c] = "idle" /\ ~clashed[c]) => D = delivered[c] \cup writes[k].batch
    /\ D # delivered[c] => newest'[c] = writes[k].max_ts
    /\ newest'[c] \in {newest[c], writes[k].max_ts}
    /\ armed' \in [Conns -> BOOLEAN]
    /\ armed'[c] => armed[c]
    /\ \A d \in Conns \ {c} : /\ delivered'[d] = delivered[d] /\ newest'[d] = newest[d]
                              /\ armed'[d] = armed[d]
    /\ UNCHANGED <<store, state, first_ts, params_ts, polls, overlapped, clashed, cut>>

\* The end of a write, well or not.
LEMMA WriteSteps ==
    ASSUME TypeOK, BatchInv, NEW k \in Slots, NEW c \in Conns, writeDone(k, c) \/ writeFails(k, c)
    PROVE  \E D : WriteEnds(k, c, D)
<1>1. WriteOf(k, c) /\ writes[k].max_ts \in 0..MaxClock /\ writes[k].batch \subseteq DOMAIN messages
  <2>1. WriteOf(k, c)
    BY DEF writeDone, writeFails
  <2> QED BY <2>1, Values DEF BatchInv, WriteOf
<1>2. /\ writes' \in [Slots -> Write \cup {NoWrite}] /\ writes'[k] = NoWrite
      /\ \A l \in Slots \ {k} : writes'[l] = writes[l]
  BY DEF writeDone, writeFails, TypeOK
<1>3. CASE writeDone(k, c)
  <2>1. PICK D : D = IF state[c] = "idle" /\ ~clashed[c] THEN delivered[c] \cup writes[k].batch ELSE delivered[c]
    OBVIOUS
  <2>2. delivered' = [delivered EXCEPT ![c] = D]
    BY <1>3, <2>1 DEF writeDone
  <2>3. D \subseteq DOMAIN messages
    BY <1>1, <2>1 DEF TypeOK
  <2>4. /\ delivered' \in [Conns -> SUBSET (DOMAIN messages)] /\ delivered'[c] = D
        /\ \A d \in Conns \ {c} : delivered'[d] = delivered[d]
    BY <2>2, <2>3 DEF TypeOK
  <2>5. PICK t : t = IF writes[k].kind = "messages" THEN writes[k].max_ts ELSE newest[c]
    OBVIOUS
  <2>6. newest' = [newest EXCEPT ![c] = t]
    BY <1>3, <2>5 DEF writeDone
  <2>7. t \in 0..MaxClock
    BY <1>1, <2>5 DEF TypeOK
  <2>8. /\ newest' \in [Conns -> 0..MaxClock] /\ newest'[c] = t
        /\ \A d \in Conns \ {c} : newest'[d] = newest[d]
    BY <2>6, <2>7 DEF TypeOK
  <2>9. D # delivered[c] => t = writes[k].max_ts
    BY <1>1, <2>1, <2>5 DEF BatchInv, WriteOf
  <2>10. UNCHANGED <<store, state, first_ts, params_ts, armed, polls, overlapped, clashed, cut>>
    BY <1>3 DEF writeDone
  <2>11. armed \in [Conns -> BOOLEAN]
    BY DEF TypeOK
  <2>12. /\ D = delivered[c] \/ D = delivered[c] \cup writes[k].batch
         /\ (state[c] = "idle" /\ ~clashed[c]) => D = delivered[c] \cup writes[k].batch
         /\ newest'[c] \in {newest[c], writes[k].max_ts}
    BY <2>1, <2>5, <2>8
  <2>13. WriteEnds(k, c, D)
    BY <1>1, <1>2, <2>4, <2>8, <2>9, <2>10, <2>11, <2>12 DEF WriteEnds
  <2> QED BY <2>13
<1>4. CASE writeFails(k, c)
  <2>1. /\ state[c] = "gone"
        /\ UNCHANGED <<store, state, first_ts, params_ts, newest, polls, history>>
    BY <1>4 DEF writeFails
  <2>2. PICK b \in BOOLEAN : b = (armed[c] /\ writes[k].kind = "answer")
    OBVIOUS
  <2>3. armed \in [Conns -> BOOLEAN] /\ armed' = [armed EXCEPT ![c] = b]
    BY <1>4, <2>2, Zenon DEF writeFails, TypeOK
  <2>4. /\ armed' \in [Conns -> BOOLEAN] /\ armed'[c] = b
        /\ \A d \in Conns \ {c} : armed'[d] = armed[d]
    BY <2>3
  <2>5. armed'[c] => armed[c]
    BY <2>2, <2>4, Zenon
  <2>6. UNCHANGED <<delivered, overlapped, clashed, cut>>
    BY <2>1 DEF history
  <2>7. /\ delivered \in [Conns -> SUBSET (DOMAIN messages)] /\ newest \in [Conns -> 0..MaxClock]
    BY DEF TypeOK
  <2>8. WriteEnds(k, c, delivered[c])
    BY <1>1, <1>2, <2>1, <2>4, <2>5, <2>6, <2>7 DEF WriteEnds
  <2> QED BY <2>8
<1> QED BY <1>3, <1>4

\* The end of a write keeps the types.
LEMMA WriteTyped ==
    ASSUME TypeOK, BatchInv, NEW k \in Slots, NEW c \in Conns, NEW D, WriteEnds(k, c, D)
    PROVE  TypeOK' /\ BatchInv' /\ UNCHANGED <<sending, messages>>
<1>1. UNCHANGED <<sending, messages, polls>>
  BY DEF WriteEnds, store
<1>2. \A l \in Slots : writes'[l] # NoWrite => writes'[l] = writes[l]
  BY DEF WriteEnds
<1>3. \A p \in Pollers : polls'[p] # NoPoll => polls'[p].batch \subseteq DOMAIN messages
  BY <1>1 DEF BatchInv
<1>4. BatchInv'
  BY <1>1, <1>2, <1>3, BatchesKept
<1>5. /\ writes' \in [Slots -> Write \cup {NoWrite}] /\ newest' \in [Conns -> 0..MaxClock]
      /\ delivered' \in [Conns -> SUBSET (DOMAIN messages)] /\ armed' \in [Conns -> BOOLEAN]
      /\ UNCHANGED <<clock, heartbit, state, first_ts, params_ts, overlapped, clashed, cut>>
  BY DEF WriteEnds, store
<1>6. TypeOK'
  BY <1>1, <1>5 DEF TypeOK
<1> QED BY <1>1, <1>4, <1>6

\* The poll goes on: it adds the messages of a chat, or none with the heartbit.
Takes(p, G) ==
    /\ polls[p] # NoPoll
    /\ G = {} \/ \E chat \in Chats :
          /\ G \subseteq NewMessages(chat, polls[p].ts)
          /\ \A i \in NewMessages(chat, polls[p].ts) \ G :
                Overtaken(i) \/ i \in cut'[polls[p].conn]
    /\ polls' \in [Pollers -> Poll \cup {NoPoll}]
    /\ polls'[p] # NoPoll /\ polls'[p].conn = polls[p].conn /\ polls'[p].ts = polls[p].ts
    /\ polls'[p].batch = polls[p].batch \cup G
    /\ \A r \in Pollers \ {p} : polls'[r] = polls[r]
    /\ cut' \in [Conns -> SUBSET (DOMAIN messages)]
    /\ cut[polls[p].conn] \subseteq cut'[polls[p].conn]
    /\ \A d \in Conns : d # polls[p].conn => cut'[d] = cut[d]
    /\ UNCHANGED <<clock, sending, messages, conn, writes, delivered, overlapped, clashed>>
    /\ heartbit' \in 0..MaxClock

\* The last MaxCount messages of a chat: of those that are new and left out, each has
\* MaxCount later ones.
LEMMA LastOnes ==
    ASSUME TypeOK, NEW chat \in Chats, NEW t \in 0..MaxClock,
           NEW i \in NewMessages(chat, t), i \notin getMessages(chat, t, MaxCount)
    PROVE  Overtaken(i)
<1>1. PICK F : F = NewMessages(chat, t)
  OBVIOUS
<1>2. PICK L : L = {j \in F : j > i}
  OBVIOUS
<1>3. PICK K : K = {k \in DOMAIN messages : k > i /\ messages[k].chat = messages[i].chat}
  OBVIOUS
<1>4. i \in F /\ i \in DOMAIN messages /\ messages[i].chat = chat
  BY <1>1 DEF NewMessages
<1>5. ~(Cardinality(L) < MaxCount)
  BY <1>1, <1>2, <1>4 DEF getMessages
<1>6. L \subseteq K
  BY <1>1, <1>2, <1>3, <1>4 DEF NewMessages
<1>7. IsFiniteSet(K)
  <2>1. DOMAIN messages = 1..Len(messages) /\ Len(messages) \in Nat
    BY Values
  <2>2. IsFiniteSet(DOMAIN messages)
    BY <2>1, FS_Interval
  <2> QED BY <1>3, <2>2, FS_Subset
<1>8. /\ Cardinality(K) \in Nat /\ Cardinality(L) \in Nat /\ Cardinality(L) <= Cardinality(K)
  BY <1>6, <1>7, FS_Subset, FS_CardinalityType
<1> QED BY <1>3, <1>5, <1>8, SizesAssumption DEF Overtaken

\* updateUserHeartBit and getMessages of one chat, read to the end or not.
LEMMA PollTakes ==
    ASSUME TypeOK, BatchInv, NEW p \in Pollers,
           updateUserHeartBit(p) \/ \E n \in 0..MaxCount : pollChat(p, n)
    PROVE  \E G : G \subseteq DOMAIN messages /\ Takes(p, G)
<1>1. /\ polls[p] # NoPoll /\ polls[p] \in Poll /\ polls[p].at \in 0..(NumChats + 1)
      /\ polls[p].batch \subseteq DOMAIN messages /\ NumChats \in Nat /\ MaxClock \in Nat
      /\ DOMAIN messages \subseteq 1..MaxMessages /\ NoPoll \notin Poll
      /\ polls[p].conn \in Conns /\ polls[p].ts \in 0..MaxClock
  <2>1. polls[p] # NoPoll
    BY DEF updateUserHeartBit, pollChat
  <2>2. DOMAIN messages \subseteq 1..MaxMessages
    BY Values, BoundsAssumption DEF TypeOK
  <2>3. /\ polls[p] \in Poll /\ polls[p].at \in 0..(NumChats + 1)
        /\ polls[p].batch \subseteq DOMAIN messages
        /\ polls[p].conn \in Conns /\ polls[p].ts \in 0..MaxClock
    BY <2>1, Values DEF BatchInv
  <2> QED BY <2>1, <2>2, <2>3, SizesAssumption, BoundsAssumption, NoneAssumption
<1>0. cut \in [Conns -> SUBSET (DOMAIN messages)]
  BY DEF TypeOK
<1>2. CASE updateUserHeartBit(p)
  <2>1. PICK q : q = [polls[p] EXCEPT !.at = 1]
    OBVIOUS
  <2>2. q \in Poll /\ q.conn = polls[p].conn /\ q.ts = polls[p].ts /\ q.batch = polls[p].batch
    BY <1>1, <2>1 DEF Poll
  <2>3. polls' = [polls EXCEPT ![p] = q]
    BY <1>2, <2>1 DEF updateUserHeartBit
  <2>4. /\ polls' \in [Pollers -> Poll \cup {NoPoll}] /\ polls'[p] = q
        /\ \A r \in Pollers \ {p} : polls'[r] = polls[r]
    BY <2>2, <2>3 DEF TypeOK
  <2>5. heartbit' \in 0..MaxClock /\ UNCHANGED <<clock, sending, messages, conn, writes, history>>
    BY <1>1, <1>2 DEF updateUserHeartBit, TypeOK, Times
  <2>6. UNCHANGED <<delivered, overlapped, clashed, cut>>
    BY <2>5 DEF history
  <2>7. Takes(p, {})
    BY <1>0, <1>1, <2>2, <2>4, <2>5, <2>6 DEF Takes
  <2> QED BY <2>7
<1>3. ASSUME NEW n \in 0..MaxCount, pollChat(p, n)
      PROVE  \E G : G \subseteq DOMAIN messages /\ Takes(p, G)
  <2>1. PICK G, A, chat, t, c : /\ chat = polls[p].at /\ t = polls[p].ts /\ c = polls[p].conn
                                /\ G = getMessages(chat, t, n) /\ A = getMessages(chat, t, MaxCount)
    OBVIOUS
  <2>0. /\ G \subseteq NewMessages(chat, t) /\ A \subseteq NewMessages(chat, t)
        /\ NewMessages(chat, t) \subseteq DOMAIN messages /\ c \in Conns /\ t \in 0..MaxClock
    BY <1>1, <2>1 DEF getMessages, NewMessages
  <2>2. PICK q : q = [polls[p] EXCEPT !.batch = @ \cup G, !.at = @ + 1]
    OBVIOUS
  <2>3. chat \in Chats
    BY <1>3, <2>1 DEF pollChat
  <2>4. chat + 1 \in 0..(NumChats + 1) /\ polls[p].batch \cup G \in SUBSET (1..MaxMessages)
    BY <1>1, <2>0, <2>3 DEF Chats
  <2>5. q \in Poll /\ q.conn = polls[p].conn /\ q.ts = polls[p].ts /\ q.batch = polls[p].batch \cup G
    BY <1>1, <2>1, <2>2, <2>4 DEF Poll
  <2>6. polls' = [polls EXCEPT ![p] = q]
    BY <1>1, <1>3, <2>1, <2>2 DEF pollChat, TypeOK
  <2>7. /\ polls' \in [Pollers -> Poll \cup {NoPoll}] /\ polls'[p] = q
        /\ \A r \in Pollers \ {p} : polls'[r] = polls[r]
    BY <2>5, <2>6 DEF TypeOK
  <2>8. heartbit' \in 0..MaxClock
        /\ UNCHANGED <<clock, sending, messages, conn, writes, delivered, overlapped, clashed>>
    BY <1>3 DEF pollChat, TypeOK, store
  <2>9. PICK E : E = IF G = {} THEN cut[c] ELSE cut[c] \cup (A \ G)
    OBVIOUS
  <2>10. cut' = [cut EXCEPT ![c] = E]
    BY <1>3, <2>1, <2>9 DEF pollChat
  <2>11. E \subseteq DOMAIN messages /\ cut[c] \subseteq E
    BY <1>0, <2>0, <2>9
  <2>12. /\ cut' \in [Conns -> SUBSET (DOMAIN messages)] /\ cut'[c] = E
         /\ \A d \in Conns : d # c => cut'[d] = cut[d]
    BY <1>0, <2>0, <2>10, <2>11
  <2>13. CASE G = {}
    BY <1>1, <2>1, <2>5, <2>7, <2>8, <2>11, <2>12, <2>13 DEF Takes
  <2>14. CASE G # {}
    <3>1. ASSUME NEW i \in NewMessages(chat, t) \ G
          PROVE  Overtaken(i) \/ i \in cut'[c]
      <4>1. CASE i \in A
        BY <2>9, <2>12, <2>14, <3>1, <4>1
      <4>2. CASE i \notin A
        BY <2>0, <2>1, <2>3, <3>1, <4>2, LastOnes
      <4> QED BY <4>1, <4>2
    <3>2. \E h \in Chats : /\ G \subseteq NewMessages(h, polls[p].ts)
                           /\ \A i \in NewMessages(h, polls[p].ts) \ G :
                                 Overtaken(i) \/ i \in cut'[polls[p].conn]
      BY <2>0, <2>1, <2>3, <3>1
    <3>3. Takes(p, G)
      BY <1>1, <2>1, <2>5, <2>7, <2>8, <2>11, <2>12, <3>2 DEF Takes
    <3> QED BY <2>0, <3>3
  <2> QED BY <2>0, <2>13, <2>14
<1> QED BY <1>2, <1>3

\* A write that begins with the end of a poll.
Writes(p, c) ==
    \E k \in Slots :
        \/ Starts(k, c, "answer", {}, 0)
        \/ Starts(k, c, "messages", polls[p].batch, max_timestamp(polls[p].batch))

\* The poll of connection c ends, and may start a write.
Ends(p, c) ==
    /\ polls[p] # NoPoll /\ c = polls[p].conn
    /\ polls' \in [Pollers -> Poll \cup {NoPoll}] /\ polls'[p] = NoPoll
    /\ \A r \in Pollers \ {p} : polls'[r] = polls[r]
    /\ UNCHANGED <<writes, clashed>> \/ Writes(p, c)
    /\ UNCHANGED <<store, conn, delivered, overlapped, cut>>

\* sendMessagesToIdleConn, and the error response to a poll that is refused.
LEMMA PollEnds ==
    ASSUME TypeOK, BatchInv, NEW p \in Pollers, pollEnd(p) \/ lookup_check_pass(p)
    PROVE  \E c \in Conns : Ends(p, c)
<1>1. /\ polls[p] # NoPoll /\ polls[p].conn \in Conns /\ polls[p].batch \subseteq DOMAIN messages
      /\ DOMAIN messages \subseteq 1..MaxMessages
  <2>1. polls[p] # NoPoll
    BY DEF pollEnd, lookup_check_pass
  <2>2. DOMAIN messages \subseteq 1..MaxMessages
    BY Values, BoundsAssumption DEF TypeOK
  <2> QED BY <2>1, <2>2, Values DEF BatchInv
<1>2. PICK c, B, m : c \in Conns /\ c = polls[p].conn /\ B = polls[p].batch /\ m = max_timestamp(B)
  BY <1>1
<1>3. /\ polls' \in [Pollers -> Poll \cup {NoPoll}] /\ polls'[p] = NoPoll
      /\ \A r \in Pollers \ {p} : polls'[r] = polls[r]
      /\ UNCHANGED <<store, conn, delivered, overlapped, cut>>
  BY DEF pollEnd, lookup_check_pass, TypeOK
<1>4. m \in 0..MaxClock /\ B \in SUBSET (1..MaxMessages) /\ 0 \in 0..MaxClock
  BY <1>1, <1>2, MaxTimestamp, BoundsAssumption
<1>5. CASE asyncWrite(c, "messages", B, m)
  BY <1>1, <1>2, <1>3, <1>4, <1>5, WriteStarts DEF Ends, Writes
<1>6. CASE asyncWrite(c, "answer", {}, 0)
  BY <1>1, <1>2, <1>3, <1>4, <1>6, WriteStarts DEF Ends, Writes
<1>7. CASE UNCHANGED <<writes, clashed>>
  BY <1>1, <1>2, <1>3, <1>7 DEF Ends
<1> QED BY <1>2, <1>5, <1>6, <1>7 DEF pollEnd, lookup_check_pass

\* The steps of a poll, and the timer that starts one.
LEMMA PollTyped ==
    ASSUME TypeOK, BatchInv,
           \/ \E p \in Pollers : PollStep(p)
           \/ \E c \in Conns, p \in Pollers, ping \in BOOLEAN : timerWaitTaskResultHandler(c, p, ping)
    PROVE  TypeOK' /\ BatchInv' /\ UNCHANGED <<sending, messages>>
<1>1. ASSUME NEW p \in Pollers, NEW G, G \subseteq DOMAIN messages, Takes(p, G)
      PROVE  TypeOK' /\ BatchInv' /\ UNCHANGED <<sending, messages>>
  <2>1. BatchInv'
    BY <1>1 DEF Takes, BatchInv, ts
  <2> QED BY <1>1, <2>1 DEF Takes, TypeOK, conn
<1>2. ASSUME NEW p \in Pollers, NEW c \in Conns, Ends(p, c)
      PROVE  TypeOK' /\ BatchInv' /\ UNCHANGED <<sending, messages>>
  <2>1. UNCHANGED <<messages, sending>>
    BY <1>2 DEF Ends, store
  <2>2. polls[p].batch \subseteq DOMAIN messages
    BY <1>2 DEF Ends, BatchInv
  <2>3. PICK m : m = max_timestamp(polls[p].batch)
    OBVIOUS
  <2>4. /\ \A i \in polls[p].batch : ts(i) <= m
        /\ m = 0 \/ \E i \in polls[p].batch : ts(i) = m
    BY <2>2, <2>3, MaxTimestamp
  <2>5. \A r \in Pollers : polls'[r] # NoPoll => polls'[r].batch \subseteq DOMAIN messages
    BY <1>2 DEF Ends, BatchInv
  <2>6. CASE UNCHANGED <<writes, clashed>>
    <3>1. BatchInv'
      BY <2>1, <2>5, <2>6, BatchesKept
    <3> QED BY <1>2, <2>1, <2>6, <3>1 DEF Ends, TypeOK, store, conn
  <2>7. CASE Writes(p, c)
    <3>1. PICK k \in Slots : \/ Starts(k, c, "answer", {}, 0)
                             \/ Starts(k, c, "messages", polls[p].batch, m)
      BY <2>3, <2>7 DEF Writes
    <3>2. BatchInv'
      <4>1. CASE Starts(k, c, "answer", {}, 0)
        BY <2>1, <2>5, <4>1, BatchStarts
      <4>2. CASE Starts(k, c, "messages", polls[p].batch, m)
        BY <2>1, <2>2, <2>4, <2>5, <4>2, BatchStarts
      <4> QED BY <3>1, <4>1, <4>2
    <3>3. writes' \in [Slots -> Write \cup {NoWrite}] /\ clashed' \in [Conns -> BOOLEAN]
      BY <3>1 DEF Starts
    <3> QED BY <1>2, <2>1, <3>2, <3>3 DEF Ends, TypeOK, store, conn
  <2> QED BY <1>2, <2>6, <2>7 DEF Ends
<1>3. ASSUME NEW c \in Conns, NEW p \in Pollers, NEW ping \in BOOLEAN,
             timerWaitTaskResultHandler(c, p, ping)
      PROVE  TypeOK' /\ BatchInv' /\ UNCHANGED <<sending, messages>>
  <2>1. /\ params_ts' \in [Conns -> 0..MaxClock] /\ overlapped' \in [Conns -> BOOLEAN]
        /\ polls' \in [Pollers -> Poll \cup {NoPoll}]
        /\ polls'[p].batch = {} /\ \A r \in Pollers \ {p} : polls'[r] = polls[r]
        /\ UNCHANGED <<store, state, first_ts, newest, armed, writes, delivered, clashed, cut>>
    BY <1>3, TimerFacts
  <2>2. BatchInv'
    BY <2>1 DEF BatchInv, store, ts
  <2> QED BY <2>1, <2>2 DEF TypeOK, store
<1> QED BY <1>1, <1>2, <1>3, PollTakes, PollEnds DEF PollStep

\* Every step keeps the types.
LEMMA IdleTyped ==
    ASSUME TypeOK, RoomInv, BatchInv, [Next]_vars
    PROVE  TypeOK' /\ RoomInv' /\ BatchInv'
<1>1. ASSUME TypeOK', BatchInv', UNCHANGED <<sending, messages>>
      PROVE  TypeOK' /\ RoomInv' /\ BatchInv'
  BY <1>1 DEF RoomInv, Stamped
<1>2. CASE tick
  <2>1. clock' \in Times /\ UNCHANGED <<sending, messages, heartbit, conn, polls, writes, history>>
    BY <1>2, BoundsAssumption DEF tick, TypeOK, Times
  <2>2. TypeOK' /\ BatchInv'
    BY <2>1 DEF TypeOK, BatchInv, conn, history, ts
  <2> QED BY <1>1, <2>1, <2>2
<1>3. CASE UNCHANGED vars
  <2>1. TypeOK' /\ BatchInv' /\ UNCHANGED <<sending, messages>>
    BY <1>3 DEF vars, TypeOK, BatchInv, store, conn, history, ts
  <2> QED BY <1>1, <2>1
<1>4. ASSUME NEW k \in Slots, WriteStep(k)
      PROVE  TypeOK' /\ BatchInv' /\ UNCHANGED <<sending, messages>>
  BY <1>4, WriteSteps, WriteTyped DEF WriteStep
<1> QED BY <1>1, <1>2, <1>3, <1>4, SendersTyped, ConnTyped, PollTyped DEF Next, ConnStep
--------------------------------------------------------------------------------
(* The steps a connection sees *)

\* The step is none of this connection's.
Kept(d) ==
    /\ state'[d] = state[d] /\ first_ts'[d] = first_ts[d] /\ params_ts'[d] = params_ts[d]
    /\ newest'[d] = newest[d] /\ armed'[d] = armed[d]
    /\ delivered'[d] = delivered[d] /\ overlapped'[d] = overlapped[d]
    /\ clashed'[d] = clashed[d] /\ cut'[d] = cut[d]
    /\ \A p \in Pollers : PollOf(p, d)' = PollOf(p, d)
    /\ \A p \in Pollers : PollOf(p, d) => polls'[p] = polls[p]
    /\ \A k \in Slots : WriteOf(k, d)' = WriteOf(k, d)
    /\ \A k \in Slots : WriteOf(k, d) => writes'[k] = writes[k]

\* Nothing changes but the clock, the heartbit and what is stamped.
Rests == UNCHANGED <<messages, conn, polls, writes, history>>

\* A message is stored.
Stores(m) == messages' = Append(messages, m) /\ UNCHANGED <<conn, polls, writes, history>>

\* What the steps do to the store.
LEMMA StoreSteps ==
    ASSUME TypeOK, tick \/ (UNCHANGED vars) \/ \E s \in Senders : SendStep(s)
    PROVE  Rests \/ \E m \in Message : Stores(m)
<1>1. CASE tick \/ (UNCHANGED vars)
  BY <1>1 DEF tick, vars, store, Rests
<1>2. ASSUME NEW s \in Senders, saveMessage(s)
      PROVE  \E m \in Message : Stores(m)
  BY <1>2 DEF saveMessage, Stores, TypeOK
<1>3. ASSUME NEW s \in Senders, saveFails(s) \/ \E chat \in Chats : stampMessage(s, chat)
      PROVE  Rests
  BY <1>3 DEF saveFails, stampMessage, Rests
<1> QED BY <1>1, <1>2, <1>3 DEF SendStep

\* A write that begins is none of the other connections.
LEMMA StartsKept ==
    ASSUME NEW k \in Slots, NEW c, NEW kind, NEW B, NEW m, Starts(k, c, kind, B, m),
           NEW d \in Conns, d # c
    PROVE  /\ \A l \in Slots : WriteOf(l, d)' = WriteOf(l, d)
           /\ \A l \in Slots : WriteOf(l, d) => writes'[l] = writes[l]
           /\ clashed'[d] = clashed[d]
BY DEF Starts, WriteOf

\* Connections are not changed by the steps of others.
LEMMA OthersKept ==
    ASSUME TypeOK, NEW c \in Conns, NEW d \in Conns, d # c,
           \/ login(c) \/ sendOkResponseAndStartIdle(c) \/ peerCloses(c)
           \/ \E p \in Pollers, ping \in BOOLEAN : timerWaitTaskResultHandler(c, p, ping)
           \/ \E p \in Pollers, G \in SUBSET (DOMAIN messages) : c = polls[p].conn /\ Takes(p, G)
           \/ \E p \in Pollers : Ends(p, c)
           \/ \E k \in Slots : \E D : WriteEnds(k, c, D)
    PROVE  Kept(d) /\ UNCHANGED messages
<1>1. CASE login(c)
  <2>1. /\ state'[d] = state[d] /\ first_ts'[d] = first_ts[d]
        /\ UNCHANGED <<store, params_ts, newest, armed, polls, writes, history>>
    BY <1>1 DEF login, TypeOK
  <2> QED BY <2>1 DEF Kept, PollOf, WriteOf, store, history
<1>2. CASE sendOkResponseAndStartIdle(c)
  <2>1. /\ state'[d] = state[d] /\ params_ts'[d] = params_ts[d]
        /\ asyncWrite(c, "answer", {}, 0)
        /\ UNCHANGED <<store, first_ts, newest, polls, delivered, overlapped, cut>>
    BY <1>2 DEF sendOkResponseAndStartIdle, TypeOK
  <2>2. armed'[d] = armed[d]
    <3>1. armed \in [Conns -> BOOLEAN] /\ armed' = [armed EXCEPT ![c] = TRUE]
      BY <1>2 DEF sendOkResponseAndStartIdle, TypeOK
    <3>2. PICK b \in BOOLEAN : b = TRUE
      OBVIOUS
    <3>3. armed \in [Conns -> BOOLEAN] /\ armed' = [armed EXCEPT ![c] = b]
      BY <3>1, <3>2, Zenon
    <3> QED BY <3>3
  <2>3. \E k \in Slots : Starts(k, c, "answer", {}, 0)
    BY <2>1, WriteStarts, BoundsAssumption
  <2>4. /\ \A l \in Slots : WriteOf(l, d)' = WriteOf(l, d)
        /\ \A l \in Slots : WriteOf(l, d) => writes'[l] = writes[l]
        /\ clashed'[d] = clashed[d]
    BY <2>3, StartsKept
  <2> QED BY <2>1, <2>2, <2>4 DEF Kept, PollOf, store
<1>3. CASE peerCloses(c)
  <2>1. /\ state'[d] = state[d]
        /\ UNCHANGED <<store, first_ts, params_ts, newest, armed, polls, writes, history>>
    BY <1>3 DEF peerCloses, TypeOK
  <2> QED BY <2>1 DEF Kept, PollOf, WriteOf, store, history
<1>4. ASSUME NEW p \in Pollers, NEW ping \in BOOLEAN, timerWaitTaskResultHandler(c, p, ping)
      PROVE  Kept(d) /\ UNCHANGED messages
  <2>1. /\ polls[p] = NoPoll /\ params_ts'[d] = params_ts[d] /\ overlapped'[d] = overlapped[d]
        /\ polls'[p].conn = c /\ \A r \in Pollers \ {p} : polls'[r] = polls[r]
        /\ UNCHANGED <<store, state, first_ts, newest, armed, writes, delivered, clashed, cut>>
    BY <1>4, TimerFacts
  <2> QED BY <2>1 DEF Kept, PollOf, WriteOf, store
<1>5. ASSUME NEW p \in Pollers, NEW G, c = polls[p].conn, Takes(p, G)
      PROVE  Kept(d) /\ UNCHANGED messages
  BY <1>5 DEF Takes, Kept, PollOf, WriteOf, conn
<1>6. ASSUME NEW p \in Pollers, Ends(p, c)
      PROVE  Kept(d) /\ UNCHANGED messages
  <2>1. /\ \A l \in Slots : WriteOf(l, d)' = WriteOf(l, d)
        /\ \A l \in Slots : WriteOf(l, d) => writes'[l] = writes[l]
        /\ clashed'[d] = clashed[d]
    <3>1. CASE UNCHANGED <<writes, clashed>>
      BY <3>1 DEF WriteOf
    <3>2. CASE Writes(p, c)
      BY <3>2, StartsKept DEF Writes
    <3> QED BY <1>6, <3>1, <3>2 DEF Ends
  <2> QED BY <1>6, <2>1 DEF Ends, Kept, PollOf, store, conn
<1>7. ASSUME NEW k \in Slots, NEW D, WriteEnds(k, c, D)
      PROVE  Kept(d) /\ UNCHANGED messages
  BY <1>7 DEF WriteEnds, Kept, PollOf, WriteOf, store
<1> QED BY <1>1, <1>2, <1>3, <1>4, <1>5, <1>6, <1>7

\* While no message is stored, what may be passed is a matter of the first timestamp.
LEMMA PassSame ==
    ASSUME NEW c \in Conns, NEW T, NEW D, UNCHANGED messages, first_ts'[c] = first_ts[c],
           cut[c] \subseteq cut'[c], MayPass(c, T, D)
    PROVE  /\ T <= first_ts'[c] \/ \E j \in D : ts(j)' >= T
           /\ \A i \in DOMAIN messages' : first_ts'[c] < ts(i)' /\ ts(i)' <= T =>
                 i \in D \/ \E j \in D : Reason(c, i, j)'
<1>1. \A i : ts(i)' = ts(i) /\ Overtaken(i)' = Overtaken(i)
  BY DEF ts, Overtaken
<1>2. \A i, j : Reason(c, i, j) => Reason(c, i, j)'
  BY <1>1 DEF Reason
<1> QED BY <1>1, <1>2 DEF MayPass

\* A step that leaves the timestamps of a connection and what is delivered to it.
Stays(c) ==
    /\ UNCHANGED messages
    /\ first_ts'[c] = first_ts[c] /\ params_ts'[c] = params_ts[c] /\ newest'[c] = newest[c]
    /\ delivered'[c] = delivered[c] /\ cut[c] \subseteq cut'[c]

\* Such a step leaves what may be passed.
LEMMA StaysPassed ==
    ASSUME NEW c \in Conns, Stays(c)
    PROVE  /\ MayPass(c, params_ts[c], delivered[c]) => MayPass(c, params_ts[c], delivered[c])'
           /\ MayPass(c, newest[c], delivered[c]) => MayPass(c, newest[c], delivered[c])'
<1>1. /\ UNCHANGED messages /\ first_ts'[c] = first_ts[c] /\ params_ts'[c] = params_ts[c]
      /\ newest'[c] = newest[c] /\ delivered'[c] = delivered[c] /\ cut[c] \subseteq cut'[c]
  BY DEF Stays
<1>2. ASSUME MayPass(c, params_ts[c], delivered[c])
      PROVE  MayPass(c, params_ts[c], delivered[c])'
  BY <1>1, <1>2, PassSame DEF MayPass
<1>3. ASSUME MayPass(c, newest[c], delivered[c])
      PROVE  MayPass(c, newest[c], delivered[c])'
  BY <1>1, <1>3, PassSame DEF MayPass
<1> QED BY <1>2, <1>3

\* The same for a write that goes on.
LEMMA WritePassed ==
    ASSUME NEW c \in Conns, UNCHANGED messages, first_ts'[c] = first_ts[c], cut[c] \subseteq cut'[c],
           NEW k \in Slots, writes'[k] = writes[k], delivered[c] \subseteq delivered'[c],
           MayPass(c, writes[k].max_ts, delivered[c] \cup writes[k].batch)
    PROVE  MayPass(c, writes[k].max_ts, delivered[c] \cup writes[k].batch)'
<1>1. PICK D, E, t : /\ D = delivered[c] \cup writes[k].batch
                     /\ E = delivered'[c] \cup writes'[k].batch /\ t = writes[k].max_ts
  OBVIOUS
<1>2. D \subseteq E /\ t = writes'[k].max_ts /\ MayPass(c, t, D)
  BY <1>1
<1>3. MayPass(c, t, E)
  BY <1>2 DEF MayPass
<1>4. /\ t <= first_ts'[c] \/ \E j \in E : ts(j)' >= t
      /\ \A i \in DOMAIN messages' : first_ts'[c] < ts(i)' /\ ts(i)' <= t =>
            i \in E \/ \E j \in E : Reason(c, i, j)'
  BY <1>3, PassSame
<1> QED BY <1>1, <1>2, <1>4 DEF MayPass

\* A step that is none of a connection's leaves what is true of the connection.
LEMMA Framed ==
    ASSUME NEW d \in Conns, ConnInv(d), Kept(d), UNCHANGED messages
    PROVE  ConnInv(d)'
<1>1. \A i : ts(i)' = ts(i)
  BY DEF ts
<1>2. /\ \A p \in Pollers : /\ PollOf(p, d)' = PollOf(p, d)
                            /\ PollOf(p, d) => polls'[p] = polls[p]
      /\ \A k \in Slots : /\ WriteOf(k, d)' = WriteOf(k, d)
                          /\ WriteOf(k, d) => writes'[k] = writes[k]
  BY DEF Kept
<1>3. Quiet(d)' = Quiet(d)
  BY <1>2 DEF Quiet
<1>4. ~overlapped'[d] => InTime(d)'
  BY <1>1, <1>2, <1>3 DEF ConnInv, InTime, Kept
<1>5. Fresh(d)'
  BY <1>3 DEF ConnInv, Fresh, Kept
<1>6. Passes(d)'
  <2>1. SUFFICES ASSUME state[d] = "idle", ~clashed[d]
                 PROVE  Passes(d)'
    BY DEF Kept, Passes
  <2>2. Stays(d)
    BY DEF Kept, Stays
  <2>3. /\ MayPass(d, params_ts[d], delivered[d]) /\ MayPass(d, newest[d], delivered[d])
        /\ \A k \in Slots : WriteOf(k, d) =>
              MayPass(d, writes[k].max_ts, delivered[d] \cup writes[k].batch)
        /\ \A p \in Pollers : PollOf(p, d) => polls[p].ts <= params_ts[d]
    BY <2>1 DEF ConnInv, Passes
  <2>4. MayPass(d, params_ts[d], delivered[d])' /\ MayPass(d, newest[d], delivered[d])'
    BY <2>2, <2>3, StaysPassed
  <2>5. ASSUME NEW k \in Slots, WriteOf(k, d)'
        PROVE  MayPass(d, writes[k].max_ts, delivered[d] \cup writes[k].batch)'
    BY <1>2, <2>2, <2>3, <2>5, WritePassed DEF Stays
  <2>6. \A p \in Pollers : PollOf(p, d)' => polls'[p].ts <= params_ts'[d]
    BY <1>2, <2>2, <2>3 DEF Stays
  <2> QED BY <2>4, <2>5, <2>6 DEF Passes
<1> QED BY <1>4, <1>5, <1>6 DEF ConnInv
--------------------------------------------------------------------------------
(* A message is stored *)

\* A message that has MaxCount later ones in its chat keeps them.
LEMMA OvertakenKept ==
    ASSUME TypeOK, NEW m \in Message, Stores(m), NEW i \in DOMAIN messages, Overtaken(i)
    PROVE  Overtaken(i)'
<1>1. PICK K : K = {k \in DOMAIN messages : k > i /\ messages[k].chat = messages[i].chat}
  OBVIOUS
<1>2. PICK L : L = {k \in DOMAIN messages' : k > i /\ messages'[k].chat = messages'[i].chat}
  OBVIOUS
<1>3. K \subseteq L
  BY <1>1, <1>2, Appended DEF Stores
<1>4. IsFiniteSet(L)
  <2>1. DOMAIN messages' = 1..(Len(messages) + 1) /\ Len(messages) \in Nat
    BY Appended, Values DEF Stores
  <2>2. IsFiniteSet(DOMAIN messages')
    BY <2>1, FS_Interval
  <2> QED BY <1>2, <2>2, FS_Subset
<1>5. /\ Cardinality(K) \in Nat /\ Cardinality(L) \in Nat
      /\ Cardinality(K) <= Cardinality(L)
  BY <1>3, <1>4, FS_Subset, FS_CardinalityType
<1>6. Cardinality(K) >= MaxCount /\ MaxCount \in Nat
  BY <1>1, SizesAssumption DEF Overtaken
<1> QED BY <1>2, <1>5, <1>6 DEF Overtaken

\* A reason stays one.
LEMMA ReasonKept ==
    ASSUME TypeOK, NEW m \in Message, Stores(m), NEW i \in DOMAIN messages,
           NEW j \in DOMAIN messages, NEW c \in Conns, Reason(c, i, j)
    PROVE  Reason(c, i, j)'
<1>1. UNCHANGED cut
  BY DEF Stores, history
<1> QED BY <1>1, OvertakenKept, Appended DEF Reason, Stores

\* The new message comes after all that the peer has, so that times passed stay so.
LEMMA PassKept ==
    ASSUME TypeOK, NEW m \in Message, Stores(m), NEW c \in Conns, NEW T \in 0..MaxClock,
           NEW D \in SUBSET (DOMAIN messages), MayPass(c, T, D)
    PROVE  /\ T <= first_ts'[c] \/ \E j \in D : ts(j)' >= T
           /\ \A i \in DOMAIN messages' : first_ts'[c] < ts(i)' /\ ts(i)' <= T =>
                 i \in D \/ \E j \in D : Reason(c, i, j)'
<1>1. first_ts' = first_ts
  BY DEF Stores, conn
<1>2. PICK n : n = Len(messages) + 1
  OBVIOUS
<1>3. /\ DOMAIN messages' = DOMAIN messages \cup {n} /\ messages'[n] = m
      /\ \A i \in DOMAIN messages : messages'[i] = messages[i] /\ ts(i)' = ts(i)
  BY <1>2, Appended DEF Stores
<1>4. /\ \A i \in DOMAIN messages : i < n /\ ts(i) \in 1..MaxClock /\ i \in Nat
      /\ n \in Nat
  BY <1>2, Values
<1>5. ts(n)' \in 1..MaxClock /\ first_ts[c] \in 0..MaxClock /\ MaxClock \in Nat
  BY <1>3, BoundsAssumption DEF ts, Message, Times, TypeOK
<1>6. T <= first_ts'[c] \/ \E j \in D : ts(j)' >= T
  BY <1>1, <1>3 DEF MayPass
<1>7. ASSUME first_ts'[c] < ts(n)', ts(n)' <= T
      PROVE  \E j \in D : Reason(c, n, j)'
  <2>1. PICK j \in D : ts(j)' >= T
    BY <1>1, <1>5, <1>6, <1>7
  <2>2. ts(j)' >= ts(n)' /\ j < n
    BY <1>3, <1>4, <1>5, <1>7, <2>1
  <2> QED BY <2>2 DEF Reason
<1>8. ASSUME NEW i \in DOMAIN messages, first_ts'[c] < ts(i)', ts(i)' <= T
      PROVE  i \in D \/ \E j \in D : Reason(c, i, j)'
  BY <1>1, <1>3, <1>8, ReasonKept DEF MayPass
<1> QED BY <1>3, <1>6, <1>7, <1>8

\* Storing a message.
LEMMA StoresConn ==
    ASSUME TypeOK, BatchInv, NEW m \in Message, Stores(m), NEW c \in Conns, ConnInv(c)
    PROVE  ConnInv(c)'
<1>1. UNCHANGED <<conn, polls, writes, history>>
  BY DEF Stores
<1>2. UNCHANGED <<state, first_ts, params_ts, newest, armed, polls, writes, delivered, overlapped, clashed>>
  BY <1>1 DEF conn, history
<1>3. /\ \A p \in Pollers : PollOf(p, c)' = PollOf(p, c)
      /\ \A k \in Slots : WriteOf(k, c)' = WriteOf(k, c)
  BY <1>2 DEF PollOf, WriteOf
<1>4. \A i \in DOMAIN messages : ts(i)' = ts(i)
  BY Appended DEF Stores
<1>5. delivered[c] \subseteq DOMAIN messages
  BY DEF TypeOK
<1>6. \A k \in Slots : WriteOf(k, c) =>
          writes[k].batch \subseteq DOMAIN messages /\ writes[k].max_ts \in 0..MaxClock
  BY Values DEF BatchInv, WriteOf
<1>7. params_ts[c] \in 0..MaxClock /\ newest[c] \in 0..MaxClock
  BY DEF TypeOK
<1>8. Quiet(c)' = Quiet(c)
  BY <1>3 DEF Quiet
<1>9. Fresh(c)'
  BY <1>2, <1>8 DEF ConnInv, Fresh
<1>10. ~overlapped'[c] => InTime(c)'
  BY <1>2, <1>3, <1>4, <1>5, <1>6, <1>8 DEF ConnInv, InTime
<1>11. ASSUME NEW T \in 0..MaxClock, NEW D \in SUBSET (DOMAIN messages), MayPass(c, T, D)
       PROVE  /\ T <= first_ts'[c] \/ \E j \in D : ts(j)' >= T
              /\ \A i \in DOMAIN messages' : first_ts'[c] < ts(i)' /\ ts(i)' <= T =>
                    i \in D \/ \E j \in D : Reason(c, i, j)'
  BY <1>11, PassKept
<1>12. CASE state[c] = "idle" /\ ~clashed[c]
  <2>0. /\ MayPass(c, params_ts[c], delivered[c]) /\ MayPass(c, newest[c], delivered[c])
        /\ \A k \in Slots : WriteOf(k, c) =>
              MayPass(c, writes[k].max_ts, delivered[c] \cup writes[k].batch)
        /\ \A p \in Pollers : PollOf(p, c) => polls[p].ts <= params_ts[c]
    BY <1>12 DEF ConnInv, Passes
  <2>1. /\ params_ts'[c] <= first_ts'[c] \/ \E j \in delivered'[c] : ts(j)' >= params_ts'[c]
        /\ \A i \in DOMAIN messages' : first_ts'[c] < ts(i)' /\ ts(i)' <= params_ts'[c] =>
                 i \in delivered'[c] \/ \E j \in delivered'[c] : Reason(c, i, j)'
    BY <1>2, <1>5, <1>7, <1>11, <2>0
  <2>2. /\ newest'[c] <= first_ts'[c] \/ \E j \in delivered'[c] : ts(j)' >= newest'[c]
        /\ \A i \in DOMAIN messages' : first_ts'[c] < ts(i)' /\ ts(i)' <= newest'[c] =>
                 i \in delivered'[c] \/ \E j \in delivered'[c] : Reason(c, i, j)'
    BY <1>2, <1>5, <1>7, <1>11, <2>0
  <2>3. ASSUME NEW k \in Slots, WriteOf(k, c)
        PROVE  MayPass(c, writes[k].max_ts, delivered[c] \cup writes[k].batch)'
    <3>1. PICK D : D = delivered[c] \cup writes[k].batch
      OBVIOUS
    <3>2. D \in SUBSET (DOMAIN messages) /\ writes[k].max_ts \in 0..MaxClock
      BY <1>5, <1>6, <2>3, <3>1
    <3>3. MayPass(c, writes[k].max_ts, D)
      BY <2>0, <2>3, <3>1
    <3> QED BY <1>2, <1>11, <3>1, <3>2, <3>3 DEF MayPass
  <2>4. \A p \in Pollers : PollOf(p, c)' => polls'[p].ts <= params_ts'[c]
    BY <1>2, <1>3, <2>0
  <2>5. MayPass(c, params_ts[c], delivered[c])' /\ MayPass(c, newest[c], delivered[c])'
    BY <2>1, <2>2 DEF MayPass
  <2>6. Passes(c)'
    BY <1>3, <2>3, <2>4, <2>5 DEF Passes
  <2> QED BY <1>2, <1>9, <1>10, <2>6 DEF ConnInv
<1>13. CASE ~(state[c] = "idle" /\ ~clashed[c])
  BY <1>2, <1>9, <1>10, <1>13 DEF ConnInv, Passes
<1> QED BY <1>12, <1>13
--------------------------------------------------------------------------------
(* What the polls take *)

\* A poll that does not change keeps what it took.
LEMMA TakenFramed ==
    ASSUME TypeOK, NEW p \in Pollers, Taken(p), UNCHANGED messages,
           \A c \in Conns : cut[c] \subseteq cut'[c],
           polls'[p] = polls[p] \/ polls'[p] = NoPoll \/ polls'[p].batch = {}
    PROVE  Taken(p)'
<1>1. \A i : ts(i)' = ts(i) /\ Overtaken(i)' = Overtaken(i)
  BY DEF ts, Overtaken
<1>2. polls[p] # NoPoll => cut[polls[p].conn] \subseteq cut'[polls[p].conn]
  BY Values
<1> QED BY <1>1, <1>2 DEF Taken

\* A message that is stored later is none of those a poll passed over.
LEMMA TakenStores ==
    ASSUME TypeOK, BatchInv, NEW p \in Pollers, Taken(p), NEW m \in Message, Stores(m)
    PROVE  Taken(p)'
<1>1. SUFFICES ASSUME polls[p] # NoPoll, NEW j \in polls[p].batch
               PROVE  /\ ts(j)' > polls[p].ts
                      /\ \A i \in DOMAIN messages' :
                            i < j /\ messages'[i].chat = messages'[j].chat /\ ts(i)' > polls[p].ts =>
                                i \in polls[p].batch \/ Overtaken(i)' \/ i \in cut[polls[p].conn]
  BY DEF Taken, Stores, history
<1>2. PICK n : n = Len(messages) + 1
  OBVIOUS
<1>3. /\ DOMAIN messages' = DOMAIN messages \cup {n}
      /\ \A i \in DOMAIN messages : messages'[i] = messages[i] /\ ts(i)' = ts(i)
  BY <1>2, Appended DEF Stores
<1>4. j \in DOMAIN messages /\ ~(n < j)
  BY <1>1, <1>2, Values DEF BatchInv
<1>5. ASSUME NEW i \in DOMAIN messages, i < j, messages'[i].chat = messages'[j].chat,
             ts(i)' > polls[p].ts
      PROVE  i \in polls[p].batch \/ Overtaken(i)' \/ i \in cut[polls[p].conn]
  <2>1. i \in polls[p].batch \/ Overtaken(i) \/ i \in cut[polls[p].conn]
    BY <1>1, <1>3, <1>4, <1>5 DEF Taken
  <2> QED BY <2>1, OvertakenKept
<1>6. ts(j)' > polls[p].ts
  BY <1>1, <1>3, <1>4 DEF Taken
<1> QED BY <1>3, <1>4, <1>5, <1>6

\* A poll asks for the messages of one chat.
LEMMA TakenTakes ==
    ASSUME TypeOK, BatchInv, NEW p \in Pollers, Taken(p), NEW G \in SUBSET (DOMAIN messages), Takes(p, G)
    PROVE  Taken(p)'
<1>1. UNCHANGED messages /\ polls[p] # NoPoll
  BY DEF Takes
<1>2. \A i : ts(i)' = ts(i) /\ Overtaken(i)' = Overtaken(i)
  BY <1>1 DEF ts, Overtaken
<1>3. PICK B, t, C, X : /\ B = polls[p].batch /\ t = polls[p].ts /\ C = B \cup G
                        /\ X = cut'[polls[p].conn]
  OBVIOUS
<1>4. polls'[p].batch = C /\ polls'[p].ts = t /\ cut'[polls'[p].conn] = X
  BY <1>3 DEF Takes
<1>5. cut[polls[p].conn] \subseteq X
  BY <1>3 DEF Takes
<1>6. ASSUME NEW j \in G
      PROVE  /\ ts(j) > t
             /\ \A i \in DOMAIN messages :
                   i < j /\ messages[i].chat = messages[j].chat /\ ts(i) > t =>
                       i \in G \/ Overtaken(i) \/ i \in X
  <2>1. PICK chat \in Chats : /\ G \subseteq NewMessages(chat, t)
                              /\ \A i \in NewMessages(chat, t) \ G : Overtaken(i) \/ i \in X
    BY <1>3, <1>6 DEF Takes
  <2>2. messages[j].chat = chat /\ ts(j) > t
    BY <1>6, <2>1 DEF NewMessages, ts
  <2>3. \A i \in DOMAIN messages : messages[i].chat = chat /\ ts(i) > t => i \in NewMessages(chat, t)
    BY DEF NewMessages, ts
  <2> QED BY <2>1, <2>2, <2>3
<1>7. ASSUME NEW j \in B
      PROVE  /\ ts(j) > t
             /\ \A i \in DOMAIN messages :
                   i < j /\ messages[i].chat = messages[j].chat /\ ts(i) > t =>
                       i \in B \/ Overtaken(i) \/ i \in X
  BY <1>1, <1>3, <1>5, <1>7 DEF Taken
<1>8. ASSUME NEW j \in C
      PROVE  /\ ts(j) > t
             /\ \A i \in DOMAIN messages :
                   i < j /\ messages[i].chat = messages[j].chat /\ ts(i) > t =>
                       i \in C \/ Overtaken(i) \/ i \in X
  BY <1>3, <1>6, <1>7, <1>8
<1> QED BY <1>1, <1>2, <1>4, <1>8 DEF Taken

\* Every step keeps what the polls hold.
LEMMA TakenInductive ==
    ASSUME TypeOK, BatchInv, \A p \in Pollers : Taken(p), [Next]_vars
    PROVE  \A p \in Pollers : Taken(p)'
<1>1. CASE UNCHANGED <<messages, polls, cut>>
  BY <1>1, TakenFramed
<1>2. CASE tick \/ (UNCHANGED vars) \/ \E s \in Senders : SendStep(s)
  <2>1. CASE Rests
    BY <1>1, <2>1 DEF Rests, history
  <2>2. ASSUME NEW m \in Message, Stores(m)
        PROVE  \A p \in Pollers : Taken(p)'
    BY <2>2, TakenStores
  <2> QED BY <1>2, <2>1, <2>2, StoreSteps
<1>3. ASSUME NEW c \in Conns, ConnStep(c)
      PROVE  \A p \in Pollers : Taken(p)'
  <2>1. CASE login(c) \/ sendOkResponseAndStartIdle(c) \/ peerCloses(c)
    BY <1>1, <2>1 DEF login, sendOkResponseAndStartIdle, peerCloses, store, history
  <2>2. ASSUME NEW q \in Pollers, NEW ping \in BOOLEAN, timerWaitTaskResultHandler(c, q, ping)
        PROVE  \A p \in Pollers : Taken(p)'
    <3>1. /\ UNCHANGED <<messages, cut>> /\ polls'[q].batch = {}
          /\ \A r \in Pollers \ {q} : polls'[r] = polls[r]
      BY <2>2, TimerFacts DEF store
    <3> QED BY <3>1, TakenFramed
  <2> QED BY <1>3, <2>1, <2>2 DEF ConnStep
<1>4. ASSUME NEW q \in Pollers, PollStep(q)
      PROVE  \A p \in Pollers : Taken(p)'
  <2>1. CASE updateUserHeartBit(q) \/ \E n \in 0..MaxCount : pollChat(q, n)
    <3>1. PICK G : G \subseteq DOMAIN messages /\ Takes(q, G)
      BY <2>1, PollTakes
    <3>2. Taken(q)'
      BY <3>1, TakenTakes
    <3>3. /\ UNCHANGED messages /\ \A r \in Pollers \ {q} : polls'[r] = polls[r]
          /\ \A c \in Conns : cut[c] \subseteq cut'[c]
      BY <3>1 DEF Takes
    <3> QED BY <3>2, <3>3, TakenFramed
  <2>2. CASE pollEnd(q) \/ lookup_check_pass(q)
    <3>1. PICK c \in Conns : Ends(q, c)
      BY <2>2, PollEnds
    <3>2. /\ UNCHANGED <<messages, cut>> /\ polls'[q] = NoPoll
          /\ \A r \in Pollers \ {q} : polls'[r] = polls[r]
      BY <3>1 DEF Ends, store
    <3> QED BY <3>2, TakenFramed
  <2> QED BY <1>4, <2>1, <2>2 DEF PollStep
<1>5. ASSUME NEW k \in Slots, WriteStep(k)
      PROVE  \A p \in Pollers : Taken(p)'
  <2>1. UNCHANGED <<messages, polls, cut>>
    BY <1>5 DEF WriteStep, writeDone, writeFails, store, history
  <2> QED BY <1>1, <2>1
<1> QED BY <1>2, <1>3, <1>4, <1>5 DEF Next
--------------------------------------------------------------------------------
(* The steps of a connection *)

\* What the peer gets more of does not take a reason away.
LEMMA PassGrows ==
    ASSUME NEW c \in Conns, NEW T, NEW D, NEW E, D \subseteq E, MayPass(c, T, D)
    PROVE  MayPass(c, T, E)
BY DEF MayPass

\* Login, the request to be idle, and the end of the peer.
LEMMA StateConn ==
    ASSUME TypeOK, NEW c \in Conns, ConnInv(c),
           login(c) \/ sendOkResponseAndStartIdle(c) \/ peerCloses(c)
    PROVE  ConnInv(c)'
<1>1. CASE login(c)
  <2>1. /\ state[c] = "new" /\ state'[c] = "login"
        /\ UNCHANGED <<messages, params_ts, newest, armed, polls, writes, delivered, overlapped>>
    BY <1>1 DEF login, TypeOK, store, history
  <2>2. /\ newest'[c] = 0 /\ params_ts'[c] = 0 /\ ~armed'[c]
        /\ delivered'[c] = {} /\ Quiet(c)'
    BY <2>1 DEF ConnInv, Fresh, PollOf, WriteOf, Quiet
  <2> QED BY <2>1, <2>2 DEF ConnInv, Fresh, InTime, Passes, Quiet
<1>2. CASE sendOkResponseAndStartIdle(c)
  <2>1. /\ state[c] = "login" /\ state'[c] = "idle" /\ params_ts'[c] = first_ts[c]
        /\ asyncWrite(c, "answer", {}, 0)
        /\ UNCHANGED <<messages, first_ts, newest, polls, delivered, overlapped>>
    BY <1>2 DEF sendOkResponseAndStartIdle, TypeOK, store
  <2>2. newest'[c] = 0 /\ delivered'[c] = {} /\ Quiet(c)
    BY <2>1 DEF ConnInv, Fresh
  <2>3. PICK k \in Slots : Starts(k, c, "answer", {}, 0)
    BY <2>1, WriteStarts, BoundsAssumption
  <2>4. /\ \A p \in Pollers : ~PollOf(p, c)'
        /\ \A l \in Slots : WriteOf(l, c)' => l = k /\ writes'[l].batch = {} /\ writes'[l].max_ts = 0
    BY <2>1, <2>2, <2>3 DEF Quiet, PollOf, WriteOf, Starts
  <2>5. Fresh(c)' /\ InTime(c)'
    BY <2>1, <2>2, <2>4 DEF Fresh, InTime
  <2>6. first_ts[c] \in Nat /\ \A i \in DOMAIN messages : ts(i) \in Nat \ {0}
    BY Values, BoundsAssumption DEF TypeOK
  <2>7. \A i : ts(i)' = ts(i)
    BY <2>1 DEF ts
  <2>8. MayPass(c, params_ts[c], delivered[c])' /\ MayPass(c, newest[c], delivered[c])'
    BY <2>1, <2>2, <2>6, <2>7 DEF MayPass
  <2>9. ASSUME NEW l \in Slots, WriteOf(l, c)'
        PROVE  MayPass(c, writes[l].max_ts, delivered[c] \cup writes[l].batch)'
    BY <2>1, <2>4, <2>6, <2>7, <2>9 DEF MayPass
  <2> QED BY <2>4, <2>5, <2>8, <2>9 DEF ConnInv, Passes
<1>3. CASE peerCloses(c)
  <2>1. /\ state'[c] = "gone"
        /\ UNCHANGED <<messages, params_ts, newest, polls, writes, delivered, overlapped>>
    BY <1>3 DEF peerCloses, TypeOK, store, history
  <2>2. ~overlapped'[c] => InTime(c)'
    BY <2>1 DEF ConnInv, InTime, PollOf, WriteOf, Quiet, ts
  <2> QED BY <2>1, <2>2 DEF ConnInv, Fresh, Passes
<1> QED BY <1>1, <1>2, <1>3

\* The timer starts a poll for what is newer than the newest message the peer has.
LEMMA TimerConn ==
    ASSUME TypeOK, NEW c \in Conns, ConnInv(c), NEW p \in Pollers, NEW ping \in BOOLEAN,
           timerWaitTaskResultHandler(c, p, ping)
    PROVE  ConnInv(c)'
<1>1. PICK T : T = Newer(c)
  OBVIOUS
<1>2. /\ armed[c] /\ polls[p] = NoPoll /\ T >= newest[c] /\ T >= params_ts[c]
      /\ T \in {newest[c], params_ts[c]} /\ params_ts'[c] = T
      /\ polls'[p].conn = c /\ polls'[p].ts = T
      /\ \A r \in Pollers \ {p} : polls'[r] = polls[r]
      /\ overlapped'[c] = (overlapped[c] \/ ~Quiet(c))
      /\ UNCHANGED <<store, state, first_ts, newest, armed, writes, delivered, clashed, cut>>
  BY <1>1, TimerFacts
<1>3. /\ T \in 0..MaxClock /\ newest[c] \in 0..MaxClock /\ params_ts[c] \in 0..MaxClock
      /\ MaxClock \in Nat
  BY <1>2, BoundsAssumption DEF TypeOK
<1>4. UNCHANGED <<messages, state, first_ts, newest, armed, writes, delivered, clashed, cut>>
  BY <1>2 DEF store
<1>5. \A i : ts(i)' = ts(i)
  BY <1>4 DEF ts
<1>6. Fresh(c)'
  BY <1>2, <1>4 DEF ConnInv, Fresh
<1>7. ASSUME ~overlapped'[c]
      PROVE  InTime(c)'
  <2>1. ~overlapped[c] /\ Quiet(c)
    BY <1>2, <1>7
  <2>2. \A r \in Pollers : PollOf(r, c)' => r = p
    BY <1>2, <2>1 DEF PollOf, Quiet
  <2>3. \A k \in Slots : ~WriteOf(k, c)'
    BY <1>4, <2>1 DEF Quiet, WriteOf
  <2>4. \A j \in delivered[c] : ts(j) \in Nat /\ (ts(j) <= params_ts[c] \/ ts(j) <= newest[c])
    <3>1. \A j \in delivered[c] : ts(j) \in Nat
      BY Values, BoundsAssumption DEF TypeOK
    <3> QED BY <2>1, <3>1 DEF ConnInv, InTime
  <2>5. \A j \in delivered'[c] : ts(j)' <= params_ts'[c]
    BY <1>2, <1>3, <1>4, <1>5, <2>4
  <2> QED BY <1>2, <2>2, <2>3, <2>5 DEF InTime
<1>8. ASSUME state[c] = "idle", ~clashed[c]
      PROVE  Passes(c)'
  <2>1. MayPass(c, T, delivered[c]) /\ MayPass(c, newest[c], delivered[c])
    BY <1>2, <1>8 DEF ConnInv, Passes
  <2>2. MayPass(c, params_ts[c], delivered[c])'
    <3>1. params_ts'[c] = T /\ delivered'[c] = delivered[c] /\ first_ts'[c] = first_ts[c]
      BY <1>2, <1>4
    <3>2. /\ T <= first_ts'[c] \/ \E j \in delivered[c] : ts(j)' >= T
          /\ \A i \in DOMAIN messages' : first_ts'[c] < ts(i)' /\ ts(i)' <= T =>
                i \in delivered[c] \/ \E j \in delivered[c] : Reason(c, i, j)'
      BY <1>4, <2>1, <3>1, PassSame
    <3> QED BY <3>1, <3>2 DEF MayPass
  <2>3. MayPass(c, newest[c], delivered[c])'
    BY <1>4, <2>1, PassSame DEF MayPass
  <2>4. ASSUME NEW k \in Slots, WriteOf(k, c)'
        PROVE  MayPass(c, writes[k].max_ts, delivered[c] \cup writes[k].batch)'
    <3>1. WriteOf(k, c) /\ writes'[k] = writes[k]
      BY <1>4, <2>4 DEF WriteOf
    <3>2. MayPass(c, writes[k].max_ts, delivered[c] \cup writes[k].batch)
      BY <1>8, <3>1 DEF ConnInv, Passes
    <3> QED BY <1>4, <3>1, <3>2, WritePassed
  <2>5. ASSUME NEW r \in Pollers, PollOf(r, c)'
        PROVE  polls'[r].ts <= params_ts'[c]
    <3>1. CASE r = p
      BY <1>2, <1>3, <3>1
    <3>2. CASE r # p
      <4>1. polls'[r] = polls[r] /\ PollOf(r, c)
        BY <1>2, <2>5, <3>2 DEF PollOf
      <4>2. polls[r].ts <= params_ts[c] /\ polls[r].ts \in 0..MaxClock
        BY <1>8, <4>1, Values DEF ConnInv, Passes, PollOf
      <4> QED BY <1>2, <1>3, <4>1, <4>2
    <3> QED BY <3>1, <3>2
  <2> QED BY <1>4, <2>2, <2>3, <2>4, <2>5 DEF Passes
<1> QED BY <1>4, <1>6, <1>7, <1>8 DEF ConnInv, Passes

\* A poll asks for the messages of one chat: the connection does not notice.
LEMMA TakesConn ==
    ASSUME TypeOK, NEW p \in Pollers, NEW G \in SUBSET (DOMAIN messages), Takes(p, G),
           NEW c \in Conns, c = polls[p].conn, ConnInv(c)
    PROVE  ConnInv(c)'
<1>1. UNCHANGED <<messages, state, first_ts, params_ts, newest, armed, writes, delivered, overlapped, clashed>>
  BY DEF Takes, conn
<1>2. /\ \A r \in Pollers : PollOf(r, c)' = PollOf(r, c)
      /\ \A k \in Slots : WriteOf(k, c)' = WriteOf(k, c)
  BY <1>1 DEF Takes, PollOf, WriteOf
<1>3. \A r \in Pollers : PollOf(r, c) => polls'[r].ts = polls[r].ts
  BY DEF Takes, PollOf
<1>4. Quiet(c)' = Quiet(c)
  BY <1>2 DEF Quiet
<1>5. \A i : ts(i)' = ts(i)
  BY <1>1 DEF ts
<1>6. Fresh(c)'
  BY <1>1, <1>4 DEF ConnInv, Fresh
<1>7. ~overlapped'[c] => InTime(c)'
  BY <1>1, <1>2, <1>3, <1>4, <1>5 DEF ConnInv, InTime
<1>8. ASSUME state[c] = "idle", ~clashed[c]
      PROVE  Passes(c)'
  <2>0. /\ MayPass(c, params_ts[c], delivered[c]) /\ MayPass(c, newest[c], delivered[c])
        /\ \A k \in Slots : WriteOf(k, c) =>
              MayPass(c, writes[k].max_ts, delivered[c] \cup writes[k].batch)
        /\ \A r \in Pollers : PollOf(r, c) => polls[r].ts <= params_ts[c]
    BY <1>8 DEF ConnInv, Passes
  <2>1. Stays(c)
    BY <1>1 DEF Stays, Takes
  <2>2. MayPass(c, params_ts[c], delivered[c])' /\ MayPass(c, newest[c], delivered[c])'
    BY <2>0, <2>1, StaysPassed
  <2>3. ASSUME NEW k \in Slots, WriteOf(k, c)'
        PROVE  MayPass(c, writes[k].max_ts, delivered[c] \cup writes[k].batch)'
    BY <1>1, <1>2, <2>0, <2>1, <2>3, WritePassed DEF Stays
  <2>4. \A r \in Pollers : PollOf(r, c)' => polls'[r].ts <= params_ts'[c]
    BY <1>1, <1>2, <1>3, <2>0
  <2> QED BY <2>2, <2>3, <2>4 DEF Passes
<1> QED BY <1>1, <1>6, <1>7, <1>8 DEF ConnInv, Passes

\* With the messages of a poll the peer has all up to the newest of them, but for those
\* passed over for a reason.
LEMMA BatchPasses ==
    ASSUME TypeOK, BatchInv, NEW p \in Pollers, Taken(p), NEW c \in Conns, PollOf(p, c),
           MayPass(c, params_ts[c], delivered[c]), polls[p].ts <= params_ts[c]
    PROVE  MayPass(c, max_timestamp(polls[p].batch), delivered[c] \cup polls[p].batch)
<1>1. PICK B, D, m, t, P : /\ B = polls[p].batch /\ D = delivered[c] /\ m = max_timestamp(B)
                           /\ t = polls[p].ts /\ P = params_ts[c]
  OBVIOUS
<1>2. polls[p] # NoPoll /\ B \subseteq DOMAIN messages
  BY <1>1 DEF PollOf, BatchInv
<1>3. m \in 0..MaxClock /\ (\A i \in B : ts(i) <= m) /\ (m = 0 \/ \E i \in B : ts(i) = m)
  BY <1>1, <1>2, MaxTimestamp
<1>4. /\ MaxClock \in Nat /\ P \in 0..MaxClock /\ t \in 0..MaxClock /\ first_ts[c] \in 0..MaxClock
      /\ t <= P
  BY <1>1, <1>2, Values, BoundsAssumption DEF TypeOK
<1>5. \A i \in DOMAIN messages : ts(i) \in 1..MaxClock /\ i \in Nat
  BY Values
<1>6. m <= first_ts[c] \/ \E j \in D \cup B : ts(j) >= m
  BY <1>2, <1>3, <1>4
<1>7. ASSUME NEW i \in DOMAIN messages, first_ts[c] < ts(i), ts(i) <= m
      PROVE  i \in D \cup B \/ \E j \in D \cup B : Reason(c, i, j)
  <2>1. CASE ts(i) <= P
    BY <1>1, <1>7, <2>1 DEF MayPass
  <2>2. CASE ~(ts(i) <= P)
    <3>1. PICK j \in B : ts(j) = m
      BY <1>3, <1>5, <1>7
    <3>2. ts(j) >= ts(i) /\ ts(i) > t /\ j \in DOMAIN messages
      BY <1>2, <1>3, <1>4, <1>5, <1>7, <2>2, <3>1
    <3>3. CASE j < i \/ messages[j].chat # messages[i].chat
      BY <3>1, <3>2, <3>3 DEF Reason
    <3>4. CASE ~(j < i) /\ messages[j].chat = messages[i].chat
      <4>1. i = j \/ i < j
        BY <1>5, <3>2, <3>4
      <4>2. CASE i < j
        <5>1. i \in B \/ Overtaken(i) \/ i \in cut[c]
          BY <1>1, <1>2, <3>2, <3>4, <4>2 DEF Taken, PollOf
        <5> QED BY <3>1, <3>2, <5>1 DEF Reason
      <4> QED BY <4>1, <4>2
    <3> QED BY <3>3, <3>4
  <2> QED BY <2>1, <2>2
<1>8. MayPass(c, m, D \cup B)
  BY <1>6, <1>7 DEF MayPass
<1> QED BY <1>1, <1>8

\* The poll ends.
LEMMA EndsConn ==
    ASSUME TypeOK, BatchInv, NEW p \in Pollers, Taken(p), NEW c \in Conns, Ends(p, c), ConnInv(c)
    PROVE  ConnInv(c)'
<1>1. UNCHANGED <<messages, state, first_ts, params_ts, newest, armed, delivered, overlapped, cut>>
  BY DEF Ends, store, conn
<1>2. /\ PollOf(p, c) /\ polls'[p] = NoPoll
      /\ \A r \in Pollers \ {p} : polls'[r] = polls[r]
      /\ polls[p].batch \subseteq DOMAIN messages
  BY DEF Ends, PollOf, BatchInv
<1>3. \A r \in Pollers : PollOf(r, c)' => PollOf(r, c) /\ r # p /\ polls'[r] = polls[r]
  BY <1>2 DEF PollOf
<1>4. \/ UNCHANGED <<writes, clashed>>
      \/ \E k \in Slots : /\ \A l \in Slots \ {k} : writes'[l] = writes[l]
                          /\ \/ writes'[k].batch = {} /\ writes'[k].max_ts = 0
                             \/ /\ writes'[k].batch = polls[p].batch
                                /\ writes'[k].max_ts = max_timestamp(polls[p].batch)
  BY DEF Ends, Writes, Starts
<1>5. PICK k : \A l \in Slots : WriteOf(l, c)' =>
          \/ WriteOf(l, c) /\ writes'[l] = writes[l]
          \/ l = k /\ writes'[l].batch = {} /\ writes'[l].max_ts = 0
          \/ l = k /\ writes'[l].batch = polls[p].batch /\ writes'[l].max_ts = max_timestamp(polls[p].batch)
  BY <1>4 DEF WriteOf
<1>6. clashed[c] => clashed'[c]
  BY DEF Ends, Writes, Starts
<1>7. \A i : ts(i)' = ts(i)
  BY <1>1 DEF ts
<1>8. Fresh(c)'
  BY <1>1, <1>2 DEF ConnInv, Fresh, Quiet
<1>9. ASSUME ~overlapped'[c]
      PROVE  InTime(c)'
  <2>1. InTime(c)
    BY <1>1, <1>9 DEF ConnInv
  <2>2. /\ polls[p].ts = params_ts[c] /\ (\A l \in Slots : ~WriteOf(l, c))
        /\ \A r \in Pollers : PollOf(r, c) => r = p
    BY <1>2, <2>1 DEF InTime
  <2>3. \A r \in Pollers : ~PollOf(r, c)'
    BY <1>3, <2>2
  <2>4. \A j \in delivered'[c] : ts(j)' <= params_ts'[c]
    BY <1>1, <1>2, <1>7, <2>1 DEF InTime, Quiet
  <2>5. \A i \in polls[p].batch : ts(i) > params_ts[c]
    BY <1>2, <2>2 DEF Taken, PollOf
  <2>6. \A l \in Slots : WriteOf(l, c)' =>
            /\ \A i \in writes'[l].batch : ts(i)' > params_ts'[c]
            /\ l = k
    BY <1>1, <1>5, <1>7, <2>2, <2>5
  <2> QED BY <2>3, <2>4, <2>6 DEF InTime
<1>10. ASSUME state[c] = "idle", ~clashed[c]
       PROVE  Passes(c)'
  <2>0. /\ MayPass(c, params_ts[c], delivered[c]) /\ MayPass(c, newest[c], delivered[c])
        /\ \A l \in Slots : WriteOf(l, c) =>
              MayPass(c, writes[l].max_ts, delivered[c] \cup writes[l].batch)
        /\ \A r \in Pollers : PollOf(r, c) => polls[r].ts <= params_ts[c]
    BY <1>10 DEF ConnInv, Passes
  <2>1. Stays(c)
    BY <1>1 DEF Stays
  <2>2. MayPass(c, params_ts[c], delivered[c])' /\ MayPass(c, newest[c], delivered[c])'
    BY <2>0, <2>1, StaysPassed
  <2>3. ASSUME NEW l \in Slots, WriteOf(l, c)'
        PROVE  MayPass(c, writes[l].max_ts, delivered[c] \cup writes[l].batch)'
    <3>1. CASE WriteOf(l, c) /\ writes'[l] = writes[l]
      BY <1>1, <2>0, <3>1, WritePassed
    <3>2. CASE \/ writes'[l].batch = {} /\ writes'[l].max_ts = 0
               \/ /\ writes'[l].batch = polls[p].batch
                  /\ writes'[l].max_ts = max_timestamp(polls[p].batch)
      <4>1. PICK D, m : D = delivered[c] \cup writes'[l].batch /\ m = writes'[l].max_ts
        OBVIOUS
      <4>2. MayPass(c, m, D)
        <5>1. CASE writes'[l].batch = {} /\ writes'[l].max_ts = 0
          <6>1. first_ts[c] \in Nat /\ \A i \in DOMAIN messages : ts(i) \in Nat \ {0}
            BY Values, BoundsAssumption DEF TypeOK
          <6> QED BY <4>1, <5>1, <6>1 DEF MayPass
        <5>2. CASE /\ writes'[l].batch = polls[p].batch
                   /\ writes'[l].max_ts = max_timestamp(polls[p].batch)
          BY <1>2, <2>0, <4>1, <5>2, BatchPasses
        <5> QED BY <3>2, <5>1, <5>2
      <4>3. /\ m <= first_ts'[c] \/ \E j \in D : ts(j)' >= m
            /\ \A i \in DOMAIN messages' : first_ts'[c] < ts(i)' /\ ts(i)' <= m =>
                  i \in D \/ \E j \in D : Reason(c, i, j)'
        BY <1>1, <4>2, PassSame
      <4>4. delivered'[c] = delivered[c]
        BY <1>1
      <4> QED BY <4>1, <4>3, <4>4 DEF MayPass
    <3> QED BY <1>5, <2>3, <3>1, <3>2
  <2>4. \A r \in Pollers : PollOf(r, c)' => polls'[r].ts <= params_ts'[c]
    BY <1>1, <1>3, <2>0
  <2> QED BY <2>2, <2>3, <2>4 DEF Passes
<1>11. Passes(c)'
  <2>1. CASE state[c] = "idle" /\ ~clashed[c]
    BY <1>10, <2>1
  <2>2. CASE ~(state[c] = "idle" /\ ~clashed[c])
    BY <1>1, <1>6, <2>2 DEF Passes
  <2> QED BY <2>1, <2>2
<1> QED BY <1>8, <1>9, <1>11 DEF ConnInv

\* The end of the write: the peer has what was written.
LEMMA WriteConn ==
    ASSUME TypeOK, BatchInv, NEW k \in Slots, NEW c \in Conns, NEW D, WriteEnds(k, c, D), ConnInv(c)
    PROVE  ConnInv(c)'
<1>1. /\ UNCHANGED <<messages, state, first_ts, params_ts, polls, overlapped, clashed, cut>>
      /\ delivered'[c] = D /\ WriteOf(k, c) /\ writes'[k] = NoWrite
      /\ \A l \in Slots \ {k} : writes'[l] = writes[l]
      /\ delivered[c] \subseteq D
  BY DEF WriteEnds, store
<1>2. /\ \A r \in Pollers : PollOf(r, c)' = PollOf(r, c)
      /\ \A l \in Slots : WriteOf(l, c)' => l # k /\ WriteOf(l, c) /\ writes'[l] = writes[l]
  BY <1>1 DEF PollOf, WriteOf
<1>3. \A i : ts(i)' = ts(i)
  BY <1>1 DEF ts
<1>4. Fresh(c)'
  BY <1>1 DEF ConnInv, Fresh, Quiet
<1>5. ASSUME ~overlapped'[c]
      PROVE  InTime(c)'
  <2>1. InTime(c)
    BY <1>1, <1>5 DEF ConnInv
  <2>2. (\A r \in Pollers : ~PollOf(r, c)) /\ \A l \in Slots : WriteOf(l, c) => l = k
    BY <1>1, <2>1 DEF InTime
  <2>3. Quiet(c)'
    BY <1>2, <2>2 DEF Quiet
  <2>4. \A j \in delivered[c] : ts(j) <= params_ts[c]
    BY <1>1, <2>1 DEF InTime, Quiet
  <2>5. \A j \in writes[k].batch : ts(j) <= writes[k].max_ts
    BY <1>1 DEF BatchInv, WriteOf
  <2>6. \A j \in D : ts(j) <= params_ts[c] \/ ts(j) <= newest'[c]
    <3>1. CASE D = delivered[c]
      BY <2>4, <3>1
    <3>2. CASE D # delivered[c]
      <4>1. D = delivered[c] \cup writes[k].batch /\ newest'[c] = writes[k].max_ts
        BY <3>2 DEF WriteEnds
      <4> QED BY <2>4, <2>5, <4>1
    <3> QED BY <3>1, <3>2
  <2>7. \A l \in Slots : ~WriteOf(l, c)'
    BY <1>2, <2>2
  <2> QED BY <1>1, <1>2, <1>3, <2>2, <2>3, <2>6, <2>7 DEF InTime
<1>6. ASSUME state[c] = "idle", ~clashed[c]
      PROVE  Passes(c)'
  <2>0. /\ MayPass(c, params_ts[c], delivered[c]) /\ MayPass(c, newest[c], delivered[c])
        /\ \A l \in Slots : WriteOf(l, c) =>
              MayPass(c, writes[l].max_ts, delivered[c] \cup writes[l].batch)
        /\ \A r \in Pollers : PollOf(r, c) => polls[r].ts <= params_ts[c]
    BY <1>6 DEF ConnInv, Passes
  <2>1. D = delivered[c] \cup writes[k].batch /\ newest'[c] \in {newest[c], writes[k].max_ts}
    BY <1>6 DEF WriteEnds
  <2>2. MayPass(c, params_ts[c], D) /\ MayPass(c, newest'[c], D)
    <3>1. MayPass(c, writes[k].max_ts, D) /\ MayPass(c, params_ts[c], D) /\ MayPass(c, newest[c], D)
      BY <1>1, <2>0, <2>1, PassGrows
    <3> QED BY <2>1, <3>1
  <2>3. MayPass(c, params_ts[c], delivered[c])'
    BY <1>1, <2>2, PassSame DEF MayPass
  <2>4. MayPass(c, newest[c], delivered[c])'
    <3>1. PICK t : t = newest'[c]
      OBVIOUS
    <3>2. MayPass(c, t, D)
      BY <2>2, <3>1
    <3>3. /\ t <= first_ts'[c] \/ \E j \in D : ts(j)' >= t
          /\ \A i \in DOMAIN messages' : first_ts'[c] < ts(i)' /\ ts(i)' <= t =>
                i \in D \/ \E j \in D : Reason(c, i, j)'
      BY <1>1, <3>2, PassSame
    <3> QED BY <1>1, <3>1, <3>3 DEF MayPass
  <2>5. \A r \in Pollers : PollOf(r, c)' => polls'[r].ts <= params_ts'[c]
    BY <1>1, <1>2, <2>0
  <2>6. ASSUME NEW l \in Slots, WriteOf(l, c)'
        PROVE  MayPass(c, writes[l].max_ts, delivered[c] \cup writes[l].batch)'
    BY <1>1, <1>2, <2>0, <2>6, WritePassed
  <2> QED BY <2>3, <2>4, <2>5, <2>6 DEF Passes
<1> QED BY <1>1, <1>4, <1>5, <1>6 DEF ConnInv, Passes
--------------------------------------------------------------------------------
(* The theorems *)

\* Init establishes the invariant.
LEMMA IdleInitially ==
    ASSUME Init
    PROVE  IdleInv
<1>1. /\ messages = <<>> /\ sending = [s \in Senders |-> NoMessage]
      /\ state = [c \in Conns |-> "new"] /\ first_ts = [c \in Conns |-> 0]
      /\ params_ts = [c \in Conns |-> 0] /\ newest = [c \in Conns |-> 0]
      /\ armed = [c \in Conns |-> FALSE] /\ polls = [p \in Pollers |-> NoPoll]
      /\ writes = [k \in Slots |-> NoWrite] /\ delivered = [c \in Conns |-> {}]
      /\ overlapped = [c \in Conns |-> FALSE] /\ clashed = [c \in Conns |-> FALSE]
      /\ cut = [c \in Conns |-> {}] /\ clock = 1 /\ heartbit \in {0, 1}
  BY DEF Init
<1>2. MaxClock \in Nat \ {0} /\ MaxMessages \in Nat
  BY BoundsAssumption
<1>3. /\ armed \in [Conns -> BOOLEAN] /\ overlapped \in [Conns -> BOOLEAN]
      /\ clashed \in [Conns -> BOOLEAN]
  BY <1>1, Zenon
<1>4. /\ messages \in Seq(Message) /\ Len(messages) = 0
      /\ delivered \in [Conns -> SUBSET (DOMAIN messages)]
      /\ cut \in [Conns -> SUBSET (DOMAIN messages)]
  BY <1>1
<1>5. TypeOK
  BY <1>1, <1>2, <1>3, <1>4 DEF TypeOK, Times
<1>6. RoomInv
  <2>1. Stamped = {}
    BY <1>1 DEF Stamped
  <2>2. IsFiniteSet(Stamped) /\ Cardinality(Stamped) = 0
    BY <2>1, FS_EmptySet
  <2> QED BY <1>2, <1>4, <2>2 DEF RoomInv
<1>7. BatchInv /\ \A p \in Pollers : Taken(p)
  BY <1>1 DEF BatchInv, Taken
<1>8. ASSUME NEW c \in Conns
      PROVE  ConnInv(c)
  <2>1. Quiet(c) /\ (\A p \in Pollers : ~PollOf(p, c)) /\ (\A k \in Slots : ~WriteOf(k, c))
    BY <1>1 DEF PollOf, WriteOf, Quiet
  <2>2. ~armed[c]
    BY <1>1, <1>8
  <2>3. /\ state[c] = "new" /\ params_ts[c] = 0 /\ newest[c] = 0
        /\ delivered[c] = {}
    BY <1>1, <1>8
  <2> QED BY <2>1, <2>2, <2>3 DEF ConnInv, Fresh, InTime, Passes
<1> QED BY <1>5, <1>6, <1>7, <1>8 DEF IdleInv

\* Every step keeps the invariant of every connection.
LEMMA ConnInductive ==
    ASSUME TypeOK, BatchInv, \A p \in Pollers : Taken(p), \A c \in Conns : ConnInv(c), [Next]_vars,
           NEW d \in Conns
    PROVE  ConnInv(d)'
<1>1. CASE tick \/ (UNCHANGED vars) \/ \E s \in Senders : SendStep(s)
  <2>1. CASE Rests
    <3>1. Kept(d) /\ UNCHANGED messages
      BY <2>1 DEF Rests, Kept, PollOf, WriteOf, conn, history
    <3> QED BY <3>1, Framed
  <2>2. ASSUME NEW m \in Message, Stores(m)
        PROVE  ConnInv(d)'
    BY <2>2, StoresConn
  <2> QED BY <1>1, <2>1, <2>2, StoreSteps
<1>2. ASSUME NEW c \in Conns, ConnStep(c)
      PROVE  ConnInv(d)'
  <2>1. CASE login(c) \/ sendOkResponseAndStartIdle(c) \/ peerCloses(c)
    BY <2>1, StateConn, OthersKept, Framed
  <2>2. ASSUME NEW p \in Pollers, NEW ping \in BOOLEAN, timerWaitTaskResultHandler(c, p, ping)
        PROVE  ConnInv(d)'
    BY <2>2, TimerConn, OthersKept, Framed
  <2> QED BY <1>2, <2>1, <2>2 DEF ConnStep
<1>3. ASSUME NEW p \in Pollers, PollStep(p)
      PROVE  ConnInv(d)'
  <2>1. CASE updateUserHeartBit(p) \/ \E n \in 0..MaxCount : pollChat(p, n)
    <3>1. PICK G \in SUBSET (DOMAIN messages) : Takes(p, G)
      BY <2>1, PollTakes
    <3>2. PICK c \in Conns : c = polls[p].conn
      BY <3>1, Values DEF Takes
    <3> QED BY <3>1, <3>2, TakesConn, OthersKept, Framed
  <2>2. CASE pollEnd(p) \/ lookup_check_pass(p)
    <3>1. PICK c \in Conns : Ends(p, c)
      BY <2>2, PollEnds
    <3> QED BY <3>1, EndsConn, OthersKept, Framed
  <2> QED BY <1>3, <2>1, <2>2 DEF PollStep
<1>4. ASSUME NEW k \in Slots, WriteStep(k)
      PROVE  ConnInv(d)'
  <2>1. PICK c \in Conns : \E D : WriteEnds(k, c, D)
    BY <1>4, WriteSteps DEF WriteStep
  <2> QED BY <2>1, WriteConn, OthersKept, Framed
<1> QED BY <1>1, <1>2, <1>3, <1>4 DEF Next

\* The invariant holds throughout.
LEMMA IdleInvariant == Spec => []IdleInv
<1>1. Init => IdleInv
  BY IdleInitially
<1>2. IdleInv /\ [Next]_vars => IdleInv'
  <2>1. SUFFICES ASSUME IdleInv, [Next]_vars
                 PROVE  IdleInv'
    OBVIOUS
  <2>2. TypeOK' /\ RoomInv' /\ BatchInv'
    BY <2>1, IdleTyped DEF IdleInv
  <2>3. \A p \in Pollers : Taken(p)'
    BY <2>1, TakenInductive DEF IdleInv
  <2>4. \A c \in Conns : ConnInv(c)'
    BY <2>1, ConnInductive DEF IdleInv
  <2> QED BY <2>2, <2>3, <2>4 DEF IdleInv
<1> QED BY <1>1, <1>2, PTL DEF Spec

\* The variables of the delivery have their types: in particular no write reports a
\* timestamp the clock has not had, and what was delivered was stored.
THEOREM IdleTypeCorrect == Spec => []TypeOK
<1>1. IdleInv => TypeOK
  BY DEF IdleInv
<1> QED BY <1>1, IdleInvariant, PTL

\* What sendMessagesToIdleConn writes is newer than all the peer has, as long as the
\* polls of the connection do not overlap.
THEOREM WritesAreNew == Spec => []OnlyNew
<1>1. IdleInv => OnlyNew
  <2>1. SUFFICES ASSUME IdleInv, NEW k \in Slots, NEW c \in Conns, WriteOf(k, c), ~overlapped[c],
                        NEW i \in writes[k].batch, NEW j \in delivered[c]
                 PROVE  ts(i) > ts(j)
    BY DEF OnlyNew
  <2>2. TypeOK /\ BatchInv /\ InTime(c)
    BY <2>1 DEF IdleInv, ConnInv
  <2>3. i \in DOMAIN messages /\ j \in DOMAIN messages
    BY <2>1, <2>2 DEF BatchInv, TypeOK, WriteOf
  <2>4. ts(i) \in Nat /\ ts(j) \in Nat /\ params_ts[c] \in Nat
    BY <2>2, <2>3, Values, BoundsAssumption DEF TypeOK
  <2>5. ts(i) > params_ts[c] /\ ts(j) <= params_ts[c]
    BY <2>1, <2>2 DEF InTime, Quiet
  <2> QED BY <2>4, <2>5
<1> QED BY <1>1, IdleInvariant, PTL

\* A message the timestamps have passed and the peer does not have was missed because of
\* one the peer has, also when polls overlap, pings reset the newest timestamp, messages
\* are stored between the chats of a poll and statements fail, until writes clash.
THEOREM OnlyMissedForAReason == Spec => []MissedForAReason
<1>1. IdleInv => MissedForAReason
  <2>1. SUFFICES ASSUME IdleInv, NEW c \in Conns, state[c] = "idle", ~clashed[c], NEW i \in Missed(c)
                 PROVE  \E j \in delivered[c] : Reason(c, i, j)
    BY DEF MissedForAReason, Reason, Overtaken
  <2>2. MayPass(c, params_ts[c], delivered[c])
    BY <2>1 DEF IdleInv, ConnInv, Passes
  <2>3. /\ i \in DOMAIN messages /\ ts(i) > first_ts[c] /\ ts(i) <= params_ts[c]
        /\ i \notin delivered[c]
    BY <2>1 DEF Missed
  <2>4. first_ts[c] < ts(i)
    <3>1. TypeOK
      BY <2>1 DEF IdleInv
    <3>2. ts(i) \in Nat /\ first_ts[c] \in Nat
      BY <2>3, <3>1, Values, BoundsAssumption DEF TypeOK
    <3> QED BY <2>3, <3>2
  <2> QED BY <2>2, <2>3, <2>4 DEF MayPass
<1> QED BY <1>1, IdleInvariant, PTL
================================================================================
