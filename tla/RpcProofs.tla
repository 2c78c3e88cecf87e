------------------------------ MODULE RpcProofs ------------------------------
(***************************************************************************)
(* Proofs about Rpc, for any number of clients, connections, chunks, calls *)
(* and faults: nothing that may not be replayed is done twice, every       *)
(* client gets its own answers, an input arrives from its beginning, and   *)
(* what a handshake settled goes with the link.                            *)
(***************************************************************************)
EXTENDS Rpc, SequenceTheorems, TLAPS

Frame      == [id : Ids, result : {"ok", "oversize", "failed", "braked", "not_leader", "unknown"}, answer : Ids]
Request    == [at : {"none", "sent", "run"}, op : Ops \cup {"none"}, id : Ids, part : Parts]
ConnRecord == [owner : Clients \cup {None}, whole : BOOLEAN, held : BOOLEAN, ident : Clients \cup {None},
               req : Request, rep : Seq(Frame)]
LinkRecord == [conn : Conns \cup {None}, view : Builds \cup {"none"}]
CallRecord == [at : {"idle", "dial", "redial", "probe", "identify", "send", "wait"},
               op : Ops \cup {"none", "connect"}, id : Ids, conn : Conns \cup {None}, view : Builds,
               part : Parts, again : BOOLEAN, seen : SUBSET Ids]
LastRecord == [op : Ops \cup {"none", "connect"}, id : Ids,
               result : {"none", "unreachable", "lost", "broken", "ok", "failed", "braked", "not_leader", "unknown"},
               parts : 0..Chunks, answer : Ids, seen : SUBSET Ids]

\* Every variable has its type.
Typed ==
    /\ build \in Builds \cup {"down"} /\ value \in Ids /\ brake \in BOOLEAN
    /\ conn \in [Conns -> ConnRecord] /\ link \in [Clients -> LinkRecord]
    /\ call \in [Clients -> CallRecord] /\ last \in [Clients -> LastRecord]
    /\ kind \in [Ids -> Ops \cup {"none"}] /\ ran \in [Ids -> [Parts -> Nat]]
    /\ calls \in Ids /\ starts \in Nat /\ cuts \in Nat

Clean(k)   == conn[k].req = NoRequest /\ conn[k].rep = <<>>
Pending(k) == conn[k].req.at # "none"
Going(c)   == call[c].at # "idle" /\ call[c].op \in Ops
HasConn(c) == call[c].at \in {"probe", "identify", "send", "wait"}

\* What the connections of a client are, in the link and in a call.
ConnsOf(c) ==
    /\ link[c].conn # None => LET k == link[c].conn IN
          /\ conn[k].owner = c /\ conn[k].held /\ conn[k].ident = c /\ Clean(k)
          /\ call[c].at = "idle" /\ link[c].view # "none"
    /\ HasConn(c) <=> call[c].conn # None
    /\ HasConn(c) => conn[call[c].conn].owner = c /\ conn[call[c].conn].held
    /\ call[c].at \in {"probe", "identify", "send"} => Clean(call[c].conn)
    /\ call[c].at \in {"send", "wait"} => conn[call[c].conn].ident = c
    /\ call[c].at # "idle" => call[c].op # "none" /\ (link[c].view # "none" \/ call[c].op = "connect")
    /\ call[c].op = "connect" => call[c].at \notin {"send", "wait"}

\* A connection is its client's, in the link or in the call that took it out of there, and
\* nothing is left on it of an earlier exchange when a request is sent.
ConnsInv ==
    /\ \A k \in Conns : /\ conn[k].owner = None => conn[k] = Unused
                        /\ conn[k].whole => build # "down"
    /\ \A c \in Clients : ConnsOf(c)

\* A view is of the daemon at the other end, as long as the connection lives.
ViewsOf(c) ==
    /\ link[c].conn # None /\ link[c].view = "new" /\ conn[link[c].conn].whole => build = "new"
    /\ HasConn(c) /\ conn[call[c].conn].whole =>
          /\ (call[c].at \in {"send", "wait"} /\ link[c].view = "new") => build = "new"
          /\ (call[c].at = "identify" /\ call[c].view = "new") => build = "new"
    /\ call[c].at = "redial" => call[c].view = "old"
ViewsInv == \A c \in Clients : ViewsOf(c)

\* A call has an id of its own, which its requests and its result carry.
IdsInv ==
    /\ \A n \in Ids : n = 0 \/ n > calls => kind[n] = "none" /\ \A i \in Parts : ran[n][i] = 0
    /\ \A k \in Conns : Pending(k) => LET r == conn[k].req IN
          /\ r.id \in 1..calls /\ r.op = kind[r.id] /\ r.op \in Ops
          /\ r.op # "keys" => r.part = 1
    /\ \A c \in Clients : Going(c) =>
          /\ call[c].id \in 1..calls /\ kind[call[c].id] = call[c].op
          /\ call[c].op # "keys" => call[c].part = 1
          /\ \A d \in Clients : Going(d) /\ call[d].id = call[c].id => d = c
          /\ \A d \in Clients : last[d].op \in Ops => last[d].id # call[c].id
    /\ \A c \in Clients : last[c].op \in Ops => last[c].id \in 1..calls /\ kind[last[c].id] = last[c].op

Once(n) == kind[n] \notin {"get", "set"}

\* What may not be replayed is under way once, and its parts in turn, ...
RequestOnce(k) == LET r == conn[k].req IN
    Pending(k) /\ Once(r.id) =>
        /\ \A i \in Parts : ran[r.id][i] > 0 <=> i < r.part
        /\ \A j \in Conns : Pending(j) /\ conn[j].req.id = r.id => j = k

\* ... also while its call goes on.
CallOnce(c) == LET n == call[c].id IN
    Going(c) /\ Once(n) =>
        /\ \A i \in Parts : /\ i < call[c].part => ran[n][i] > 0
                            /\ ran[n][i] > 0 => i <= call[c].part
        /\ call[c].at # "wait" => ran[n][call[c].part] = 0
        /\ \A k \in Conns : Pending(k) /\ conn[k].req.id = n => call[c].at = "wait" /\ k = call[c].conn

OnceInv ==
    /\ \A n \in Ids, i \in Parts : Once(n) => ran[n][i] <= 1
    /\ \A n \in Ids, i \in Parts : kind[n] = "keys" /\ i > 1 => ran[n][i] <= ran[n][i - 1]
    /\ \A k \in Conns : RequestOnce(k)
    /\ \A c \in Clients : CallOnce(c)

\* The reply f is to the request that the call of c waits for.
AnswerOf(c, f) == LET n == call[c].id IN
    /\ f.result # "oversize"
    /\ f.result = "ok" => ran[n][call[c].part] > 0 /\ (call[c].op = "get" => f.answer \in call[c].seen)
    /\ f.result \notin {"ok", "failed"} => Once(n) /\ ran[n][call[c].part] = 0
    /\ f.result = "not_leader" => c # Leader

\* A client that waits has its request or the reply to it on its connection.
WaitOf(c) == LET k == call[c].conn IN
    call[c].at = "wait" =>
        /\ Pending(k) => /\ conn[k].req.id = call[c].id /\ conn[k].req.op = call[c].op
                         /\ conn[k].req.part = call[c].part /\ conn[k].rep = <<>>
        /\ ~Pending(k) => conn[k].req = NoRequest
        /\ \/ conn[k].rep = <<>>
           \/ \E f \in Frame : conn[k].rep = <<f>> /\ AnswerOf(c, f)
           \/ /\ call[c].op = "get"
              /\ \E f \in Frame, g \in Frame : conn[k].rep = <<g, f>> /\ g.result = "oversize"
WaitInv == \A c \in Clients : WaitOf(c)

\* What was returned stays so: only the part that was lost may still be done.
LastOf(c) == LET d == last[c]  done(i) == ran[d.id][i] > 0 IN
    /\ c = Leader => d.result # "not_leader"
    /\ d.result = "ok" /\ d.op \in Ops =>
          /\ \A i \in Parts : (d.op = "keys" \/ i = 1) => done(i)
          /\ d.op = "get" => d.answer \in d.seen
    /\ d.op = "keys" =>
          /\ \A i \in Parts : i <= d.parts => done(i)
          /\ \A i \in Parts : done(i) => i <= d.parts + (IF d.result \in {"lost", "failed"} THEN 1 ELSE 0)
          /\ \A k \in Conns : Pending(k) /\ conn[k].req.id = d.id =>
                d.result = "lost" /\ conn[k].req.part = d.parts + 1
LastInv == \A c \in Clients : LastOf(c)

\* A part was done, and its write did not fail.
Whole(n, i) == ran[n][i] > 0 /\ <<n, i>> \notin torn

\* A chunk goes to the pane after whole ones only, and what was acknowledged is whole.
CallWhole(c) == LET n == call[c].id  p == call[c].part IN
    /\ Going(c) => \A i \in Parts : i < p => Whole(n, i)
    /\ call[c].at = "wait" =>
          \A f \in Frame : conn[call[c].conn].rep = <<f>> /\ f.result = "ok" => Whole(n, p)
LastWhole(c) == LET d == last[c] IN
    /\ d.result = "ok" /\ d.op \in Ops => \A i \in Parts : (d.op = "keys" \/ i = 1) => Whole(d.id, i)
    /\ d.op = "keys" => \A i \in Parts : i <= d.parts => Whole(d.id, i)
TornInv ==
    /\ \A n \in Ids, i \in Parts : <<n, i>> \in torn => ran[n][i] > 0 /\ kind[n] = "keys"
    /\ \A n \in Ids, i \in Parts : kind[n] = "keys" /\ i > 1 /\ ran[n][i] > 0 => Whole(n, i - 1)
    /\ \A k \in Conns : LET r == conn[k].req IN
          Pending(k) /\ r.op = "keys" => \A i \in Parts : i < r.part => Whole(r.id, i)
    /\ \A c \in Clients : CallWhole(c) /\ LastWhole(c)

\* The inductive invariant
IndInv == Typed /\ ConnsInv /\ ViewsInv /\ IdsInv /\ OnceInv /\ WaitInv /\ LastInv /\ TornInv
-----------------------------------------------------------------------------
(* Types.                                                                  *)

\* What becomes of a connection that an end has left.
LEMMA TidyLemma ==
    /\ Unused \in ConnRecord /\ NoRequest \in Request /\ Idle \in CallRecord
    /\ \A c \in Clients : Dialled(c) \in ConnRecord
    /\ \A r \in ConnRecord : /\ Tidy(r) \in ConnRecord
                             /\ Tidy(r) = r \/ (Tidy(r) = Unused /\ ~r.held /\ r.req.at = "none")
<1>1. Unused \in ConnRecord /\ NoRequest \in Request
  BY ConstantsAssumption DEF Unused, NoRequest, ConnRecord, Request, Ids, Parts
<1>2. Idle \in CallRecord
  BY ConstantsAssumption DEF Idle, CallRecord, Ids, Parts, Builds
<1>3. ASSUME NEW c \in Clients PROVE Dialled(c) \in ConnRecord
  BY <1>1 DEF Dialled, ConnRecord, Unused
<1>. QED
  BY <1>1, <1>2, <1>3 DEF Tidy

\* A client that has a connection has one.
LEMMA DroppedLemma ==
    ASSUME Typed, NEW k \in Conns
    PROVE  /\ Dropped(k) \in [Conns -> ConnRecord]
           /\ \A j \in Conns \ {k} : Dropped(k)[j] = conn[j]
           /\ \/ /\ Dropped(k)[k] = Unused /\ conn[k].req.at = "none"
              \/ /\ Dropped(k)[k] = [conn[k] EXCEPT !.held = FALSE, !.whole = FALSE]
                 /\ conn[k].req.at # "none"
<1>1. conn[k] \in ConnRecord
  BY DEF Typed
<1>2. [conn[k] EXCEPT !.held = FALSE, !.whole = FALSE] \in ConnRecord
  BY <1>1 DEF ConnRecord
<1>3. [conn[k] EXCEPT !.held = FALSE, !.whole = FALSE].held = FALSE
      /\ [conn[k] EXCEPT !.held = FALSE, !.whole = FALSE].req = conn[k].req
  BY <1>1 DEF ConnRecord
<1>. QED
  BY <1>2, <1>3, TidyLemma DEF Dropped, Typed, Tidy

\* What a call leaves when it returns.
LEMMA ReturnLemma ==
    ASSUME Typed, NEW c \in Clients, NEW k \in Conns \cup {None},
           NEW result \in {"unreachable", "lost", "broken", "ok", "failed", "braked", "not_leader", "unknown"},
           NEW answer \in Ids, Return(c, result, k, answer)
    PROVE  /\ link' \in [Clients -> LinkRecord] /\ call' \in [Clients -> CallRecord]
           /\ last' \in [Clients -> LastRecord]
           /\ \A d \in Clients \ {c} : link'[d] = link[d] /\ call'[d] = call[d] /\ last'[d] = last[d]
           /\ link'[c].conn = k /\ link'[c].view = link[c].view /\ call'[c] = Idle
           /\ last'[c].op = call[c].op /\ last'[c].id = call[c].id /\ last'[c].result = result
           /\ last'[c].answer = answer /\ last'[c].seen = call[c].seen
           /\ last'[c].parts = IF result = "ok" THEN Chunks ELSE call[c].part - 1
<1>1. link[c] \in LinkRecord /\ call[c] \in CallRecord
  BY DEF Typed
<1>2. [link[c] EXCEPT !.conn = k] \in LinkRecord
  BY <1>1 DEF LinkRecord
<1>3. Delivered(c, result) \in 0..Chunks
  BY <1>1, ConstantsAssumption DEF Delivered, CallRecord, Parts
<1>4. [op |-> call[c].op, id |-> call[c].id, result |-> result, answer |-> answer, seen |-> call[c].seen,
       parts |-> Delivered(c, result)] \in LastRecord
  BY <1>1, <1>3 DEF LastRecord, CallRecord
<1>. QED
  BY <1>1, <1>2, <1>4, TidyLemma DEF Return, Typed, LinkRecord, LastRecord, Delivered

\* Steps of a client that begins or goes on with a call.
LEMMA ClientTypes ==
    ASSUME Typed, ConnsInv, NEW c \in Clients,
           \/ \E op \in Ops : Begin(c, op)
           \/ Connect(c) \/ Dial(c) \/ CannotDial(c)
           \/ ProbeAnswered(c) \/ ProbeLost(c) \/ Identify(c) \/ CannotIdentify(c)
           \/ Send(c) \/ Lose(c) \/ Break(c) \/ Receive(c)
    PROVE  Typed'
<1>. USE DEF daemon, history, counts
<1>0. /\ call[c] \in CallRecord /\ link[c] \in LinkRecord /\ call \in [Clients -> CallRecord]
      /\ HasConn(c) => call[c].conn \in Conns /\ conn[call[c].conn] \in ConnRecord
  BY DEF Typed, ConnsInv, ConnsOf, CallRecord
<1>1. ASSUME NEW op \in Ops, Begin(c, op) PROVE Typed'
  <2>1. calls' = calls + 1 /\ calls' \in Ids
    <3>1. calls \in 0..MaxCalls /\ MaxCalls \in Nat /\ calls < MaxCalls /\ calls' = calls + 1
      BY <1>1, ConstantsAssumption DEF Begin, Typed, Ids
    <3>. QED
      BY <3>1 DEF Ids
  <2>2. /\ call'[c] \in CallRecord
        /\ call' = [call EXCEPT ![c] = call'[c]]
    <3>. DEFINE new == [Idle EXCEPT !.op = op, !.id = calls', !.conn = link[c].conn, !.seen = {value},
                                    !.at = IF link[c].conn = None THEN "dial" ELSE "send"]
    <3>1. new \in CallRecord
      BY <1>0, <2>1, TidyLemma DEF CallRecord, LinkRecord, Typed
    <3>2. call' = [call EXCEPT ![c] = new]
      BY <1>1 DEF Begin
    <3>. QED
      BY <1>0, <3>1, <3>2
  <2>3. [link[c] EXCEPT !.conn = None] \in LinkRecord
    BY <1>0 DEF LinkRecord
  <2>4. link' \in [Clients -> LinkRecord]
    BY <1>1, <2>3 DEF Begin, Typed
  <2>. QED
    BY <1>1, <2>1, <2>2, <2>4 DEF Begin, Typed
<1>2. CASE Connect(c)
  <2>1. [call[c] EXCEPT !.at = "dial", !.op = "connect"] \in CallRecord
    BY <1>0 DEF CallRecord
  <2>. QED
    BY <1>2, <2>1 DEF Connect, Typed
<1>3. CASE Dial(c)
  <2>1. PICK k \in UnusedConns :
          /\ conn' = [conn EXCEPT ![k] = Dialled(c)]
          /\ call' = [call EXCEPT ![c].conn = k, ![c].at = IF call[c].at = "dial" THEN "probe" ELSE "identify"]
    BY <1>3 DEF Dial
  <2>2. [call[c] EXCEPT !.conn = k, !.at = IF call[c].at = "dial" THEN "probe" ELSE "identify"] \in CallRecord
    BY <1>0 DEF CallRecord, UnusedConns
  <2>. QED
    BY <1>3, <2>1, <2>2, TidyLemma DEF Dial, Typed, UnusedConns
<1>4. CASE CannotDial(c)
  <2>1. Return(c, "unreachable", None, 0) /\ 0 \in Ids
    BY <1>4, ConstantsAssumption DEF CannotDial, Ids
  <2>. QED
    BY <1>4, <2>1, ReturnLemma DEF CannotDial, Typed
<1>5. CASE ProbeAnswered(c)
  <2>1. build \in Builds
    BY <1>0, <1>5 DEF ProbeAnswered, Typed, ConnsInv, ConnsOf, HasConn
  <2>2. [call[c] EXCEPT !.view = build, !.at = "identify"] \in CallRecord
    BY <1>0, <2>1 DEF CallRecord
  <2>. QED
    BY <1>5, <2>2 DEF ProbeAnswered, Typed
<1>6. CASE ProbeLost(c)
  <2>1. [call[c] EXCEPT !.view = "old", !.conn = None, !.at = "redial"] \in CallRecord
    BY <1>0 DEF CallRecord, Builds
  <2>. QED
    BY <1>0, <1>6, <2>1, DroppedLemma DEF ProbeLost, Typed, HasConn
<1>7. CASE Identify(c)
  <2>1. /\ [conn[call[c].conn] EXCEPT !.ident = c] \in ConnRecord
        /\ [call[c] EXCEPT !.at = "send"] \in CallRecord
        /\ [view |-> call[c].view, conn |-> IF call[c].op = "connect" THEN call[c].conn ELSE None] \in LinkRecord
    BY <1>0, <1>7 DEF Identify, HasConn, ConnRecord, CallRecord, LinkRecord
  <2>. QED
    BY <1>0, <1>7, <2>1, TidyLemma DEF Identify, Typed
<1>8. CASE CannotIdentify(c)
  <2>1. Return(c, "unreachable", None, 0) /\ 0 \in Ids
    BY <1>8, ConstantsAssumption DEF CannotIdentify, Ids
  <2>. QED
    BY <1>0, <1>8, <2>1, ReturnLemma, DroppedLemma DEF CannotIdentify, Typed, HasConn
<1>9. CASE Send(c)
  <2>1. [call[c] EXCEPT !.at = "wait"] \in CallRecord /\ call[c].op \in Ops
    BY <1>0, <1>9 DEF CallRecord, ConnsInv, ConnsOf, Send
  <2>2. [at |-> "sent", op |-> call[c].op, id |-> call[c].id, part |-> call[c].part] \in Request
    BY <1>0, <2>1 DEF CallRecord, Request
  <2>3. \A r \in Request : [conn[call[c].conn] EXCEPT !.req = r] \in ConnRecord
    BY <1>0, <1>9 DEF Send, HasConn, ConnRecord
  <2>4. conn[call[c].conn].req \in Request
    BY <1>0, <1>9 DEF Send, HasConn, ConnRecord
  <2>5. conn' \in [Conns -> ConnRecord]
    BY <1>0, <1>9, <2>2, <2>3, <2>4 DEF Send, Typed, HasConn
  <2>. QED
    BY <1>9, <2>1, <2>5 DEF Send, Typed
<1>10. CASE Lose(c)
  <2>1. [call[c] EXCEPT !.again = TRUE, !.conn = None, !.at = "dial"] \in CallRecord
    BY <1>0 DEF CallRecord
  <2>2. conn' \in [Conns -> ConnRecord]
    BY <1>0, <1>10, DroppedLemma DEF Lose, HasConn
  <2>3. CASE Return(c, "lost", None, 0)
    <3>1. 0 \in Ids
      BY ConstantsAssumption DEF Ids
    <3>. QED
      BY <1>10, <2>2, <2>3, <3>1, ReturnLemma DEF Lose, Typed
  <2>. QED
    BY <1>10, <2>1, <2>2, <2>3 DEF Lose, Typed
<1>11. CASE Break(c)
  <2>1. Return(c, "broken", None, 0) /\ 0 \in Ids
    BY <1>11, ConstantsAssumption DEF Break, Ids
  <2>. QED
    BY <1>0, <1>11, <2>1, ReturnLemma, DroppedLemma DEF Break, Typed, HasConn
<1>12. CASE Receive(c)
  <2>1. PICK k \in Conns : k = call[c].conn
    BY <1>0, <1>12 DEF Receive, HasConn
  <2>2. conn[k] \in ConnRecord /\ conn[k].rep \in Seq(Frame) /\ conn[k].rep # <<>>
    BY <1>12, <2>1 DEF Typed, ConnRecord, Receive
  <2>3. Head(conn[k].rep) \in Frame /\ Tail(conn[k].rep) \in Seq(Frame)
    BY <2>2
  <2>4. [conn[k] EXCEPT !.rep = Tail(conn[k].rep)] \in ConnRecord
    BY <2>2, <2>3 DEF ConnRecord
  <2>5. conn' \in [Conns -> ConnRecord]
    BY <1>12, <2>1, <2>4 DEF Receive, Typed
  <2>6. CASE call'= [call EXCEPT ![c].part = @ + 1, ![c].at = "send"] /\ call[c].part < Chunks /\ UNCHANGED <<link, last>>
    <3>1. [call[c] EXCEPT !.part = call[c].part + 1, !.at = "send"] \in CallRecord
      <4>1. call[c].part + 1 \in Parts
        BY <1>0, <2>6, ConstantsAssumption DEF CallRecord, Parts
      <4>. QED
        BY <1>0, <4>1 DEF CallRecord
    <3>. QED
      BY <1>12, <2>5, <2>6, <3>1 DEF Receive, Typed
  <2>7. CASE Return(c, Head(conn[k].rep).result, k, Head(conn[k].rep).answer)
    <3>1. PICK f \in Frame : f = Head(conn[k].rep)
      BY <2>3
    <3>2. f.result \in {"ok", "failed", "braked", "not_leader", "unknown"} /\ f.answer \in Ids
      BY <1>12, <2>1, <3>1 DEF Receive, Frame
    <3>3. Return(c, f.result, k, f.answer) /\ k \in Conns \cup {None}
      BY <2>7, <3>1
    <3>4. /\ link' \in [Clients -> LinkRecord] /\ call' \in [Clients -> CallRecord]
          /\ last' \in [Clients -> LastRecord]
      BY <3>2, <3>3, ReturnLemma
    <3>5. UNCHANGED <<daemon, history, counts>>
      BY <1>12 DEF Receive
    <3>. QED
      BY <2>5, <3>4, <3>5 DEF Typed
  <2>. QED
    BY <1>12, <2>1, <2>6, <2>7 DEF Receive
<1>. QED
  BY <1>1, <1>2, <1>3, <1>4, <1>5, <1>6, <1>7, <1>8, <1>9, <1>10, <1>11, <1>12

\* What a thread of the daemon leaves on its connection.
LEMMA ReplyLemma ==
    ASSUME Typed, NEW k \in Conns, NEW frames \in Seq(Frame)
    PROVE  /\ Reply(k, frames) \in [Conns -> ConnRecord]
           /\ \A j \in Conns \ {k} : Reply(k, frames)[j] = conn[j]
           /\ Reply(k, frames)[k].req = NoRequest
           /\ conn[k].held => Reply(k, frames)[k] =
                 [conn[k] EXCEPT !.req = NoRequest, !.rep = conn[k].rep \o (IF conn[k].whole THEN frames ELSE <<>>)]
           /\ Reply(k, frames)[k].owner # None => Reply(k, frames)[k].owner = conn[k].owner
           /\ Reply(k, frames)[k].whole => conn[k].whole
           /\ Reply(k, frames)[k] # Unused => Reply(k, frames)[k].owner = conn[k].owner
<1>1. conn[k] \in ConnRecord
  BY DEF Typed
<1>. DEFINE new == [conn[k] EXCEPT !.req = NoRequest, !.rep = conn[k].rep \o (IF conn[k].whole THEN frames ELSE <<>>)]
<1>2. conn[k].rep \o (IF conn[k].whole THEN frames ELSE <<>>) \in Seq(Frame)
  BY <1>1 DEF ConnRecord
<1>3. /\ new \in ConnRecord /\ new.req = NoRequest /\ new.held = conn[k].held
      /\ new.owner = conn[k].owner /\ new.whole = conn[k].whole
  BY <1>1, <1>2, TidyLemma DEF ConnRecord
<1>4. Unused.whole = FALSE /\ Unused.req = NoRequest /\ Unused.owner = None
  BY DEF Unused
<1>5. Reply(k, frames) = [conn EXCEPT ![k] = Tidy(new)]
  BY DEF Reply
<1>6. Tidy(new) \in ConnRecord /\ (Tidy(new) = new \/ (Tidy(new) = Unused /\ ~new.held))
  BY <1>3, TidyLemma
<1>. HIDE DEF new
<1>7. /\ Reply(k, frames)[k] = Tidy(new)
      /\ Reply(k, frames) \in [Conns -> ConnRecord]
      /\ \A j \in Conns \ {k} : Reply(k, frames)[j] = conn[j]
  BY <1>5, <1>6 DEF Typed
<1>8. conn[k].held => Tidy(new) = [conn[k] EXCEPT !.req = NoRequest, !.rep = conn[k].rep \o (IF conn[k].whole THEN frames ELSE <<>>)]
  BY <1>3, <1>6 DEF new
<1>. QED
  BY <1>3, <1>4, <1>6, <1>7, <1>8

\* Steps of the daemon and of its transports.
LEMMA DaemonTypes ==
    ASSUME Typed, DaemonDies \/ Start \/ \E k \in Conns : Gate(k) \/ HangUp(k) \/ Run(k) \/ Cut(k)
    PROVE  Typed'
<1>. USE DEF daemon, history, counts
<1>1. ASSUME NEW k \in Conns PROVE conn[k] \in ConnRecord
  BY <1>1 DEF Typed
<1>2. CASE DaemonDies
  <2>1. ASSUME NEW k \in Conns PROVE Tidy([conn[k] EXCEPT !.req = NoRequest, !.whole = FALSE]) \in ConnRecord
    <3>1. [conn[k] EXCEPT !.req = NoRequest, !.whole = FALSE] \in ConnRecord
      BY <1>1, TidyLemma DEF ConnRecord
    <3>. QED
      BY <3>1, TidyLemma
  <2>. QED
    BY <1>2, <2>1 DEF DaemonDies, Typed
<1>3. ASSUME NEW v \in Ids,
             call' = [c \in Clients |-> IF call[c].op = "get" THEN [call[c] EXCEPT !.seen = @ \cup {v}] ELSE call[c]]
      PROVE  call' \in [Clients -> CallRecord]
  <2>1. ASSUME NEW c \in Clients PROVE [call[c] EXCEPT !.seen = @ \cup {v}] \in CallRecord /\ call[c] \in CallRecord
    <3>1. call[c] \in CallRecord
      BY DEF Typed
    <3>2. call[c].seen \cup {v} \in SUBSET Ids
      BY <1>3, <3>1 DEF CallRecord
    <3>. QED
      BY <3>1, <3>2 DEF CallRecord
  <2>. QED
    BY <1>3, <2>1
<1>4. CASE Start
  <2>1. value' \in Ids
    BY <1>4, ConstantsAssumption DEF Start, Typed, Ids
  <2>2. brake' \in BOOLEAN
    <3>1. brake' = FALSE \/ brake' = (brake /\ build' = "new")
      BY <1>4 DEF Start
    <3>. QED
      BY <3>1
  <2>3. call' \in [Clients -> CallRecord]
    BY <1>3, <1>4, <2>1 DEF Start
  <2>. QED
    BY <1>4, <2>1, <2>2, <2>3 DEF Start, Typed
<1>5. ASSUME NEW k \in Conns, Gate(k) PROVE Typed'
  <2>1. CASE conn' = [conn EXCEPT ![k].req.at = "run"]
    <3>1. [conn[k].req EXCEPT !.at = "run"] \in Request
      BY <1>1 DEF ConnRecord, Request
    <3>2. [conn[k] EXCEPT !.req = [conn[k].req EXCEPT !.at = "run"]] \in ConnRecord
      BY <1>1, <3>1 DEF ConnRecord
    <3>. QED
      BY <1>5, <2>1, <3>2 DEF Gate, Typed
  <2>2. ASSUME NEW why \in {"braked", "not_leader", "unknown"},
               conn' = Reply(k, <<[id |-> conn[k].req.id, result |-> why, answer |-> 0]>>)
        PROVE  Typed'
    <3>. DEFINE refused == [id |-> conn[k].req.id, result |-> why, answer |-> 0]
    <3>1. refused \in Frame
      BY <1>1, ConstantsAssumption DEF ConnRecord, Request, Frame, Ids
    <3>. HIDE DEF refused
    <3>2. <<refused>> \in Seq(Frame)
      BY <3>1
    <3>3. conn' = Reply(k, <<refused>>)
      BY <2>2 DEF refused
    <3>4. conn' \in [Conns -> ConnRecord]
      BY <3>2, <3>3, ReplyLemma
    <3>. QED
      BY <1>5, <3>4 DEF Gate, Typed
  <2>. QED
    BY <1>5, <2>1, <2>2 DEF Gate
<1>6. ASSUME NEW k \in Conns, HangUp(k) PROVE Typed'
  <2>1. Tidy([conn[k] EXCEPT !.req = NoRequest, !.whole = FALSE]) \in ConnRecord
    <3>1. [conn[k] EXCEPT !.req = NoRequest, !.whole = FALSE] \in ConnRecord
      BY <1>1, TidyLemma DEF ConnRecord
    <3>. QED
      BY <3>1, TidyLemma
  <2>. QED
    BY <1>6, <2>1 DEF HangUp, Typed
<1>7. ASSUME NEW k \in Conns, Run(k) PROVE Typed'
  <2>1. conn[k].req \in Request
    BY <1>1 DEF ConnRecord
  <2>2. value' \in Ids /\ brake' \in BOOLEAN /\ UNCHANGED <<build, link, kind, last, counts>>
    <3>1. brake' = (brake \/ conn[k].req.op = "brake")
      BY <1>7 DEF Run
    <3>2. brake' \in BOOLEAN
      BY <3>1
    <3>. QED
      BY <1>7, <2>1, <3>2 DEF Run, Typed, Request
  <2>3. call' \in [Clients -> CallRecord]
    BY <1>3, <1>7, <2>2 DEF Run
  <2>4. ran' \in [Ids -> [Parts -> Nat]]
    <3>1. conn[k].req.id \in Ids /\ conn[k].req.part \in Parts
      BY <2>1 DEF Request
    <3>2. ran' = [ran EXCEPT ![conn[k].req.id][conn[k].req.part] = @ + 1]
      BY <1>7 DEF Run
    <3>3. ran \in [Ids -> [Parts -> Nat]]
      BY DEF Typed
    <3>. QED
      BY <3>1, <3>2, <3>3
  <2>5. conn' \in [Conns -> ConnRecord]
    <3>1. PICK frames \in Frames(conn[k].req) : conn' = Reply(k, frames)
      BY <1>7 DEF Run
    <3>. DEFINE whole == [id |-> conn[k].req.id, result |-> "ok", answer |-> IF conn[k].req.op = "get" THEN value ELSE 0]
    <3>. DEFINE over == [whole EXCEPT !.result = "oversize"]
                fail == [whole EXCEPT !.result = "failed"]
    <3>2. whole \in Frame /\ over \in Frame /\ fail \in Frame
      <4>1. conn[k].req.id \in Ids /\ (IF conn[k].req.op = "get" THEN value ELSE 0) \in Ids
        BY <2>1, ConstantsAssumption DEF Request, Typed, Ids
      <4>2. whole \in Frame
        BY <4>1 DEF Frame
      <4>. QED
        BY <4>2 DEF Frame
    <3>4. frames = <<whole>> \/ frames = <<over, whole>> \/ frames = <<fail>>
      BY <3>1 DEF Frames
    <3>. HIDE DEF whole, over, fail
    <3>5. <<whole>> \in Seq(Frame) /\ <<over, whole>> \in Seq(Frame) /\ <<fail>> \in Seq(Frame)
      BY <3>2
    <3>6. frames \in Seq(Frame)
      BY <3>4, <3>5
    <3>. QED
      BY <3>1, <3>6, ReplyLemma
  <2>. QED
    BY <2>2, <2>3, <2>4, <2>5 DEF Typed
<1>8. ASSUME NEW k \in Conns, Cut(k) PROVE Typed'
  <2>1. PICK kept \in BOOLEAN :
          conn' = [conn EXCEPT ![k].whole = FALSE,
                               ![k].req = IF kept \/ @.at # "sent" THEN @ ELSE NoRequest]
    BY <1>8 DEF Cut
  <2>2. [conn[k] EXCEPT !.whole = FALSE, !.req = IF kept \/ @.at # "sent" THEN @ ELSE NoRequest] \in ConnRecord
    BY <1>1, TidyLemma DEF ConnRecord
  <2>3. conn' \in [Conns -> ConnRecord]
    BY <2>1, <2>2 DEF Typed
  <2>. QED
    BY <1>8, <2>3 DEF Cut, Typed
<1>. QED
  BY <1>2, <1>4, <1>5, <1>6, <1>7, <1>8
-----------------------------------------------------------------------------
(* Connections.                                                            *)

\* The connection of a call is nobody else's.
LEMMA OwnLemma ==
    ASSUME Typed, ConnsInv, NEW c \in Clients, HasConn(c)
    PROVE  /\ call[c].conn \in Conns /\ conn[call[c].conn] \in ConnRecord
           /\ conn[call[c].conn].owner = c /\ conn[call[c].conn].held /\ c # None
           /\ link[c].conn = None
           /\ \A d \in Clients : link[d].conn # call[c].conn
           /\ \A d \in Clients \ {c} : HasConn(d) => call[d].conn # call[c].conn
<1>1. call[c] \in CallRecord /\ call[c].conn # None /\ c # None
  BY ConstantsAssumption DEF Typed, ConnsInv, ConnsOf
<1>2. call[c].conn \in Conns /\ conn[call[c].conn] \in ConnRecord
  BY <1>1 DEF Typed, CallRecord
<1>3. link[c].conn = None
  BY DEF ConnsInv, ConnsOf, HasConn
<1>. QED
  BY <1>1, <1>2, <1>3 DEF ConnsInv, ConnsOf

\* The others do not notice what a client does with a connection of its own.
LEMMA OthersConns ==
    ASSUME Typed, ConnsInv, NEW c \in Clients,
           \A d \in Clients \ {c} : /\ call'[d] = call[d] /\ link'[d] = link[d]
                                    /\ link[d].conn # None => conn'[link[d].conn] = conn[link[d].conn]
                                    /\ HasConn(d) => conn'[call[d].conn] = conn[call[d].conn]
    PROVE  \A d \in Clients \ {c} : ConnsOf(d)'
<1>. SUFFICES ASSUME NEW d \in Clients \ {c} PROVE ConnsOf(d)'
  OBVIOUS
<1>1. ConnsOf(d) /\ call'[d] = call[d] /\ link'[d] = link[d] /\ (HasConn(d)' <=> HasConn(d))
  BY DEF ConnsInv, HasConn
<1>. QED
  BY <1>1 DEF ConnsOf, Clean, HasConn

\* The client that takes a step keeps what it relies on.
LEMMA ClientConns ==
    ASSUME Typed, ConnsInv, WaitInv, NEW c \in Clients,
           \/ \E op \in Ops : Begin(c, op)
           \/ Connect(c) \/ Dial(c) \/ CannotDial(c)
           \/ ProbeAnswered(c) \/ ProbeLost(c) \/ Identify(c) \/ CannotIdentify(c)
           \/ Send(c) \/ Lose(c) \/ Break(c) \/ Receive(c)
    PROVE  ConnsInv'
<1>. USE DEF daemon, history, counts
<1>0. /\ call[c] \in CallRecord /\ link[c] \in LinkRecord /\ call \in [Clients -> CallRecord]
      /\ link \in [Clients -> LinkRecord] /\ conn \in [Conns -> ConnRecord] /\ ConnsOf(c)
      /\ \A k \in Conns : (conn[k].owner = None => conn[k] = Unused) /\ (conn[k].whole => build # "down")
  BY DEF Typed, ConnsInv
<1>. DEFINE Rest == /\ \A k \in Conns : /\ conn'[k].owner = None => conn'[k] = Unused
                                        /\ conn'[k].whole => build' # "down"
                    /\ \A d \in Clients \ {c} : ConnsOf(d)'
<1>1. ASSUME NEW op \in Ops, Begin(c, op) PROVE ConnsInv'
  <2>1. call'[c] = [Idle EXCEPT !.op = op, !.id = calls', !.conn = link[c].conn, !.seen = {value},
                                !.at = IF link[c].conn = None THEN "dial" ELSE "send"]
    BY <1>0, <1>1 DEF Begin
  <2>2. /\ call'[c].op = op /\ call'[c].conn = link[c].conn
        /\ call'[c].at = IF link[c].conn = None THEN "dial" ELSE "send"
    BY <2>1 DEF Idle
  <2>3. link'[c].conn = None /\ link'[c].view # "none" /\ UNCHANGED <<conn, build>>
    BY <1>0, <1>1 DEF Begin, LinkRecord
  <2>4. Rest
    BY <1>0, <1>1, <2>3, OthersConns DEF Begin
  <2>5. ConnsOf(c)'
    BY <1>0, <2>2, <2>3 DEF ConnsOf, Clean, HasConn, Ops, LinkRecord
  <2>. QED
    BY <2>4, <2>5 DEF ConnsInv
<1>2. CASE Connect(c)
  <2>1. call'[c].at = "dial" /\ call'[c].op = "connect" /\ call'[c].conn = call[c].conn
    BY <1>0, <1>2 DEF Connect, CallRecord
  <2>2. Rest
    BY <1>0, <1>2, OthersConns DEF Connect
  <2>3. link[c].conn = None /\ UNCHANGED link
    BY <1>0, <1>2 DEF Connect, ConnsOf
  <2>4. ConnsOf(c)'
    BY <1>0, <1>2, <2>1, <2>3 DEF Connect, ConnsOf, Clean, HasConn
  <2>. QED
    BY <2>2, <2>4 DEF ConnsInv
<1>3. CASE Dial(c)
  <2>1. PICK k \in UnusedConns :
          /\ conn' = [conn EXCEPT ![k] = Dialled(c)]
          /\ call' = [call EXCEPT ![c].conn = k, ![c].at = IF call[c].at = "dial" THEN "probe" ELSE "identify"]
    BY <1>3 DEF Dial
  <2>2. /\ call'[c].conn = k /\ call'[c].at \in {"probe", "identify"} /\ call'[c].op = call[c].op
        /\ \A d \in Clients \ {c} : call'[d] = call[d]
    BY <1>0, <2>1 DEF CallRecord
  <2>3. /\ k \in Conns /\ conn[k].owner = None /\ conn'[k] = Dialled(c)
        /\ \A j \in Conns \ {k} : conn'[j] = conn[j]
    BY <1>0, <2>1 DEF UnusedConns, Unused
  <2>4. /\ Dialled(c).owner = c /\ Dialled(c).held /\ Dialled(c).req = NoRequest /\ Dialled(c).rep = <<>>
        /\ c # None /\ k # None
    BY <2>3, ConstantsAssumption DEF Dialled, Unused
  <2>5. link[c].conn = None /\ UNCHANGED <<link, build>> /\ build # "down"
    BY <1>0, <1>3 DEF Dial, ConnsOf
  <2>6. ASSUME NEW d \in Clients \ {c}
        PROVE  /\ link[d].conn # None => conn'[link[d].conn] = conn[link[d].conn]
               /\ HasConn(d) => conn'[call[d].conn] = conn[call[d].conn]
    <3>1. link[d].conn # None => link[d].conn \in Conns \ {k}
      BY <2>3, ConstantsAssumption DEF ConnsInv, ConnsOf, Typed, LinkRecord
    <3>2. HasConn(d) => call[d].conn \in Conns \ {k}
      BY <2>3, OwnLemma
    <3>. QED
      BY <2>3, <3>1, <3>2
  <2>7. Rest
    BY <1>0, <2>2, <2>3, <2>4, <2>5, <2>6, OthersConns
  <2>8. ConnsOf(c)'
    BY <1>0, <1>3, <2>2, <2>3, <2>4, <2>5 DEF Dial, ConnsOf, Clean, HasConn
  <2>. QED
    BY <2>7, <2>8 DEF ConnsInv
<1>4. CASE CannotDial(c)
  <2>1. Return(c, "unreachable", None, 0) /\ 0 \in Ids /\ UNCHANGED <<conn, build>>
    BY <1>4, ConstantsAssumption DEF CannotDial, Ids
  <2>a. /\ link'[c].conn = None /\ call'[c] = Idle
        /\ \A d \in Clients \ {c} : link'[d] = link[d] /\ call'[d] = call[d]
    BY <2>1, ReturnLemma
  <2>b. \A d \in Clients \ {c} : ConnsOf(d)'
    BY <2>1, <2>a, OthersConns
  <2>2. Rest /\ link'[c].conn = None /\ call'[c] = Idle
    BY <1>0, <2>1, <2>a, <2>b
  <2>3. ConnsOf(c)'
    BY <2>2 DEF ConnsOf, Idle, HasConn
  <2>. QED
    BY <2>2, <2>3 DEF ConnsInv
<1>5. CASE ProbeAnswered(c)
  <2>1. /\ call'[c].conn = call[c].conn /\ call'[c].at = "identify" /\ call'[c].op = call[c].op
        /\ \A d \in Clients \ {c} : call'[d] = call[d]
        /\ call[c].at = "probe" /\ UNCHANGED <<conn, link, build>>
    BY <1>0, <1>5 DEF ProbeAnswered, CallRecord
  <2>2. Rest
    BY <1>0, <2>1, OthersConns
  <2>3. ConnsOf(c)'
    BY <1>0, <2>1 DEF ConnsOf, Clean, HasConn
  <2>. QED
    BY <2>2, <2>3 DEF ConnsInv
<1>6. ASSUME HasConn(c), conn' = Dropped(call[c].conn), UNCHANGED build,
             \A d \in Clients \ {c} : call'[d] = call[d] /\ link'[d] = link[d],
             link'[c].conn = None, link'[c].view = link[c].view, call'[c].conn = None,
             call'[c] = Idle \/ (call'[c].at \in {"dial", "redial"} /\ call'[c].op = call[c].op)
      PROVE  ConnsInv'
  <2>1. PICK k \in Conns : k = call[c].conn /\ conn[k] \in ConnRecord /\ conn[k].owner = c /\ c # None
    BY <1>6, OwnLemma
  <2>2. /\ \A j \in Conns \ {k} : conn'[j] = conn[j]
        /\ conn'[k] = Unused \/ (conn'[k].owner = c /\ ~conn'[k].whole)
    BY <1>6, <2>1, DroppedLemma DEF ConnRecord
  <2>3. ASSUME NEW d \in Clients \ {c}
        PROVE  /\ link[d].conn # None => conn'[link[d].conn] = conn[link[d].conn]
               /\ HasConn(d) => conn'[call[d].conn] = conn[call[d].conn]
    BY <1>0, <1>6, <2>1, <2>2, OwnLemma DEF LinkRecord
  <2>4. Unused.whole = FALSE
    BY DEF Unused
  <2>5. Rest
    BY <1>0, <1>6, <2>1, <2>2, <2>3, <2>4, OthersConns
  <2>6. ConnsOf(c)'
    <3>1. link[c].view # "none" \/ call[c].op = "connect"
      BY <1>0, <1>6 DEF ConnsOf, HasConn
    <3>. QED
      BY <1>0, <1>6, <3>1 DEF ConnsOf, HasConn, Idle
  <2>. QED
    BY <2>5, <2>6 DEF ConnsInv
<1>7. CASE ProbeLost(c)
  <2>1. /\ call'[c].conn = None /\ call'[c].at = "redial" /\ call'[c].op = call[c].op
        /\ \A d \in Clients \ {c} : call'[d] = call[d]
        /\ HasConn(c) /\ UNCHANGED <<link, build>>
    BY <1>0, <1>7 DEF ProbeLost, CallRecord, HasConn
  <2>. QED
    BY <1>6, <1>7, <2>1, OwnLemma DEF ProbeLost
<1>8. CASE CannotIdentify(c) \/ (Lose(c) /\ Return(c, "lost", None, 0)) \/ Break(c)
  <2>1. PICK result \in {"unreachable", "lost", "broken"} : Return(c, result, None, 0)
    BY <1>8 DEF CannotIdentify, Break
  <2>2. 0 \in Ids /\ Idle.conn = None
    BY ConstantsAssumption DEF Ids, Idle
  <2>3. HasConn(c) /\ conn' = Dropped(call[c].conn) /\ UNCHANGED build
    BY <1>8 DEF CannotIdentify, Lose, Break, HasConn
  <2>. QED
    BY <1>6, <2>1, <2>2, <2>3, ReturnLemma
<1>9. CASE Lose(c) /\ ~Return(c, "lost", None, 0)
  <2>1. /\ call'[c].conn = None /\ call'[c].at = "dial" /\ call'[c].op = call[c].op
        /\ \A d \in Clients \ {c} : call'[d] = call[d]
        /\ HasConn(c) /\ UNCHANGED <<link, build>>
    BY <1>0, <1>9 DEF Lose, CallRecord, HasConn
  <2>. QED
    BY <1>6, <1>9, <2>1, OwnLemma DEF Lose
<1>10. ASSUME HasConn(c), UNCHANGED build,
              \A d \in Clients \ {c} : call'[d] = call[d] /\ link'[d] = link[d],
              \A j \in Conns \ {call[c].conn} : conn'[j] = conn[j],
              conn'[call[c].conn].owner = c, conn'[call[c].conn].whole => conn[call[c].conn].whole
       PROVE  Rest
  <2>1. ASSUME NEW d \in Clients \ {c}
        PROVE  /\ link[d].conn # None => conn'[link[d].conn] = conn[link[d].conn]
               /\ HasConn(d) => conn'[call[d].conn] = conn[call[d].conn]
    BY <1>0, <1>10, OwnLemma DEF LinkRecord
  <2>. QED
    BY <1>0, <1>10, <2>1, OwnLemma, OthersConns
<1>11. CASE Identify(c)
  <2>1. PICK k \in Conns : k = call[c].conn /\ conn[k] \in ConnRecord /\ conn[k].owner = c /\ conn[k].held /\ c # None
    BY <1>11, OwnLemma DEF Identify, HasConn
  <2>2. /\ conn'[k].owner = c /\ conn'[k].held /\ conn'[k].ident = c /\ (Clean(k) => Clean(k)')
        /\ conn'[k].whole = conn[k].whole /\ \A j \in Conns \ {k} : conn'[j] = conn[j]
    BY <1>0, <1>11, <2>1 DEF Identify, ConnRecord, Clean
  <2>3. /\ link'[c].view = call[c].view
        /\ link'[c].conn = IF call[c].op = "connect" THEN k ELSE None
        /\ call'[c] = IF call[c].op = "connect" THEN Idle ELSE [call[c] EXCEPT !.at = "send"]
        /\ \A d \in Clients \ {c} : call'[d] = call[d] /\ link'[d] = link[d]
    BY <1>0, <1>11, <2>1 DEF Identify
  <2>4. Rest
    BY <1>10, <1>11, <2>1, <2>2, <2>3 DEF Identify, HasConn
  <2>5. call[c].view # "none" /\ k # None /\ Clean(k) /\ call[c].at = "identify" /\ call[c].conn = k
    BY <1>0, <1>11, <2>1, ConstantsAssumption DEF Identify, ConnsOf, CallRecord, Builds
  <2>6. ASSUME call[c].op = "connect" PROVE ConnsOf(c)'
    BY <2>2, <2>3, <2>5, <2>6 DEF ConnsOf, HasConn, Idle
  <2>7. ASSUME call[c].op # "connect" PROVE ConnsOf(c)'
    <3>1. call'[c].at = "send" /\ call'[c].op = call[c].op /\ call'[c].conn = k /\ link'[c].conn = None
      BY <1>0, <2>3, <2>5, <2>7 DEF CallRecord
    <3>. QED
      BY <1>0, <2>2, <2>3, <2>5, <2>7, <3>1 DEF ConnsOf, HasConn
  <2>. QED
    BY <2>4, <2>6, <2>7 DEF ConnsInv
<1>12. CASE Send(c)
  <2>1. PICK k \in Conns : k = call[c].conn /\ conn[k] \in ConnRecord /\ conn[k].owner = c /\ conn[k].held
                           /\ link[c].conn = None
    BY <1>12, OwnLemma DEF Send, HasConn
  <2>2. /\ conn'[k].owner = c /\ conn'[k].held /\ conn'[k].ident = conn[k].ident
        /\ conn'[k].whole = conn[k].whole /\ \A j \in Conns \ {k} : conn'[j] = conn[j]
    BY <1>0, <1>12, <2>1 DEF Send, ConnRecord
  <2>3. /\ call'[c].at = "wait" /\ call'[c].conn = k /\ call'[c].op = call[c].op
        /\ UNCHANGED <<link, build>> /\ \A d \in Clients \ {c} : call'[d] = call[d]
    BY <1>0, <1>12, <2>1 DEF Send, CallRecord
  <2>4. Rest
    BY <1>10, <1>12, <2>1, <2>2, <2>3 DEF Send, HasConn
  <2>5. ConnsOf(c)'
    BY <1>0, <1>12, <2>1, <2>2, <2>3 DEF Send, ConnsOf, HasConn
  <2>. QED
    BY <2>4, <2>5 DEF ConnsInv
<1>13. CASE Receive(c)
  <2>1. PICK k \in Conns : k = call[c].conn /\ conn[k] \in ConnRecord /\ conn[k].owner = c /\ conn[k].held
                           /\ link[c].conn = None /\ HasConn(c)
    BY <1>13, OwnLemma DEF Receive, HasConn
  <2>2. /\ conn'[k].owner = c /\ conn'[k].held /\ conn'[k].ident = conn[k].ident
        /\ conn'[k].whole = conn[k].whole /\ conn'[k].req = conn[k].req /\ conn'[k].rep = Tail(conn[k].rep)
        /\ \A j \in Conns \ {k} : conn'[j] = conn[j]
    BY <1>0, <1>13, <2>1 DEF Receive, ConnRecord
  <2>3. PICK f \in Frame : conn[k].rep = <<f>> /\ AnswerOf(c, f) /\ conn[k].req = NoRequest
    <3>1. call[c].at = "wait" /\ conn[k].rep # <<>> /\ Head(conn[k].rep).result # "oversize"
      BY <1>13, <2>1 DEF Receive
    <3>2. ASSUME NEW f \in Frame, NEW g \in Frame, conn[k].rep = <<g, f>>, g.result = "oversize" PROVE FALSE
      BY <3>1, <3>2
    <3>. QED
      BY <2>1, <3>1, <3>2 DEF WaitInv, WaitOf
  <2>4. Clean(k)'
    BY <2>2, <2>3 DEF Clean
  <2>5. CASE call' = [call EXCEPT ![c].part = @ + 1, ![c].at = "send"] /\ UNCHANGED link
    <3>1. /\ call'[c].at = "send" /\ call'[c].conn = k /\ call'[c].op = call[c].op
          /\ \A d \in Clients \ {c} : call'[d] = call[d]
      BY <1>0, <2>1, <2>5 DEF CallRecord
    <3>2. Rest
      BY <1>10, <1>13, <2>1, <2>2, <2>5, <3>1 DEF Receive
    <3>3. ConnsOf(c)'
      <4>1. /\ conn[k].ident = c /\ call[c].op # "none" /\ call[c].op # "connect" /\ link[c].view # "none"
            /\ link'[c] = link[c] /\ k # None
        BY <1>0, <1>13, <2>1, <2>5 DEF Receive, ConnsOf, HasConn
      <4>. QED
        BY <2>1, <2>2, <2>4, <3>1, <4>1 DEF ConnsOf, HasConn
    <3>. QED
      BY <3>2, <3>3 DEF ConnsInv
  <2>6. CASE Return(c, f.result, k, f.answer)
    <3>1. /\ link'[c].conn = k /\ call'[c] = Idle /\ link'[c].view = link[c].view
          /\ \A d \in Clients \ {c} : call'[d] = call[d] /\ link'[d] = link[d]
      BY <2>3, <2>6, ReturnLemma DEF Frame, AnswerOf
    <3>2. Rest
      BY <1>10, <1>13, <2>1, <2>2, <3>1 DEF Receive
    <3>3. link[c].view # "none"
      BY <1>0, <1>13 DEF Receive, ConnsOf
    <3>4. ConnsOf(c)'
      BY <1>0, <1>13, <2>1, <2>2, <2>4, <3>1, <3>3 DEF Receive, ConnsOf, HasConn, Idle
    <3>. QED
      BY <3>2, <3>4 DEF ConnsInv
  <2>. QED
    BY <1>13, <2>1, <2>3, <2>5, <2>6 DEF Receive
<1>. QED
  BY <1>1, <1>2, <1>3, <1>4, <1>5, <1>7, <1>8, <1>9, <1>11, <1>12, <1>13 DEF Lose

\* A step of the daemon, which concerns no client, ...
DaemonStep == DaemonDies \/ Start \/ \E k \in Conns : Gate(k) \/ HangUp(k) \/ Run(k) \/ Cut(k)

\* ... leaves every call where it is, though a read may see one more value, ...
SameCall(c) ==
    /\ call'[c].at = call[c].at /\ call'[c].op = call[c].op /\ call'[c].id = call[c].id
    /\ call'[c].conn = call[c].conn /\ call'[c].view = call[c].view /\ call'[c].part = call[c].part
    /\ call[c].seen \subseteq call'[c].seen

\* ... and leaves a connection that is held to its client.
KeepsConn(k) ==
    /\ conn'[k].owner = None => conn'[k] = Unused
    /\ conn'[k].whole => conn[k].whole
    /\ conn[k].held => /\ conn'[k].owner = conn[k].owner /\ conn'[k].held /\ conn'[k].ident = conn[k].ident
                       /\ Clean(k) => Clean(k)'
    /\ \/ conn'[k].req = conn[k].req \/ conn'[k].req = NoRequest
       \/ conn'[k].req = [conn[k].req EXCEPT !.at = "run"] /\ conn[k].req.at = "sent"

\* A thread that has its answer.
LEMMA ReplyKeeps ==
    ASSUME Typed, ConnsInv, NEW k \in Conns, NEW frames \in Seq(Frame), Pending(k),
           conn' = Reply(k, frames)
    PROVE  \A j \in Conns : KeepsConn(j)
<1>0. \A j \in Conns : conn[j] \in ConnRecord /\ (conn[j].owner = None => conn[j] = Unused)
  BY DEF Typed, ConnsInv
<1>1. ASSUME NEW j \in Conns \ {k} PROVE KeepsConn(j)
  <2>1. Reply(k, frames)[j] = conn[j]
    BY DEF Reply, Typed
  <2>. QED
    BY <1>0, <2>1 DEF KeepsConn, Clean
<1>. DEFINE new == [conn[k] EXCEPT !.req = NoRequest, !.rep = conn[k].rep \o (IF conn[k].whole THEN frames ELSE <<>>)]
<1>2. conn[k].held => conn'[k] = new
  BY ReplyLemma
<1>3. new.owner = conn[k].owner /\ new.held = conn[k].held /\ new.ident = conn[k].ident
  BY <1>0 DEF ConnRecord
<1>4. ~Clean(k)
  BY DEF Clean, Pending, NoRequest
<1>5. conn[k].owner # None
  BY <1>0 DEF Pending, Unused, NoRequest
<1>6. /\ conn'[k].owner = None => conn'[k] = Unused
      /\ conn'[k].whole => conn[k].whole
      /\ conn'[k].req = NoRequest
  BY <1>5, ReplyLemma
<1>. HIDE DEF new
<1>7. KeepsConn(k)
  BY <1>2, <1>3, <1>4, <1>6 DEF KeepsConn
<1>. QED
  BY <1>1, <1>7

\* A refusal, or an answer, is a reply.
LEMMA FramesLemma ==
    ASSUME Typed, NEW k \in Conns
    PROVE  /\ \A why \in {"braked", "not_leader", "unknown"} :
                 <<[id |-> conn[k].req.id, result |-> why, answer |-> 0]>> \in Seq(Frame)
           /\ Frames(conn[k].req) \subseteq Seq(Frame)
<1>1. /\ conn[k].req.id \in Ids /\ 0 \in Ids
      /\ (IF conn[k].req.op = "get" THEN value ELSE 0) \in Ids
  BY ConstantsAssumption DEF Typed, ConnRecord, Request, Ids
<1>2. ASSUME NEW why \in {"braked", "not_leader", "unknown"}
      PROVE  <<[id |-> conn[k].req.id, result |-> why, answer |-> 0]>> \in Seq(Frame)
  <2>. DEFINE refused == [id |-> conn[k].req.id, result |-> why, answer |-> 0]
  <2>1. refused \in Frame
    BY <1>1 DEF Frame
  <2>. HIDE DEF refused
  <2>2. <<refused>> \in Seq(Frame)
    BY <2>1
  <2>. QED
    BY <2>2 DEF refused
<1>3. ASSUME NEW frames \in Frames(conn[k].req) PROVE frames \in Seq(Frame)
  <2>. DEFINE whole == [id |-> conn[k].req.id, result |-> "ok", answer |-> IF conn[k].req.op = "get" THEN value ELSE 0]
  <2>1. whole \in Frame
    BY <1>1 DEF Frame
  <2>. DEFINE over == [whole EXCEPT !.result = "oversize"]
              fail == [whole EXCEPT !.result = "failed"]
  <2>2. /\ over \in Frame /\ fail \in Frame
        /\ frames = <<whole>> \/ frames = <<over, whole>> \/ frames = <<fail>>
    <3>1. over \in Frame /\ fail \in Frame
      BY <2>1 DEF Frame
    <3>. QED
      BY <1>3, <3>1 DEF Frames
  <2>. HIDE DEF whole, over, fail
  <2>3. <<whole>> \in Seq(Frame) /\ <<over, whole>> \in Seq(Frame) /\ <<fail>> \in Seq(Frame)
    BY <2>1, <2>2
  <2>. QED
    BY <2>2, <2>3
<1>. QED
  BY <1>2, <1>3

LEMMA DaemonLemma ==
    ASSUME Typed, ConnsInv, DaemonStep
    PROVE  /\ UNCHANGED <<link, last, kind, calls>>
           /\ \A c \in Clients : SameCall(c)
           /\ \A k \in Conns : KeepsConn(k) /\ (conn'[k].whole => build' = build)
<1>. USE DEF daemon, history, counts
<1>0. /\ \A k \in Conns : conn[k] \in ConnRecord /\ (conn[k].owner = None => conn[k] = Unused)
      /\ \A c \in Clients : call[c] \in CallRecord
  BY DEF Typed, ConnsInv
<1>1. UNCHANGED <<link, last, kind, calls>>
  BY DEF DaemonStep, DaemonDies, Start, Gate, HangUp, Run, Cut
<1>2. ASSUME NEW c \in Clients PROVE SameCall(c)
  <2>1. CASE UNCHANGED call
    BY <2>1 DEF SameCall
  <2>2. CASE \E v : call'[c] = [call[c] EXCEPT !.seen = @ \cup {v}]
    BY <1>0, <2>2 DEF SameCall, CallRecord
  <2>3. UNCHANGED call \/ (\E v : call'[c] = [call[c] EXCEPT !.seen = @ \cup {v}]) \/ call'[c] = call[c]
    BY DEF DaemonStep, DaemonDies, Start, Gate, HangUp, Run, Cut
  <2>. QED
    BY <2>1, <2>2, <2>3 DEF SameCall
<1>3. Unused.whole = FALSE /\ Unused.owner = None /\ Unused.req = NoRequest /\ NoRequest.at = "none"
  BY DEF Unused, NoRequest
<1>4. ASSUME NEW k \in Conns, conn'[k] = Tidy([conn[k] EXCEPT !.req = NoRequest, !.whole = FALSE])
      PROVE  KeepsConn(k) /\ ~conn'[k].whole
  <2>. DEFINE new == [conn[k] EXCEPT !.req = NoRequest, !.whole = FALSE]
  <2>1. /\ new \in ConnRecord /\ new.owner = conn[k].owner /\ new.held = conn[k].held
        /\ new.ident = conn[k].ident /\ new.req = NoRequest /\ new.rep = conn[k].rep /\ ~new.whole
    BY <1>0, TidyLemma DEF ConnRecord
  <2>2. conn[k] = Unused => new = Unused
    BY <1>3 DEF Unused
  <2>. HIDE DEF new
  <2>3. conn'[k] = new \/ (conn'[k] = Unused /\ ~new.held)
    BY <1>4, <2>1, TidyLemma DEF new
  <2>. QED
    BY <1>0, <1>3, <2>1, <2>2, <2>3 DEF KeepsConn, Clean
<1>5. CASE DaemonDies
  BY <1>0, <1>1, <1>2, <1>4, <1>5 DEF DaemonDies, Typed
<1>6. CASE Start
  BY <1>0, <1>1, <1>2, <1>6 DEF Start, KeepsConn, Clean, ConnsInv
<1>7. ASSUME NEW k \in Conns, Gate(k) PROVE \A j \in Conns : KeepsConn(j)
  <2>1. CASE conn' = [conn EXCEPT ![k].req.at = "run"]
    <3>1. /\ conn'[k].req = [conn[k].req EXCEPT !.at = "run"] /\ conn'[k].owner = conn[k].owner
          /\ conn'[k].held = conn[k].held /\ conn'[k].whole = conn[k].whole /\ conn'[k].ident = conn[k].ident
          /\ \A j \in Conns \ {k} : conn'[j] = conn[j]
      BY <1>0, <2>1 DEF Typed, ConnRecord
    <3>2. conn[k].req.at = "sent" /\ ~Clean(k) /\ conn[k].owner # None
      BY <1>0, <1>3, <1>7 DEF Gate, Clean
    <3>. QED
      BY <1>0, <3>1, <3>2 DEF KeepsConn, Clean
  <2>2. CASE \E why \in {"braked", "not_leader", "unknown"} :
               conn' = Reply(k, <<[id |-> conn[k].req.id, result |-> why, answer |-> 0]>>)
    BY <1>7, <2>2, FramesLemma, ReplyKeeps DEF Gate, Pending
  <2>. QED
    BY <1>7, <2>1, <2>2 DEF Gate
<1>8. ASSUME NEW k \in Conns, HangUp(k) PROVE \A j \in Conns : KeepsConn(j)
  <2>1. conn'[k] = Tidy([conn[k] EXCEPT !.req = NoRequest, !.whole = FALSE])
        /\ \A j \in Conns \ {k} : conn'[j] = conn[j]
    BY <1>8 DEF HangUp, Typed
  <2>. QED
    BY <1>0, <1>4, <2>1 DEF KeepsConn, Clean
<1>9. ASSUME NEW k \in Conns, Run(k) PROVE \A j \in Conns : KeepsConn(j)
  BY <1>9, FramesLemma, ReplyKeeps DEF Run, Pending
<1>10. ASSUME NEW k \in Conns, Cut(k) PROVE \A j \in Conns : KeepsConn(j)
  <2>1. /\ conn'[k].owner = conn[k].owner /\ conn'[k].held = conn[k].held /\ ~conn'[k].whole
        /\ conn'[k].ident = conn[k].ident /\ conn'[k].rep = conn[k].rep
        /\ conn'[k].req = conn[k].req \/ (conn[k].req.at = "sent" /\ conn'[k].req = NoRequest)
        /\ \A j \in Conns \ {k} : conn'[j] = conn[j]
    BY <1>0, <1>10 DEF Cut, ConnRecord, Typed
  <2>2. conn[k].owner # None
    BY <1>0, <1>3, <1>10 DEF Cut
  <2>. QED
    BY <1>0, <2>1, <2>2 DEF KeepsConn, Clean
<1>11. build' = build \/ DaemonDies \/ Start
  BY DEF DaemonStep, Gate, HangUp, Run, Cut
<1>. QED
  BY <1>1, <1>2, <1>5, <1>6, <1>7, <1>8, <1>9, <1>10, <1>11 DEF DaemonStep

\* A step of a client ...
ClientStep(c) ==
    \/ \E op \in Ops : Begin(c, op)
    \/ Connect(c) \/ Dial(c) \/ CannotDial(c)
    \/ ProbeAnswered(c) \/ ProbeLost(c) \/ Identify(c) \/ CannotIdentify(c)
    \/ Send(c) \/ Lose(c) \/ Break(c) \/ Receive(c)

\* ... concerns its own call and its own connection.
LEMMA ClientLemma ==
    ASSUME Typed, ConnsInv, NEW c \in Clients, ClientStep(c)
    PROVE  /\ UNCHANGED <<build, value, brake, ran, torn>>
           /\ \A d \in Clients \ {c} :
                 /\ call'[d] = call[d] /\ link'[d] = link[d] /\ last'[d] = last[d]
                 /\ link[d].conn # None => conn'[link[d].conn] = conn[link[d].conn]
                 /\ HasConn(d) => conn'[call[d].conn] = conn[call[d].conn]
           /\ \A k \in Conns : \/ conn'[k] = conn[k]
                               \/ HasConn(c) /\ k = call[c].conn /\ (conn'[k].whole => conn[k].whole)
                               \/ conn[k] = Unused /\ conn'[k] = Dialled(c) /\ Dial(c)
           /\ \A k \in Conns : Pending(k)' =>
                 \/ conn'[k].req = conn[k].req
                 \/ /\ Send(c) /\ k = call[c].conn
                    /\ conn'[k].req = [at |-> "sent", op |-> call[c].op, id |-> call[c].id, part |-> call[c].part]
<1>. USE DEF daemon, history, counts
<1>0. /\ call \in [Clients -> CallRecord] /\ link \in [Clients -> LinkRecord] /\ last \in [Clients -> LastRecord]
      /\ conn \in [Conns -> ConnRecord] /\ \A k \in Conns : conn[k].owner = None => conn[k] = Unused
      /\ \A k \in Conns : conn[k] \in ConnRecord
      /\ Unused.whole = FALSE /\ Unused.req.at = "none" /\ \A d \in Clients : Dialled(d).req.at = "none"
  BY DEF Typed, ConnsInv, Unused, Dialled, NoRequest
<1>1. UNCHANGED <<build, value, brake, ran, torn>>
  BY DEF ClientStep, Begin, Connect, Dial, CannotDial, ProbeAnswered, ProbeLost, Identify, CannotIdentify,
     Send, Lose, Break, Receive
<1>2. ASSUME NEW d \in Clients \ {c} PROVE call'[d] = call[d] /\ link'[d] = link[d] /\ last'[d] = last[d]
  <2>1. CASE \E result, k, answer : Return(c, result, k, answer)
    BY <1>0, <2>1 DEF Return
  <2>. QED
    BY <1>0, <2>1 DEF ClientStep, Begin, Connect, Dial, CannotDial, ProbeAnswered, ProbeLost, Identify,
       CannotIdentify, Send, Lose, Break, Receive
<1>. DEFINE Kept(k) == \/ conn'[k] = conn[k]
                       \/ HasConn(c) /\ k = call[c].conn /\ (conn'[k].whole => conn[k].whole)
                       \/ conn[k] = Unused /\ conn'[k] = Dialled(c) /\ Dial(c)
            Request1(k) == Pending(k)' =>
                 \/ conn'[k].req = conn[k].req
                 \/ /\ Send(c) /\ k = call[c].conn
                    /\ conn'[k].req = [at |-> "sent", op |-> call[c].op, id |-> call[c].id, part |-> call[c].part]
<1>3. ASSUME NEW k \in Conns PROVE Kept(k) /\ Request1(k)
  <2>1. CASE UNCHANGED conn
    BY <2>1
  <2>2. CASE Dial(c)
    BY <1>0, <2>2 DEF Dial, Pending, UnusedConns
  <2>3. CASE HasConn(c) /\ conn' = Dropped(call[c].conn)
    <3>1. CASE k # call[c].conn
      <4>1. PICK j \in Conns : j = call[c].conn
        BY <2>3, OwnLemma
      <4>2. conn' = Dropped(j) /\ k \in Conns \ {j}
        BY <2>3, <3>1, <4>1
      <4>3. conn'[k] = conn[k]
        BY <4>2, DroppedLemma
      <4>. QED
        BY <4>3
    <3>2. CASE k = call[c].conn
      <4>1. conn'[k] = Unused \/ conn'[k] = [conn[k] EXCEPT !.held = FALSE, !.whole = FALSE]
        BY <2>3, <3>2, DroppedLemma
      <4>2. ~conn'[k].whole /\ (conn'[k].req = conn[k].req \/ conn'[k].req.at = "none")
        BY <1>0, <4>1 DEF ConnRecord
      <4>. QED
        BY <2>3, <3>2, <4>2 DEF Pending
    <3>. QED
      BY <3>1, <3>2
  <2>4. CASE Identify(c) \/ Send(c) \/ Receive(c)
    <3>1. HasConn(c) /\ call[c].conn \in Conns
      BY <2>4, OwnLemma DEF Identify, Send, Receive, HasConn
    <3>2. CASE Identify(c)
      BY <1>0, <3>1, <3>2 DEF Identify, ConnRecord, Pending
    <3>3. CASE Send(c)
      BY <1>0, <3>1, <3>3 DEF Send, ConnRecord, Pending
    <3>4. CASE Receive(c)
      BY <1>0, <3>1, <3>4 DEF Receive, ConnRecord, Pending
    <3>. QED
      BY <2>4, <3>2, <3>3, <3>4
  <2>. QED
    BY <2>1, <2>2, <2>3, <2>4 DEF ClientStep, Begin, Connect, CannotDial, ProbeAnswered, ProbeLost,
       CannotIdentify, Lose, Break, HasConn
<1>4. ASSUME NEW d \in Clients \ {c}
      PROVE  /\ link[d].conn # None => conn'[link[d].conn] = conn[link[d].conn]
             /\ HasConn(d) => conn'[call[d].conn] = conn[call[d].conn]
  <2>1. link[d].conn # None => link[d].conn \in Conns /\ conn[link[d].conn].owner = d /\ d # None
    BY <1>0, ConstantsAssumption DEF LinkRecord, ConnsInv, ConnsOf
  <2>2. Unused.owner = None
    BY DEF Unused
  <2>. QED
    BY <1>3, <2>1, <2>2, OwnLemma
<1>. HIDE DEF Kept, Request1
<1>. QED
  BY <1>1, <1>2, <1>3, <1>4 DEF Kept, Request1

\* Connections keep to their clients.
LEMMA ConnsKept == IndInv /\ [Next]_vars => ConnsInv'
<1>. SUFFICES ASSUME IndInv, [Next]_vars PROVE ConnsInv'
  OBVIOUS
<1>. USE DEF IndInv
<1>1. CASE DaemonStep
  <2>1. ASSUME NEW k \in Conns PROVE (conn'[k].owner = None => conn'[k] = Unused) /\ (conn'[k].whole => build' # "down")
    BY <1>1, DaemonLemma DEF KeepsConn, ConnsInv
  <2>2. ASSUME NEW c \in Clients PROVE ConnsOf(c)'
    <3>1. ConnsOf(c) /\ SameCall(c) /\ link'[c] = link[c]
      BY <1>1, DaemonLemma DEF ConnsInv
    <3>2. link[c].conn # None => KeepsConn(link[c].conn)
      BY <1>1, DaemonLemma DEF Typed, LinkRecord
    <3>3. HasConn(c) => KeepsConn(call[c].conn)
      BY <1>1, DaemonLemma, OwnLemma
    <3>. QED
      BY <3>1, <3>2, <3>3 DEF ConnsOf, SameCall, KeepsConn, HasConn, Clean
  <2>. QED
    BY <2>1, <2>2 DEF ConnsInv
<1>2. CASE UNCHANGED vars
  BY <1>2 DEF vars, daemon, history, counts, ConnsInv, ConnsOf, HasConn, Clean
<1>. QED
  BY <1>1, <1>2, ClientConns DEF Next, DaemonStep

\* Every variable keeps its type.
LEMMA TypesKept == IndInv /\ [Next]_vars => Typed'
<1>. SUFFICES ASSUME IndInv, [Next]_vars PROVE Typed'
  OBVIOUS
<1>1. CASE UNCHANGED vars
  BY <1>1 DEF vars, daemon, history, counts, IndInv, Typed
<1>. QED
  BY <1>1, ClientTypes, DaemonTypes DEF Next, IndInv

\* A view is of the daemon at the other end.
LEMMA ViewsKept == IndInv /\ [Next]_vars => ViewsInv'
<1>. SUFFICES ASSUME IndInv, [Next]_vars PROVE ViewsInv'
  OBVIOUS
<1>. USE DEF IndInv, daemon, history, counts
<1>0. /\ \A c \in Clients : call[c] \in CallRecord /\ link[c] \in LinkRecord
      /\ conn \in [Conns -> ConnRecord]
  BY DEF Typed
<1>. SUFFICES ASSUME NEW c \in Clients PROVE ViewsOf(c)'
  BY DEF ViewsInv
<1>1. ViewsOf(c)
  BY DEF ViewsInv
<1>2. CASE DaemonStep
  <2>1. SameCall(c) /\ UNCHANGED link /\ \A k \in Conns : conn'[k].whole => conn[k].whole /\ build' = build
    BY <1>2, DaemonLemma DEF KeepsConn
  <2>2. link[c].conn # None => link[c].conn \in Conns
    BY <1>0 DEF LinkRecord
  <2>3. HasConn(c) => call[c].conn \in Conns
    BY OwnLemma
  <2>. QED
    BY <1>1, <2>1, <2>2, <2>3 DEF SameCall, HasConn, ViewsOf
<1>3. ASSUME NEW d \in Clients \ {c}, ClientStep(d) PROVE ViewsOf(c)'
  <2>1. Typed /\ ConnsInv /\ c \in Clients \ {d}
    BY <1>3
  <2>2. /\ call'[c] = call[c] /\ link'[c] = link[c] /\ UNCHANGED build
        /\ link[c].conn # None => conn'[link[c].conn] = conn[link[c].conn]
        /\ HasConn(c) => conn'[call[c].conn] = conn[call[c].conn]
    BY <1>3, <2>1, ClientLemma
  <2>. QED
    BY <1>1, <2>2 DEF HasConn, ViewsOf
<1>4. CASE ClientStep(c)
  <2>1. UNCHANGED build
    BY <1>4, ClientLemma
  <2>2. ASSUME HasConn(c) PROVE conn'[call[c].conn].whole => conn[call[c].conn].whole
    <3>1. conn[call[c].conn] # Unused
      BY <2>2, OwnLemma DEF Unused
    <3>. QED
      BY <1>4, <2>2, <3>1, OwnLemma, ClientLemma
  <2>3. call[c] \in CallRecord /\ link[c] \in LinkRecord /\ call \in [Clients -> CallRecord] /\ link \in [Clients -> LinkRecord]
    BY DEF Typed
  <2>4. ASSUME NEW op \in Ops, Begin(c, op) PROVE ViewsOf(c)'
    <3>1. call'[c] = [Idle EXCEPT !.op = op, !.id = calls', !.conn = link[c].conn, !.seen = {value},
                                  !.at = IF link[c].conn = None THEN "dial" ELSE "send"]
      BY <2>3, <2>4 DEF Begin
    <3>2. /\ call'[c].conn = link[c].conn
          /\ call'[c].at = IF link[c].conn = None THEN "dial" ELSE "send"
      BY <3>1 DEF Idle
    <3>3. link'[c].conn = None /\ link'[c].view = link[c].view /\ UNCHANGED <<conn, build>>
      BY <2>3, <2>4 DEF Begin, LinkRecord
    <3>. QED
      BY <1>1, <3>2, <3>3 DEF ViewsOf, HasConn
  <2>5. CASE Connect(c) \/ Dial(c) \/ ProbeLost(c)
    <3>1. link[c].conn = None /\ UNCHANGED link
      BY <2>5 DEF Connect, Dial, ProbeLost, ConnsInv, ConnsOf
    <3>2. \/ call'[c].at \in {"dial", "probe"}
          \/ call'[c].at = "identify" /\ call'[c].view = "old"
          \/ call'[c].at = "redial" /\ call'[c].view = "old"
      <4>1. CASE Connect(c) \/ ProbeLost(c)
        BY <2>3, <4>1 DEF Connect, ProbeLost, CallRecord
      <4>2. CASE Dial(c)
        <5>1. PICK k \in Conns :
                call' = [call EXCEPT ![c].conn = k, ![c].at = IF call[c].at = "dial" THEN "probe" ELSE "identify"]
          BY <4>2 DEF Dial, UnusedConns
        <5>2. /\ call'[c].at = IF call[c].at = "dial" THEN "probe" ELSE "identify"
              /\ call'[c].view = call[c].view
          BY <2>3, <5>1 DEF CallRecord
        <5>. QED
          BY <1>1, <4>2, <5>2 DEF Dial, ViewsOf
      <4>. QED
        BY <2>5, <4>1, <4>2
    <3>. QED
      BY <3>1, <3>2 DEF ViewsOf, HasConn
  <2>6. CASE ProbeAnswered(c)
    <3>1. link[c].conn = None /\ UNCHANGED <<link, conn>>
      BY <2>6 DEF ProbeAnswered, ConnsInv, ConnsOf
    <3>2. call'[c].at = "identify" /\ call'[c].view = build
      BY <2>3, <2>6 DEF ProbeAnswered, CallRecord
    <3>. QED
      BY <2>1, <3>1, <3>2 DEF ViewsOf, HasConn
  <2>7. CASE Identify(c)
    <3>1. HasConn(c) /\ call[c].at = "identify" /\ link'[c].view = call[c].view
      BY <2>3, <2>7 DEF Identify, HasConn
    <3>2. link'[c].conn \in {None, call[c].conn}
      BY <2>3, <2>7 DEF Identify
    <3>3. call'[c] = Idle \/ (call'[c].at = "send" /\ call'[c].conn = call[c].conn)
      BY <2>3, <2>7 DEF Identify, CallRecord
    <3>. QED
      BY <1>1, <2>1, <2>2, <3>1, <3>2, <3>3 DEF ViewsOf, HasConn, Idle
  <2>8. CASE Send(c) \/ (Receive(c) /\ UNCHANGED link)
    <3>1. HasConn(c) /\ link[c].conn = None /\ UNCHANGED link /\ call[c].at \in {"send", "wait"}
      BY <2>8, OwnLemma DEF Send, Receive, HasConn
    <3>2. call'[c].at \in {"send", "wait"} /\ call'[c].conn = call[c].conn
      <4>1. CASE Send(c)
        BY <2>3, <4>1 DEF Send, CallRecord
      <4>2. CASE Receive(c) /\ call' = [call EXCEPT ![c].part = @ + 1, ![c].at = "send"]
        BY <2>3, <4>2 DEF CallRecord
      <4>3. CASE Receive(c) /\ \E result, answer : Return(c, result, call[c].conn, answer) /\ UNCHANGED link
        BY <2>3, <3>1, <4>3, OwnLemma DEF Return, LinkRecord
      <4>. QED
        BY <2>8, <4>1, <4>2, <4>3 DEF Receive
    <3>. QED
      BY <1>1, <2>1, <2>2, <3>1, <3>2 DEF ViewsOf, HasConn
  <2>9. ASSUME NEW result, NEW k, NEW answer, Return(c, result, k, answer),
               k = None \/ (k = call[c].conn /\ call[c].at = "wait")
        PROVE  ViewsOf(c)'
    <3>1. link'[c].view = link[c].view /\ link'[c].conn = k /\ call'[c] = Idle
      BY <2>3, <2>9 DEF Return, LinkRecord
    <3>. QED
      BY <1>1, <2>1, <2>2, <2>9, <3>1 DEF ViewsOf, HasConn, Idle
  <2>10. CASE Lose(c) /\ UNCHANGED link
    <3>1. call'[c].at = "dial" \/ \E result, answer : Return(c, result, None, answer)
      BY <2>3, <2>10 DEF Lose, CallRecord
    <3>2. CASE call'[c].at = "dial"
      <4>1. link[c].conn = None
        BY <2>10, OwnLemma DEF Lose, HasConn
      <4>. QED
        BY <2>10, <3>2, <4>1 DEF ViewsOf, HasConn
    <3>. QED
      BY <2>9, <3>1, <3>2
  <2>11. CASE Receive(c) \/ CannotDial(c) \/ CannotIdentify(c) \/ Lose(c) \/ Break(c)
    BY <2>8, <2>9, <2>10, <2>11 DEF Receive, CannotDial, CannotIdentify, Lose, Break
  <2>. QED
    BY <1>4, <2>4, <2>5, <2>6, <2>7, <2>8, <2>11 DEF ClientStep
<1>5. CASE UNCHANGED vars
  BY <1>1, <1>5 DEF vars, ViewsOf, HasConn
<1>. QED
  BY <1>2, <1>3, <1>4, <1>5 DEF Next, DaemonStep, ClientStep
-----------------------------------------------------------------------------
(* Calls.                                                                  *)

\* A client begins a call, ...
Begins(c, op) ==
    /\ call[c].at = "idle" /\ calls' = calls + 1 /\ calls' \in Ids /\ kind' = [kind EXCEPT ![calls'] = op]
    /\ call'[c].op = op /\ call'[c].id = calls' /\ call'[c].part = 1 /\ call'[c].at \in {"dial", "send"}
    /\ UNCHANGED <<conn, last>>

\* ... or connects, which is no call, ...
Connects(c) == ~Going(c)' /\ ~Send(c) /\ UNCHANGED <<kind, calls, last>>

\* ... or goes on with a call, ...
GoesOn(c) ==
    /\ Going(c) /\ Going(c)' /\ UNCHANGED <<kind, calls, last>>
    /\ call'[c].id = call[c].id /\ call'[c].op = call[c].op
    /\ call'[c].part = call[c].part /\ call'[c].seen = call[c].seen
    /\ call[c].at = "wait" => call[c].op \in {"get", "set"}
    /\ call'[c].at = "wait" => Send(c)

\* ... with the next chunk, the last one being acknowledged, ...
Answered(c, f) == call[c].at = "wait" /\ conn[call[c].conn].rep = <<f>> /\ AnswerOf(c, f) /\ ~Pending(call[c].conn)
Advances(c) ==
    /\ Going(c) /\ Going(c)' /\ UNCHANGED <<kind, calls, last>> /\ ~Send(c)
    /\ \E f \in Frame : Answered(c, f) /\ f.result = "ok"
    /\ call'[c].id = call[c].id /\ call'[c].op = call[c].op /\ call[c].op = "keys" /\ call'[c].at = "send"
    /\ call'[c].part = call[c].part + 1 /\ call'[c].part \in Parts

\* ... or returns from it.
Returns(c) ==
    /\ call[c].at # "idle" /\ call'[c] = Idle /\ UNCHANGED <<kind, calls>> /\ ~Send(c)
    /\ last'[c].op = call[c].op /\ last'[c].id = call[c].id /\ last'[c].seen = call[c].seen
    /\ last'[c].parts = IF last'[c].result = "ok" THEN Chunks ELSE call[c].part - 1
    /\ \/ last'[c].result = "unreachable" /\ call[c].at # "wait"
       \/ last'[c].result = "lost" /\ call[c].at = "wait"
       \/ last'[c].result = "broken" /\ call[c].op = "get"
       \/ \E f \in Frame : /\ Answered(c, f) /\ last'[c].result = f.result /\ last'[c].answer = f.answer
                           /\ f.result = "ok" /\ call[c].op = "keys" => call[c].part = Chunks

LEMMA CallLemma ==
    ASSUME Typed, ConnsInv, WaitInv, NEW c \in Clients, ClientStep(c)
    PROVE  (\E op \in Ops : Begins(c, op)) \/ Connects(c) \/ GoesOn(c) \/ Advances(c) \/ Returns(c)
<1>. USE DEF daemon, history, counts
<1>0. /\ call \in [Clients -> CallRecord] /\ call[c] \in CallRecord /\ link[c] \in LinkRecord /\ ConnsOf(c)
      /\ Idle.at = "idle"
  BY DEF Typed, ConnsInv, Idle
<1>1. ASSUME NEW op \in Ops, Begin(c, op) PROVE Begins(c, op)
  <2>1. calls' = calls + 1 /\ calls' \in Ids
    <3>1. calls \in 0..MaxCalls /\ MaxCalls \in Nat /\ calls < MaxCalls /\ calls' = calls + 1
      BY <1>1, ConstantsAssumption DEF Begin, Typed, Ids
    <3>. QED
      BY <3>1 DEF Ids
  <2>2. call'[c] = [Idle EXCEPT !.op = op, !.id = calls', !.conn = link[c].conn, !.seen = {value},
                                !.at = IF link[c].conn = None THEN "dial" ELSE "send"]
    BY <1>0, <1>1 DEF Begin
  <2>3. call'[c].op = op /\ call'[c].id = calls' /\ call'[c].part = 1 /\ call'[c].at \in {"dial", "send"}
    BY <2>2 DEF Idle
  <2>. QED
    BY <1>1, <2>1, <2>3 DEF Begin, Begins
<1>2. CASE Connect(c)
  <2>1. call'[c].op = "connect"
    BY <1>0, <1>2 DEF Connect, CallRecord
  <2>. QED
    BY <1>2, <2>1 DEF Connect, Connects, Going, Ops, Send
<1>3. CASE Dial(c)
  <2>1. PICK k \in Conns :
          call' = [call EXCEPT ![c].conn = k, ![c].at = IF call[c].at = "dial" THEN "probe" ELSE "identify"]
    BY <1>3 DEF Dial, UnusedConns
  <2>2. /\ call'[c].at \in {"probe", "identify"} /\ call'[c].op = call[c].op /\ call'[c].id = call[c].id
        /\ call'[c].part = call[c].part /\ call'[c].seen = call[c].seen
    BY <1>0, <2>1 DEF CallRecord
  <2>. QED
    BY <1>3, <2>2 DEF Dial, Connects, GoesOn, Going, Send
<1>4. CASE ProbeAnswered(c) \/ ProbeLost(c)
  <2>1. /\ call'[c].at \in {"identify", "redial"} /\ call'[c].op = call[c].op /\ call'[c].id = call[c].id
        /\ call'[c].part = call[c].part /\ call'[c].seen = call[c].seen
    BY <1>0, <1>4 DEF ProbeAnswered, ProbeLost, CallRecord
  <2>. QED
    BY <1>4, <2>1 DEF ProbeAnswered, ProbeLost, Connects, GoesOn, Going, Send
<1>5. CASE Identify(c)
  <2>1. \/ call'[c] = Idle
        \/ /\ call'[c].at = "send" /\ call'[c].op = call[c].op /\ call'[c].id = call[c].id
           /\ call'[c].part = call[c].part /\ call'[c].seen = call[c].seen
    BY <1>0, <1>5 DEF Identify, CallRecord
  <2>. QED
    BY <1>0, <1>5, <2>1 DEF Identify, Connects, GoesOn, Going, Send
<1>6. CASE Send(c)
  <2>1. /\ call'[c].at = "wait" /\ call'[c].op = call[c].op /\ call'[c].id = call[c].id
        /\ call'[c].part = call[c].part /\ call'[c].seen = call[c].seen
    BY <1>0, <1>6 DEF Send, CallRecord
  <2>2. call[c].op \in Ops
    BY <1>0, <1>6 DEF Send, ConnsOf, CallRecord
  <2>. QED
    BY <1>6, <2>1, <2>2 DEF Send, GoesOn, Going
<1>7. CASE CannotDial(c) \/ CannotIdentify(c)
  <2>1. Return(c, "unreachable", None, 0) /\ 0 \in Ids /\ call[c].at \in {"dial", "redial", "identify"}
    BY <1>7, ConstantsAssumption DEF CannotDial, CannotIdentify, Ids
  <2>. QED
    BY <1>7, <2>1, ReturnLemma DEF CannotDial, CannotIdentify, Returns, Send
<1>8. CASE Lose(c)
  <2>1. CASE Return(c, "lost", None, 0)
    <3>1. 0 \in Ids
      BY ConstantsAssumption DEF Ids
    <3>. QED
      BY <1>8, <2>1, <3>1, ReturnLemma DEF Lose, Returns, Send
  <2>2. CASE ~Return(c, "lost", None, 0)
    <3>1. /\ call'[c].at = "dial" /\ call'[c].op = call[c].op /\ call'[c].id = call[c].id
          /\ call'[c].part = call[c].part /\ call'[c].seen = call[c].seen
      BY <1>0, <1>8, <2>2 DEF Lose, CallRecord
    <3>2. call[c].op \in {"get", "set"}
      BY <1>8, <2>2 DEF Lose, Replay
    <3>. QED
      BY <1>8, <2>2, <3>1, <3>2 DEF Lose, GoesOn, Going, Ops
  <2>. QED
    BY <2>1, <2>2
<1>9. CASE Break(c)
  <2>1. Return(c, "broken", None, 0) /\ 0 \in Ids /\ call[c].at = "wait"
    BY <1>9, ConstantsAssumption DEF Break, Ids
  <2>2. call[c].op = "get"
    <3>1. conn[call[c].conn].rep # <<>> /\ Head(conn[call[c].conn].rep).result = "oversize"
      BY <1>9 DEF Break
    <3>2. ASSUME NEW f \in Frame, conn[call[c].conn].rep = <<f>>, AnswerOf(c, f) PROVE FALSE
      BY <3>1, <3>2 DEF AnswerOf
    <3>. QED
      BY <2>1, <3>1, <3>2 DEF WaitInv, WaitOf
  <2>. QED
    BY <1>9, <2>1, <2>2, ReturnLemma DEF Break, Returns, Send
<1>10. CASE Receive(c)
  <2>1. PICK k \in Conns : k = call[c].conn /\ call[c].at = "wait"
    BY <1>10, OwnLemma DEF Receive, HasConn
  <2>2. PICK f \in Frame : conn[k].rep = <<f>> /\ AnswerOf(c, f) /\ ~Pending(k)
    <3>1. conn[k].rep # <<>> /\ Head(conn[k].rep).result # "oversize"
      BY <1>10, <2>1 DEF Receive
    <3>2. ASSUME NEW f \in Frame, NEW g \in Frame, conn[k].rep = <<g, f>>, g.result = "oversize" PROVE FALSE
      BY <3>1, <3>2
    <3>. QED
      BY <2>1, <3>1, <3>2 DEF WaitInv, WaitOf
  <2>3. Head(conn[k].rep) = f /\ Answered(c, f)
    BY <2>1, <2>2 DEF Answered
  <2>4. CASE /\ f.result = "ok" /\ call[c].op = "keys" /\ call[c].part < Chunks
             /\ call' = [call EXCEPT ![c].part = @ + 1, ![c].at = "send"] /\ UNCHANGED <<link, last>>
    <3>1. /\ call'[c].at = "send" /\ call'[c].op = call[c].op /\ call'[c].id = call[c].id
          /\ call'[c].part = call[c].part + 1
      BY <1>0, <2>4 DEF CallRecord
    <3>2. call[c].part + 1 \in Parts
      BY <1>0, <2>4, ConstantsAssumption DEF CallRecord, Parts
    <3>. QED
      BY <1>10, <2>1, <2>3, <2>4, <3>1, <3>2 DEF Receive, Advances, Going, Ops, Send
  <2>5. CASE /\ Return(c, f.result, k, f.answer)
             /\ ~(f.result = "ok" /\ call[c].op = "keys" /\ call[c].part < Chunks)
    <3>1. f.result \in {"ok", "failed", "braked", "not_leader", "unknown"} /\ f.answer \in Ids
      BY <2>2 DEF Frame, AnswerOf
    <3>2. f.result = "ok" /\ call[c].op = "keys" => call[c].part = Chunks
      BY <1>0, <2>5, ConstantsAssumption DEF CallRecord, Parts
    <3>. QED
      BY <1>10, <2>1, <2>3, <2>5, <3>1, <3>2, ReturnLemma DEF Receive, Returns, Send
  <2>. QED
    BY <1>10, <2>1, <2>3, <2>4, <2>5 DEF Receive
<1>. QED
  BY <1>1, <1>2, <1>3, <1>4, <1>5, <1>6, <1>7, <1>8, <1>9, <1>10 DEF ClientStep

\* Requests are done one by one, and only those of connections.
LEMMA RunLemma ==
    ASSUME Typed, ConnsInv, DaemonStep
    PROVE  /\ \A k \in Conns : Pending(k)' =>
                  /\ Pending(k) /\ conn'[k].req.id = conn[k].req.id
                  /\ conn'[k].req.op = conn[k].req.op /\ conn'[k].req.part = conn[k].req.part
           /\ \/ UNCHANGED ran
              \/ \E k \in Conns : /\ Run(k) /\ Pending(k) /\ ~Pending(k)'
                                  /\ ran' = [ran EXCEPT ![conn[k].req.id][conn[k].req.part] = @ + 1]
<1>. USE DEF daemon, history, counts
<1>1. ASSUME NEW k \in Conns, Pending(k)'
      PROVE  /\ Pending(k) /\ conn'[k].req.id = conn[k].req.id
             /\ conn'[k].req.op = conn[k].req.op /\ conn'[k].req.part = conn[k].req.part
  <2>1. KeepsConn(k) /\ conn[k].req \in Request
    BY DaemonLemma DEF Typed, ConnRecord
  <2>. QED
    BY <1>1, <2>1 DEF KeepsConn, Pending, NoRequest, Request
<1>2. ASSUME NEW k \in Conns, Run(k)
      PROVE  Pending(k) /\ ~Pending(k)' /\ ran' = [ran EXCEPT ![conn[k].req.id][conn[k].req.part] = @ + 1]
  <2>1. Pending(k) /\ ran' = [ran EXCEPT ![conn[k].req.id][conn[k].req.part] = @ + 1]
    BY <1>2 DEF Run, Pending
  <2>2. PICK frames \in Frames(conn[k].req) : conn' = Reply(k, frames)
    BY <1>2 DEF Run
  <2>3. conn'[k].req = NoRequest
    BY <2>2, FramesLemma, ReplyLemma
  <2>. QED
    BY <2>1, <2>3 DEF Pending, NoRequest
<1>3. UNCHANGED ran \/ \E k \in Conns : Run(k)
  BY DEF DaemonStep, DaemonDies, Start, Gate, HangUp, Cut
<1>. QED
  BY <1>1, <1>2, <1>3

\* Ids stay unique.
LEMMA IdsKept == IndInv /\ [Next]_vars => IdsInv'
<1>. SUFFICES ASSUME IndInv, [Next]_vars PROVE IdsInv'
  OBVIOUS
<1>. USE DEF IndInv
<1>a. \A n \in Ids : n \in Nat
  BY ConstantsAssumption DEF Ids
<1>b. /\ calls \in Nat /\ (\A n \in 1..calls : n \in Nat /\ n # calls + 1 /\ n \in 1..(calls + 1))
      /\ calls + 1 \in 1..(calls + 1)
      /\ \A n \in Ids : (n = 0 \/ n > calls) <=> n \notin 1..calls
      /\ \A n \in Ids : n = 0 \/ n > calls + 1 => n \notin 1..calls /\ n # calls + 1
  BY <1>a DEF Typed
<1>0. /\ calls \in Ids
      /\ \A k \in Conns : conn[k].req.id \in Ids /\ conn[k].req.part \in Parts
      /\ \A c \in Clients : call[c] \in CallRecord /\ last[c] \in LastRecord
      /\ kind \in [Ids -> Ops \cup {"none"}] /\ ran \in [Ids -> [Parts -> Nat]]
  BY ConstantsAssumption DEF Typed, ConnRecord, Request
<1>. DEFINE New  == \A n \in Ids : n = 0 \/ n > calls => kind[n] = "none" /\ \A i \in Parts : ran[n][i] = 0
            Reqs == \A k \in Conns : Pending(k) => LET r == conn[k].req IN
                       /\ r.id \in 1..calls /\ r.op = kind[r.id] /\ r.op \in Ops
                       /\ r.op # "keys" => r.part = 1
            Calls(c) == Going(c) =>
                       /\ call[c].id \in 1..calls /\ kind[call[c].id] = call[c].op
                       /\ call[c].op # "keys" => call[c].part = 1
                       /\ \A d \in Clients : Going(d) /\ call[d].id = call[c].id => d = c
                       /\ \A d \in Clients : last[d].op \in Ops => last[d].id # call[c].id
            Lasts(c) == last[c].op \in Ops => last[c].id \in 1..calls /\ kind[last[c].id] = last[c].op
<1>1. New /\ Reqs /\ \A c \in Clients : Calls(c) /\ Lasts(c)
  BY DEF IdsInv
<1>2. CASE DaemonStep
  <2>1. UNCHANGED <<kind, calls, last>> /\ \A c \in Clients : SameCall(c)
    BY <1>2, DaemonLemma
  <2>2. \A k \in Conns : Pending(k)' =>
                  /\ Pending(k) /\ conn'[k].req.id = conn[k].req.id
                  /\ conn'[k].req.op = conn[k].req.op /\ conn'[k].req.part = conn[k].req.part
    BY <1>2, RunLemma
  <2>3. Reqs'
    BY <1>1, <2>1, <2>2
  <2>4. New'
    <3>1. CASE UNCHANGED ran
      BY <1>1, <2>1, <3>1
    <3>2. ASSUME NEW k \in Conns, Pending(k), ran' = [ran EXCEPT ![conn[k].req.id][conn[k].req.part] = @ + 1] PROVE New'
      <4>1. conn[k].req.id \in 1..calls
        BY <1>1, <3>2
      <4>2. \A n \in Ids : n # conn[k].req.id => ran'[n] = ran[n]
        BY <1>0, <3>2
      <4>. QED
        BY <1>b, <1>1, <2>1, <4>1, <4>2
    <3>. QED
      BY <1>2, <3>1, <3>2, RunLemma
  <2>5. \A c \in Clients : Calls(c)' /\ Lasts(c)'
    BY <1>1, <2>1 DEF SameCall, Going
  <2>. QED
    BY <2>3, <2>4, <2>5 DEF IdsInv
<1>3. ASSUME NEW c \in Clients, ClientStep(c) PROVE IdsInv'
  <2>1. /\ UNCHANGED ran /\ \A d \in Clients \ {c} : call'[d] = call[d] /\ last'[d] = last[d]
        /\ \A k \in Conns : Pending(k)' =>
                 \/ conn'[k].req = conn[k].req
                 \/ /\ Send(c) /\ k = call[c].conn
                    /\ conn'[k].req = [at |-> "sent", op |-> call[c].op, id |-> call[c].id, part |-> call[c].part]
    BY <1>3, ClientLemma
  <2>2. ASSUME NEW op \in Ops, Begins(c, op) PROVE IdsInv'
    <3>1. calls' = calls + 1 /\ calls' \in Ids /\ kind'[calls'] = op /\ \A n \in Ids \ {calls'} : kind'[n] = kind[n]
      BY <1>0, <2>2 DEF Begins
    <3>2. New'
      BY <1>b, <1>1, <2>1, <3>1
    <3>i. \A n \in 1..calls : kind'[n] = kind[n] /\ n \in 1..calls' /\ n # calls'
      BY <1>0, <1>b, <2>2 DEF Begins, Typed
    <3>3. Reqs'
      BY <1>1, <2>2, <3>i DEF Begins, Pending
    <3>4. \A d \in Clients : Lasts(d)'
      BY <1>1, <2>2, <3>i DEF Begins
    <3>5. ASSUME NEW d \in Clients PROVE Calls(d)'
      <4>0. UNCHANGED last /\ call'[c].id = calls' /\ call'[c].op = op /\ call'[c].part = 1
        BY <2>2 DEF Begins
      <4>1. \A e \in Clients \ {c} : Going(e)' <=> Going(e)
        BY <2>1 DEF Going
      <4>2. CASE d # c
        <5>1. Going(d)' => /\ Going(d) /\ call'[d] = call[d] /\ call[d].id \in 1..calls
                           /\ call[d].id \in 1..calls' /\ call[d].id # calls'
                           /\ kind'[call[d].id] = kind[call[d].id]
          BY <1>1, <2>1, <3>i, <4>1, <4>2
        <5>. QED
          BY <1>1, <2>1, <4>0, <4>1, <4>2, <5>1
      <4>3. CASE d = c
        <5>1. calls' \in 1..calls'
          BY <1>b, <3>1
        <5>2. \A e \in Clients \ {c} : Going(e) => call'[e].id # calls'
          BY <1>1, <2>1, <3>i
        <5>3. \A e \in Clients : last[e].op \in Ops => last[e].id # calls'
          BY <1>1, <3>i
        <5>. QED
          BY <3>1, <4>0, <4>1, <4>3, <5>1, <5>2, <5>3
      <4>. QED
        BY <4>2, <4>3
    <3>. QED
      BY <3>2, <3>3, <3>4, <3>5 DEF IdsInv
  <2>3. ASSUME UNCHANGED <<kind, calls>> PROVE New' /\ Reqs'
    <3>1. New'
      BY <1>1, <2>1, <2>3
    <3>2. Send(c) => Going(c)
      BY <1>0 DEF Send, ConnsInv, ConnsOf, Going, CallRecord
    <3>3. ASSUME NEW k \in Conns, Pending(k)'
          PROVE  LET r == conn'[k].req IN
                       /\ r.id \in 1..calls /\ r.op = kind[r.id] /\ r.op \in Ops
                       /\ r.op # "keys" => r.part = 1
      <4>1. CASE conn'[k].req = conn[k].req
        BY <1>1, <3>3, <4>1 DEF Pending
      <4>2. CASE Send(c) /\ conn'[k].req = [at |-> "sent", op |-> call[c].op, id |-> call[c].id, part |-> call[c].part]
        BY <1>1, <3>2, <4>2 DEF Going
      <4>. QED
        BY <2>1, <3>3, <4>1, <4>2
    <3>. QED
      BY <2>3, <3>1, <3>3
  <2>4. CASE Connects(c) \/ GoesOn(c) \/ Advances(c)
    <3>1. UNCHANGED <<kind, calls, last>> /\ (Going(c)' => Going(c) /\ call'[c].id = call[c].id
            /\ call'[c].op = call[c].op /\ (call[c].op = "keys" \/ call'[c].part = call[c].part))
      BY <2>4 DEF Connects, GoesOn, Advances
    <3>2. ASSUME NEW d \in Clients PROVE Calls(d)' /\ Lasts(d)'
      BY <1>1, <2>1, <3>1 DEF Going
    <3>. QED
      BY <2>3, <3>1, <3>2 DEF IdsInv
  <2>5. CASE Returns(c)
    <3>1. UNCHANGED <<kind, calls>> /\ ~Going(c)' /\ last'[c].op = call[c].op /\ last'[c].id = call[c].id
          /\ (last'[c].op \in Ops => Going(c))
      BY <2>5 DEF Returns, Going, Idle
    <3>2. ASSUME NEW d \in Clients PROVE Calls(d)' /\ Lasts(d)'
      BY <1>1, <2>1, <3>1 DEF Going
    <3>. QED
      BY <2>3, <3>1, <3>2 DEF IdsInv
  <2>. QED
    BY <1>3, <2>2, <2>4, <2>5, CallLemma
<1>4. CASE UNCHANGED vars
  BY <1>1, <1>4 DEF vars, daemon, history, counts, IdsInv, Pending, Going
<1>. QED
  BY <1>2, <1>3, <1>4 DEF Next, DaemonStep, ClientStep

\* Nothing that may not be replayed is under way twice.
LEMMA OnceKept == IndInv /\ [Next]_vars => OnceInv'
<1>. SUFFICES ASSUME IndInv, [Next]_vars PROVE OnceInv'
  OBVIOUS
<1>. USE DEF IndInv
<1>0. /\ calls \in Nat /\ Parts \subseteq Nat
      /\ \A i \in Parts : i > 1 => i - 1 \in Parts
      /\ \A k \in Conns : conn[k].req.id \in Ids /\ conn[k].req.part \in Parts
      /\ \A c \in Clients : call[c].id \in Ids /\ call[c].part \in Parts
      /\ kind \in [Ids -> Ops \cup {"none"}] /\ ran \in [Ids -> [Parts -> Nat]]
  <2>1. Parts \subseteq Nat /\ \A i \in Parts : i > 1 => i - 1 \in Parts
    BY ConstantsAssumption DEF Parts
  <2>2. calls \in Nat
    BY ConstantsAssumption DEF Typed, Ids
  <2>. QED
    BY <2>1, <2>2 DEF Typed, ConnRecord, Request, CallRecord
<1>b. \A n \in 1..calls : n \in Ids /\ n # calls + 1
  BY ConstantsAssumption DEF Typed, Ids
<1>. DEFINE AtMost == \A n \in Ids, i \in Parts : Once(n) => ran[n][i] <= 1
            Prefix == \A n \in Ids, i \in Parts : kind[n] = "keys" /\ i > 1 => ran[n][i] <= ran[n][i - 1]
<1>1. AtMost /\ Prefix /\ (\A k \in Conns : RequestOnce(k)) /\ (\A c \in Clients : CallOnce(c))
  BY DEF OnceInv
<1>2. CASE DaemonStep
  <2>1. UNCHANGED <<kind, calls, last>> /\ (\A c \in Clients : SameCall(c))
    BY <1>2, DaemonLemma
  <2>2. \A k \in Conns : Pending(k)' =>
                  /\ Pending(k) /\ conn'[k].req.id = conn[k].req.id
                  /\ conn'[k].req.op = conn[k].req.op /\ conn'[k].req.part = conn[k].req.part
    BY <1>2, RunLemma
  <2>3. CASE UNCHANGED ran
    <3>1. (\A k \in Conns : RequestOnce(k)')
      BY <1>1, <2>1, <2>2, <2>3 DEF RequestOnce, Once
    <3>2. \A c \in Clients : CallOnce(c)'
      BY <1>1, <2>1, <2>2, <2>3 DEF CallOnce, Once, SameCall, Going
    <3>. QED
      BY <1>1, <2>1, <2>3, <3>1, <3>2 DEF OnceInv, Once
  <2>4. ASSUME NEW k \in Conns, Pending(k), ~Pending(k)',
               ran' = [ran EXCEPT ![conn[k].req.id][conn[k].req.part] = @ + 1]
        PROVE  OnceInv'
    <3>1. PICK n \in Ids, p \in Parts : n = conn[k].req.id /\ p = conn[k].req.part
      BY <1>0
    <3>2. /\ ran'[n][p] = ran[n][p] + 1 /\ (\A i \in Parts \ {p} : ran'[n][i] = ran[n][i])
          /\ \A m \in Ids \ {n} : ran'[m] = ran[m]
      BY <1>0, <2>4, <3>1
    <3>3. Once(n) => ran[n][p] = 0 /\ (\A i \in Parts : ran[n][i] > 0 <=> i < p)
                     /\ \A j \in Conns : Pending(j) /\ conn[j].req.id = n => j = k
      <4>1. Once(n) => (\A i \in Parts : ran[n][i] > 0 <=> i < p)
                       /\ \A j \in Conns : Pending(j) /\ conn[j].req.id = n => j = k
        BY <1>1, <2>4, <3>1 DEF RequestOnce
      <4>. QED
        BY <1>0, <4>1
    <3>4. ASSUME NEW m \in Ids, NEW i \in Parts, Once(m) PROVE ran'[m][i] <= 1
      <4>1. ran[m][i] <= 1 /\ ran[m][i] \in Nat
        BY <1>0, <1>1, <3>4
      <4>2. CASE m = n /\ i = p
        BY <3>2, <3>3, <3>4, <4>2
      <4>3. CASE ~(m = n /\ i = p)
        BY <3>2, <4>1, <4>3
      <4>. QED
        BY <4>2, <4>3
    <3>5. ASSUME NEW m \in Ids, NEW i \in Parts, kind[m] = "keys", i > 1 PROVE ran'[m][i] <= ran'[m][i - 1]
      <4>1. ran[m][i] <= ran[m][i - 1] /\ i - 1 \in Parts /\ ran[m][i] \in Nat /\ ran[m][i - 1] \in Nat /\ i \in Nat
        BY <1>0, <1>1, <3>5
      <4>2. CASE m # n
        BY <3>2, <4>1, <4>2
      <4>3. CASE m = n
        <5>1. Once(n)
          BY <3>5, <4>3 DEF Once
        <5>2. CASE i = p
          BY <3>2, <3>3, <4>1, <4>3, <5>1, <5>2
        <5>3. CASE i # p
          BY <3>2, <4>1, <4>3, <5>3
        <5>. QED
          BY <5>2, <5>3
      <4>. QED
        BY <4>2, <4>3
    <3>6. ASSUME NEW j \in Conns PROVE RequestOnce(j)'
      <4>1. Pending(j)' /\ Once(conn[j].req.id) => conn[j].req.id # n
        BY <2>2, <2>4, <3>3
      <4>. QED
        BY <1>0, <1>1, <2>1, <2>2, <3>2, <4>1 DEF RequestOnce, Once
    <3>7. ASSUME NEW c \in Clients PROVE CallOnce(c)'
      <4>1. CASE call[c].id # n
        <5>1. ran'[call[c].id] = ran[call[c].id]
          BY <1>0, <3>2, <4>1
        <5>. QED
          BY <1>1, <2>1, <2>2, <5>1 DEF CallOnce, Once, SameCall, Going
      <4>2. ASSUME call[c].id = n, Going(c), Once(n) PROVE CallOnce(c)'
        <5>1. call[c].at = "wait" /\ k = call[c].conn
          BY <1>1, <2>4, <3>1, <4>2 DEF CallOnce
        <5>2. call[c].part = p
          BY <2>4, <3>1, <5>1 DEF WaitInv, WaitOf
        <5>3. \A i \in Parts : (i < p => ran'[n][i] > 0) /\ (ran'[n][i] > 0 => i <= p)
          <6>. SUFFICES ASSUME NEW i \in Parts
                        PROVE  (i < p => ran'[n][i] > 0) /\ (ran'[n][i] > 0 => i <= p)
            OBVIOUS
          <6>1. i \in Nat /\ p \in Nat /\ ran[n][i] \in Nat /\ ran[n][p] \in Nat
            BY <1>0
          <6>2. CASE i = p
            BY <3>2, <6>1, <6>2
          <6>3. CASE i # p
            BY <3>2, <3>3, <4>2, <6>1, <6>3
          <6>. QED
            BY <6>2, <6>3
        <5>. QED
          BY <1>1, <2>1, <2>2, <4>2, <5>1, <5>2, <5>3 DEF CallOnce, SameCall
      <4>3. (call[c].id = n /\ Going(c) /\ Once(n)) \/ call[c].id # n \/ CallOnce(c)'
        BY <2>1 DEF CallOnce, SameCall, Going, Once
      <4>. QED
        BY <4>1, <4>2, <4>3
    <3>. QED
      BY <2>1, <3>4, <3>5, <3>6, <3>7 DEF OnceInv, Once
  <2>. QED
    BY <1>2, <2>3, <2>4, RunLemma
<1>3. ASSUME NEW c \in Clients, ClientStep(c) PROVE OnceInv'
  <2>1. /\ UNCHANGED ran /\ (\A d \in Clients \ {c} : call'[d] = call[d] /\ last'[d] = last[d])
        /\ \A k \in Conns : Pending(k)' =>
                 \/ conn'[k].req = conn[k].req
                 \/ /\ Send(c) /\ k = call[c].conn
                    /\ conn'[k].req = [at |-> "sent", op |-> call[c].op, id |-> call[c].id, part |-> call[c].part]
    BY <1>3, ClientLemma
  <2>. DEFINE OnceNext(n) == kind'[n] \notin {"get", "set"}
  <2>2. /\ \A n \in Ids : kind'[n] = kind[n] \/ (n = calls + 1 /\ \A i \in Parts : ran[n][i] = 0)
        /\ \A n \in 1..calls : kind'[n] = kind[n]
    <3>1. CASE UNCHANGED kind
      BY <1>b, <3>1
    <3>2. ASSUME NEW op \in Ops, Begins(c, op) PROVE /\ \A n \in Ids \ {calls + 1} : kind'[n] = kind[n]
                                                     /\ \A i \in Parts : ran[calls + 1][i] = 0
      BY <1>0, <3>2 DEF Begins, IdsInv
    <3>3. UNCHANGED kind \/ \E op \in Ops : Begins(c, op)
      BY <1>3, CallLemma DEF Connects, GoesOn, Advances, Returns
    <3>. QED
      BY <1>b, <3>1, <3>2, <3>3
  <2>3. AtMost' /\ Prefix'
    BY <1>0, <1>1, <2>1, <2>2 DEF Once
  <2>4. Send(c) => /\ Going(c) /\ call[c].at = "send" /\ call'[c].at = "wait" /\ call'[c].conn = call[c].conn
                   /\ call'[c].id = call[c].id
    BY DEF Send, ConnsInv, ConnsOf, Going, CallRecord, Typed
  <2>5. ASSUME NEW k \in Conns PROVE RequestOnce(k)'
    <3>. SUFFICES ASSUME Pending(k)', OnceNext(conn'[k].req.id)
                  PROVE  LET r == conn'[k].req IN
                           /\ \A i \in Parts : ran'[r.id][i] > 0 <=> i < r.part
                           /\ \A j \in Conns : Pending(j)' /\ conn'[j].req.id = r.id => j = k
      BY DEF RequestOnce, Once
    <3>1. conn'[k].req.id \in 1..calls /\ Once(conn'[k].req.id)
      <4>1. ASSUME conn'[k].req = conn[k].req PROVE conn'[k].req.id \in 1..calls
        BY <4>1 DEF IdsInv, Pending
      <4>2. ASSUME Send(c), conn'[k].req.id = call[c].id PROVE conn'[k].req.id \in 1..calls
        BY <2>4, <4>2 DEF IdsInv
      <4>3. conn'[k].req.id \in 1..calls
        BY <2>1, <4>1, <4>2
      <4>. QED
        BY <2>2, <4>3 DEF Once
    <3>2. CASE conn'[k].req = conn[k].req
      <4>1. Pending(k) /\ Once(conn[k].req.id)
        BY <3>1, <3>2 DEF Pending
      <4>2. Send(c) => conn[k].req.id # call[c].id \/ ~Once(call[c].id)
        BY <1>1, <2>4, <4>1 DEF CallOnce
      <4>. QED
        BY <1>1, <2>1, <3>2, <4>1, <4>2 DEF RequestOnce, Pending
    <3>3. CASE /\ Send(c) /\ k = call[c].conn
               /\ conn'[k].req = [at |-> "sent", op |-> call[c].op, id |-> call[c].id, part |-> call[c].part]
      <4>1. Once(call[c].id) /\ conn'[k].req.id = call[c].id /\ conn'[k].req.part = call[c].part
        BY <3>1, <3>3
      <4>2. \A j \in Conns : Pending(j) => conn[j].req.id # call[c].id
        BY <1>1, <2>4, <3>3, <4>1 DEF CallOnce
      <4>3. ASSUME NEW i \in Parts PROVE ran[call[c].id][i] > 0 <=> i < call[c].part
        <5>1. /\ i < call[c].part => ran[call[c].id][i] > 0
              /\ ran[call[c].id][i] > 0 => i <= call[c].part
              /\ ran[call[c].id][call[c].part] = 0
          BY <1>1, <2>4, <3>3, <4>1 DEF CallOnce
        <5>2. i \in Nat /\ call[c].part \in Nat
          BY <1>0
        <5>. QED
          BY <5>1, <5>2
      <4>. QED
        BY <2>1, <3>3, <4>1, <4>2, <4>3 DEF Pending
    <3>. QED
      BY <2>1, <3>2, <3>3
  <2>6. ASSUME NEW d \in Clients \ {c} PROVE CallOnce(d)'
    <3>1. Going(d) => /\ call[d].id \in 1..calls /\ (OnceNext(call[d].id) <=> Once(call[d].id))
                      /\ Send(c) => call[d].id # call[c].id
      BY <2>2, <2>4 DEF IdsInv, Once
    <3>. QED
      BY <1>1, <2>1, <3>1 DEF CallOnce, Going, Pending, Once
  <2>7. ASSUME NEW op \in Ops, Begins(c, op) PROVE CallOnce(c)'
    <3>1. call'[c].id = calls + 1 /\ call'[c].part = 1 /\ call'[c].at # "wait" /\ calls + 1 \in Ids /\ UNCHANGED conn
      BY <2>7 DEF Begins
    <3>2. \A i \in Parts : ran[calls + 1][i] = 0
      BY <1>0, <3>1 DEF IdsInv
    <3>3. \A k \in Conns : Pending(k) => conn[k].req.id # calls + 1
      BY <1>0 DEF IdsInv
    <3>4. call'[c].part \in Parts /\ \A i \in Parts : ~(i < 1)
      BY <3>1, ConstantsAssumption DEF Parts
    <3>5. \A i \in Parts : ran'[call'[c].id][i] = 0
      BY <2>1, <3>1, <3>2
    <3>6. \A k \in Conns : ~(Pending(k)' /\ conn'[k].req.id = call'[c].id)
      BY <3>1, <3>3 DEF Pending
    <3>. QED
      BY <3>1, <3>4, <3>5, <3>6 DEF CallOnce
  <2>8. ASSUME GoesOn(c) PROVE CallOnce(c)'
    <3>1. Going(c) /\ call[c].id \in 1..calls /\ (OnceNext(call[c].id) <=> Once(call[c].id))
          /\ call[c].op = kind[call[c].id]
      BY <2>2, <2>8 DEF GoesOn, IdsInv, Once
    <3>2. Once(call[c].id) => call[c].at # "wait"
      BY <2>8, <3>1 DEF GoesOn, Once
    <3>3. ASSUME Once(call[c].id), NEW k \in Conns, Pending(k)', conn'[k].req.id = call[c].id
          PROVE  Send(c) /\ k = call[c].conn
      BY <1>1, <2>1, <3>1, <3>2, <3>3 DEF CallOnce, Pending
    <3>. QED
      BY <1>1, <2>1, <2>4, <2>8, <3>1, <3>2, <3>3 DEF GoesOn, CallOnce, Once
  <2>9. ASSUME Advances(c) PROVE CallOnce(c)'
    <3>1. Going(c) /\ call[c].id \in 1..calls /\ (OnceNext(call[c].id) <=> Once(call[c].id))
      BY <2>2, <2>9 DEF Advances, IdsInv, Once
    <3>2. ran[call[c].id][call[c].part] > 0 /\ ~Pending(call[c].conn) /\ call[c].at = "wait"
      BY <2>9 DEF Advances, Answered, AnswerOf
    <3>3. /\ call'[c].id = call[c].id /\ call'[c].part = call[c].part + 1 /\ call[c].part + 1 \in Parts
          /\ ~Send(c) /\ call'[c].at = "send"
      BY <2>9 DEF Advances
    <3>4. ASSUME Once(call[c].id)
          PROVE  /\ \A i \in Parts : /\ i < call[c].part + 1 => ran[call[c].id][i] > 0
                                     /\ ran[call[c].id][i] > 0 => i < call[c].part + 1
                 /\ \A k \in Conns : Pending(k) => conn[k].req.id # call[c].id
      <4>1. /\ \A i \in Parts : /\ i < call[c].part => ran[call[c].id][i] > 0
                                /\ ran[call[c].id][i] > 0 => i <= call[c].part
            /\ \A k \in Conns : Pending(k) /\ conn[k].req.id = call[c].id => k = call[c].conn
        BY <1>1, <3>1, <3>4 DEF CallOnce
      <4>2. \A i \in Parts : /\ i < call[c].part + 1 => i < call[c].part \/ i = call[c].part
                             /\ i <= call[c].part => i < call[c].part + 1
        <5>. SUFFICES ASSUME NEW i \in Parts
                      PROVE  /\ i < call[c].part + 1 => i < call[c].part \/ i = call[c].part
                             /\ i <= call[c].part => i < call[c].part + 1
          OBVIOUS
        <5>1. i \in Nat /\ call[c].part \in Nat
          BY <1>0
        <5>. QED
          BY <5>1
      <4>. QED
        BY <3>2, <4>1, <4>2
    <3>5. Once(call[c].id) => ran[call[c].id][call[c].part + 1] = 0
      <4>1. ran[call[c].id][call[c].part + 1] \in Nat /\ call[c].part \in Nat
        BY <1>0, <3>3
      <4>. QED
        BY <3>3, <3>4, <4>1
    <3>7. \A i \in Parts : i < call[c].part + 1 => i <= call[c].part + 1
      <4>. SUFFICES ASSUME NEW i \in Parts, i < call[c].part + 1 PROVE i <= call[c].part + 1
        OBVIOUS
      <4>1. i \in Nat /\ call[c].part \in Nat
        BY <1>0
      <4>. QED
        BY <4>1
    <3>6. \A k \in Conns : Pending(k)' => Pending(k) /\ conn'[k].req = conn[k].req
      BY <2>1, <3>3 DEF Pending
    <3>. QED
      BY <2>1, <3>1, <3>3, <3>4, <3>5, <3>6, <3>7 DEF CallOnce, Once
  <2>10. ASSUME Connects(c) \/ Returns(c) PROVE CallOnce(c)'
    BY <2>10 DEF Connects, Returns, CallOnce, Going, Idle
  <2>11. CallOnce(c)'
    BY <1>3, <2>7, <2>8, <2>9, <2>10, CallLemma
  <2>. QED
    BY <2>3, <2>5, <2>6, <2>11 DEF OnceInv
<1>4. CASE UNCHANGED vars
  BY <1>1, <1>4 DEF vars, daemon, history, counts, OnceInv, RequestOnce, CallOnce, Once, Pending, Going
<1>. QED
  BY <1>2, <1>3, <1>4 DEF Next, DaemonStep, ClientStep
-----------------------------------------------------------------------------
(* Replies.                                                                *)

Refusal(k, f) ==
    /\ f \in Frame /\ f.result \in {"braked", "not_leader", "unknown"} /\ conn[k].req.op \in {"keys", "brake"}
    /\ f.result = "not_leader" => conn[k].ident # Leader

\* What a step of the daemon puts on a connection that its client holds: nothing, a refusal
\* of its request or the answer to it.
LEMMA RepLemma ==
    ASSUME Typed, ConnsInv, DaemonStep, NEW k \in Conns, conn[k].held
    PROVE  \/ conn'[k].rep = conn[k].rep
           \/ /\ Pending(k) /\ ~Pending(k)' /\ UNCHANGED <<ran, call>>
              /\ \E f \in Frame : Refusal(k, f) /\ conn'[k].rep = conn[k].rep \o <<f>>
           \/ /\ Pending(k) /\ ~Pending(k)' /\ Run(k)
              /\ \E frames \in Frames(conn[k].req) : conn'[k].rep = conn[k].rep \o frames
<1>. USE DEF daemon, history, counts
<1>0. /\ conn \in [Conns -> ConnRecord] /\ conn[k] \in ConnRecord /\ conn[k].rep \in Seq(Frame)
  BY DEF Typed, ConnRecord
<1>1. ASSUME conn'[k] = conn[k] PROVE conn'[k].rep = conn[k].rep
  BY <1>1
<1>2. ASSUME conn'[k] = Tidy([conn[k] EXCEPT !.req = NoRequest, !.whole = FALSE])
      PROVE  conn'[k].rep = conn[k].rep
  <2>. DEFINE new == [conn[k] EXCEPT !.req = NoRequest, !.whole = FALSE]
  <2>1. new \in ConnRecord /\ new.held /\ new.rep = conn[k].rep
    BY <1>0, TidyLemma DEF ConnRecord
  <2>. HIDE DEF new
  <2>2. conn'[k] = new
    BY <1>2, <2>1, TidyLemma DEF new
  <2>. QED
    BY <2>1, <2>2
<1>3. ASSUME NEW j \in Conns \ {k}, NEW frames \in Seq(Frame), conn' = Reply(j, frames)
      PROVE  conn'[k].rep = conn[k].rep
  <2>1. j \in Conns /\ k \in Conns \ {j}
    OBVIOUS
  <2>2. \A i \in Conns \ {j} : Reply(j, frames)[i] = conn[i]
    BY <2>1, ReplyLemma
  <2>. QED
    BY <1>3, <2>1, <2>2
<1>4. ASSUME NEW frames \in Seq(Frame), conn' = Reply(k, frames)
      PROVE  ~Pending(k)' /\ (conn'[k].rep = conn[k].rep \/ conn'[k].rep = conn[k].rep \o frames)
  <2>. DEFINE sent == IF conn[k].whole THEN frames ELSE <<>>
              all  == conn[k].rep \o sent
  <2>1. sent = frames \/ sent = <<>>
    OBVIOUS
  <2>2. conn'[k] = [conn[k] EXCEPT !.req = NoRequest, !.rep = all]
    BY <1>4, ReplyLemma
  <2>3. all = conn[k].rep \/ all = conn[k].rep \o frames
    <3>1. conn[k].rep \o <<>> = conn[k].rep
      BY <1>0
    <3>. QED
      BY <2>1, <3>1
  <2>. HIDE DEF all, sent
  <2>4. conn'[k].rep = all /\ conn'[k].req = NoRequest
    BY <1>0, <2>2 DEF ConnRecord
  <2>. QED
    BY <2>3, <2>4 DEF Pending, NoRequest
<1>5. CASE DaemonDies
  BY <1>2, <1>5 DEF DaemonDies
<1>6. CASE Start
  BY <1>6 DEF Start
<1>7. ASSUME NEW j \in Conns, Gate(j)
      PROVE  \/ conn'[k].rep = conn[k].rep
             \/ /\ Pending(k) /\ ~Pending(k)' /\ UNCHANGED <<ran, call>>
                /\ \E f \in Frame : Refusal(k, f) /\ conn'[k].rep = conn[k].rep \o <<f>>
  <2>1. UNCHANGED <<ran, call>> /\ Pending(j)
    BY <1>7 DEF Gate, Pending
  <2>2. ASSUME conn' = [conn EXCEPT ![j].req.at = "run"] PROVE conn'[k].rep = conn[k].rep
    BY <1>0, <2>2 DEF ConnRecord
  <2>3. ASSUME NEW why \in {"braked", "not_leader", "unknown"}, conn[j].req.op \in {"keys", "brake"},
               why = "not_leader" => conn[j].ident # Leader,
               conn' = Reply(j, <<[id |-> conn[j].req.id, result |-> why, answer |-> 0]>>)
        PROVE  conn'[k].rep = conn[k].rep
               \/ (j = k /\ ~Pending(k)' /\ \E f \in Frame : Refusal(k, f) /\ conn'[k].rep = conn[k].rep \o <<f>>)
    <3>. DEFINE f == [id |-> conn[j].req.id, result |-> why, answer |-> 0]
    <3>1. <<f>> \in Seq(Frame) /\ f.result = why
      BY FramesLemma
    <3>2. f \in Frame
      BY ConstantsAssumption DEF Typed, ConnRecord, Request, Ids, Frame
    <3>. HIDE DEF f
    <3>3. CASE j # k
      <4>1. conn'[k].rep = conn[k].rep
        BY <1>3, <2>3, <3>1, <3>3 DEF f
      <4>. QED
        BY <4>1
    <3>4. CASE j = k
      <4>1. conn' = Reply(k, <<f>>)
        BY <2>3, <3>4 DEF f
      <4>2. ~Pending(k)' /\ (conn'[k].rep = conn[k].rep \/ conn'[k].rep = conn[k].rep \o <<f>>)
        BY <1>4, <3>1, <4>1
      <4>3. Refusal(k, f)
        BY <2>3, <3>1, <3>2, <3>4 DEF Refusal
      <4>. QED
        BY <3>2, <3>4, <4>2, <4>3
    <3>. QED
      BY <3>3, <3>4
  <2>4. \/ conn' = [conn EXCEPT ![j].req.at = "run"]
        \/ \E why \in {"braked", "not_leader", "unknown"} :
              /\ conn[j].req.op \in {"keys", "brake"} /\ (why = "not_leader" => conn[j].ident # Leader)
              /\ conn' = Reply(j, <<[id |-> conn[j].req.id, result |-> why, answer |-> 0]>>)
    BY <1>7 DEF Gate
  <2>. QED
    BY <2>1, <2>2, <2>3, <2>4
<1>8. ASSUME NEW j \in Conns, HangUp(j) PROVE conn'[k].rep = conn[k].rep
  BY <1>0, <1>1, <1>2, <1>8 DEF HangUp
<1>9. ASSUME NEW j \in Conns, Run(j)
      PROVE  \/ conn'[k].rep = conn[k].rep
             \/ /\ Pending(k) /\ ~Pending(k)' /\ Run(k)
                /\ \E frames \in Frames(conn[k].req) : conn'[k].rep = conn[k].rep \o frames
  <2>1. PICK frames \in Frames(conn[j].req) : conn' = Reply(j, frames)
    BY <1>9 DEF Run
  <2>2. frames \in Seq(Frame)
    BY FramesLemma
  <2>. QED
    BY <1>3, <1>4, <1>9, <2>1, <2>2 DEF Run, Pending
<1>10. ASSUME NEW j \in Conns, Cut(j) PROVE conn'[k].rep = conn[k].rep
  BY <1>0, <1>10 DEF Cut, ConnRecord
<1>. QED
  BY <1>5, <1>6, <1>7, <1>8, <1>9, <1>10 DEF DaemonStep

\* A client that waits gets the reply to its own request.
LEMMA WaitKept == IndInv /\ [Next]_vars => WaitInv'
<1>. SUFFICES ASSUME IndInv, [Next]_vars PROVE WaitInv'
  OBVIOUS
<1>. USE DEF IndInv
<1>0. /\ \A k \in Conns : conn[k].req.id \in Ids /\ conn[k].req.part \in Parts /\ conn[k].rep \in Seq(Frame)
      /\ \A c \in Clients : call[c] \in CallRecord /\ call[c].id \in Ids /\ call[c].part \in Parts
      /\ ran \in [Ids -> [Parts -> Nat]]
  BY DEF Typed, ConnRecord, Request, CallRecord
<1>1. ASSUME NEW c \in Clients, call[c].at = "wait"
      PROVE  Going(c) /\ HasConn(c) /\ WaitOf(c)
  BY <1>0, <1>1 DEF ConnsInv, ConnsOf, Going, HasConn, CallRecord, WaitInv
<1>2. CASE DaemonStep
  <2>. SUFFICES ASSUME NEW c \in Clients, call'[c].at = "wait" PROVE WaitOf(c)'
    BY DEF WaitInv, WaitOf
  <2>1. UNCHANGED kind /\ SameCall(c)
    BY <1>2, DaemonLemma
  <2>2. call[c].at = "wait" /\ Going(c) /\ HasConn(c) /\ WaitOf(c) /\ call[c].op \in Ops
    BY <1>1, <2>1 DEF SameCall, Going
  <2>3. PICK k \in Conns : k = call[c].conn /\ conn[k].held /\ conn[k].ident = c
    BY <2>2, OwnLemma DEF ConnsInv, ConnsOf
  <2>4. PICK n \in Ids, p \in Parts : n = call[c].id /\ p = call[c].part
    BY <1>0
  <2>5. /\ call'[c].conn = k /\ call'[c].id = n /\ call'[c].part = p /\ call'[c].op = call[c].op
        /\ call[c].seen \subseteq call'[c].seen
    BY <2>1, <2>3, <2>4 DEF SameCall
  <2>6. /\ Pending(k) => /\ conn[k].req.id = n /\ conn[k].req.op = call[c].op
                         /\ conn[k].req.part = p /\ conn[k].rep = <<>>
        /\ ~Pending(k) => conn[k].req = NoRequest
        /\ kind[n] = call[c].op /\ kind'[n] = kind[n]
    BY <2>1, <2>2, <2>3, <2>4 DEF WaitOf, IdsInv
  <2>7. Pending(k)' => /\ Pending(k) /\ conn'[k].req.id = n /\ conn'[k].req.op = call[c].op
                       /\ conn'[k].req.part = p
    BY <1>2, <2>6, RunLemma
  <2>8. ~Pending(k)' => conn'[k].req = NoRequest
    <3>1. KeepsConn(k) /\ conn[k].req \in Request
      BY <1>2, DaemonLemma DEF Typed, ConnRecord
    <3>. QED
      BY <2>6, <3>1 DEF KeepsConn, Pending, Request
  <2>9. /\ \A i \in Parts : ran[n][i] > 0 => ran'[n][i] > 0
        /\ Once(n) /\ ~Pending(k) => ran'[n] = ran[n]
    <3>1. CASE UNCHANGED ran
      BY <3>1
    <3>2. ASSUME NEW j \in Conns, Pending(j),
                 ran' = [ran EXCEPT ![conn[j].req.id][conn[j].req.part] = @ + 1]
          PROVE  /\ \A i \in Parts : ran[n][i] > 0 => ran'[n][i] > 0
                 /\ Once(n) /\ ~Pending(k) => ran'[n] = ran[n]
      <4>1. CASE conn[j].req.id # n
        BY <1>0, <3>2, <4>1
      <4>2. CASE conn[j].req.id = n
        <5>1. PICK q \in Parts : q = conn[j].req.part
          BY <1>0
        <5>2. ran'[n][q] = ran[n][q] + 1 /\ ran[n][q] \in Nat /\ \A i \in Parts \ {q} : ran'[n][i] = ran[n][i]
          BY <1>0, <3>2, <4>2, <5>1
        <5>3. \A i \in Parts : ran[n][i] > 0 => ran'[n][i] > 0
          BY <5>2
        <5>4. Once(n) => j = k
          BY <2>2, <2>3, <2>4, <3>2, <4>2 DEF OnceInv, CallOnce
        <5>. QED
          BY <3>2, <5>3, <5>4
      <4>. QED
        BY <4>1, <4>2
    <3>. QED
      BY <1>2, <3>1, <3>2, RunLemma
  <2>10. ASSUME NEW f \in Frame, AnswerOf(c, f), ~Pending(k) PROVE AnswerOf(c, f)'
    <3>1. /\ f.result # "oversize"
          /\ f.result = "ok" => ran[n][p] > 0 /\ (call[c].op = "get" => f.answer \in call[c].seen)
          /\ f.result \notin {"ok", "failed"} => Once(n) /\ ran[n][p] = 0
          /\ f.result = "not_leader" => c # Leader
      BY <2>4, <2>10 DEF AnswerOf
    <3>. QED
      BY <2>5, <2>6, <2>9, <2>10, <3>1 DEF AnswerOf, Once
  <2>11. CASE conn'[k].rep = conn[k].rep
    <3>1. CASE conn[k].rep = <<>>
      BY <2>5, <2>7, <2>8, <2>11, <3>1 DEF WaitOf
    <3>2. ASSUME NEW f \in Frame, conn[k].rep = <<f>>, AnswerOf(c, f) PROVE WaitOf(c)'
      <4>1. ~Pending(k) /\ AnswerOf(c, f)'
        BY <2>6, <2>10, <3>2
      <4>. QED
        BY <2>5, <2>7, <2>8, <2>11, <3>2, <4>1 DEF WaitOf
    <3>3. ASSUME NEW f \in Frame, NEW g \in Frame, conn[k].rep = <<g, f>>, g.result = "oversize", call[c].op = "get"
          PROVE  WaitOf(c)'
      <4>1. ~Pending(k)
        BY <2>6, <3>3
      <4>. QED
        BY <2>5, <2>7, <2>8, <2>11, <3>3, <4>1 DEF WaitOf
    <3>. QED
      BY <2>2, <2>3, <3>1, <3>2, <3>3 DEF WaitOf
  <2>12. ASSUME NEW f \in Frame, Pending(k), ~Pending(k)', conn'[k].rep = <<f>>, AnswerOf(c, f)'
         PROVE  WaitOf(c)'
    BY <2>5, <2>8, <2>12 DEF WaitOf
  <2>13. ASSUME NEW f \in Frame, Pending(k), ~Pending(k)', UNCHANGED <<ran, call>>, Refusal(k, f),
                conn'[k].rep = conn[k].rep \o <<f>>
         PROVE  WaitOf(c)'
    <3>1. conn'[k].rep = <<f>>
      <4>1. <<f>> \in Seq(Frame) /\ <<>> \o <<f>> = <<f>>
        OBVIOUS
      <4>. QED
        BY <2>6, <2>13, <4>1
    <3>2. Once(n) /\ kind'[n] \notin {"get", "set"}
      BY <2>6, <2>13 DEF Refusal, Once
    <3>3. ran[n][p] = 0
      <4>1. ran[n][p] > 0 <=> p < p
        BY <2>6, <2>13, <3>2 DEF OnceInv, RequestOnce
      <4>2. ran[n][p] \in Nat /\ p \in Nat
        BY <1>0, ConstantsAssumption DEF Parts
      <4>. QED
        BY <4>1, <4>2
    <3>4. AnswerOf(c, f)'
      BY <2>3, <2>5, <2>13, <3>2, <3>3 DEF AnswerOf, Refusal, Once
    <3>. QED
      BY <2>12, <2>13, <3>1, <3>4
  <2>14. ASSUME NEW frames \in Frames(conn[k].req), Pending(k), ~Pending(k)', Run(k),
                conn'[k].rep = conn[k].rep \o frames
         PROVE  WaitOf(c)'
    <3>1. PICK whole \in Frame, over \in Frame :
                /\ frames = <<whole>> \/ (frames = <<over, whole>> /\ conn[k].req.op = "get")
                /\ whole.result \in {"ok", "failed"} /\ over.result = "oversize"
                /\ conn[k].req.op = "get" => whole.answer = value
      <4>. DEFINE w == [id |-> conn[k].req.id, result |-> "ok", answer |-> IF conn[k].req.op = "get" THEN value ELSE 0]
                  o == [w EXCEPT !.result = "oversize"]
                  b == [w EXCEPT !.result = "failed"]
      <4>1. /\ \/ frames = <<w>> \/ (frames = <<o, w>> /\ conn[k].req.op = "get")
               \/ frames = <<b>> /\ conn[k].req.op = "keys"
            /\ w.result = "ok" /\ o.result = "oversize" /\ b.result = "failed"
            /\ conn[k].req.op = "get" => w.answer = value
        BY <2>14 DEF Frames
      <4>2. w \in Frame
        BY ConstantsAssumption DEF Typed, ConnRecord, Request, Ids, Frame
      <4>3. o \in Frame /\ b \in Frame
        BY <4>2 DEF Frame
      <4>. HIDE DEF w, o, b
      <4>. QED
        BY <4>1, <4>2, <4>3
    <3>3. conn'[k].rep = frames
      <4>0. <<whole>> \in Seq(Frame) /\ <<over, whole>> \in Seq(Frame)
        OBVIOUS
      <4>1. frames \in Seq(Frame)
        BY <3>1, <4>0
      <4>2. <<>> \o frames = frames
        BY <4>1
      <4>. QED
        BY <2>6, <2>14, <4>2
    <3>4. ran'[n][p] > 0
      <4>1. ran'[n][p] = ran[n][p] + 1 /\ ran[n][p] \in Nat
        BY <1>0, <2>6, <2>14 DEF Run
      <4>. QED
        BY <4>1
    <3>5. call[c].op = "get" => whole.answer \in call'[c].seen
      <4>1. ASSUME call[c].op = "get" PROVE value' = value /\ call'[c] = [call[c] EXCEPT !.seen = @ \cup {value'}]
        BY <2>6, <2>14, <4>1 DEF Run
      <4>. QED
        BY <1>0, <2>6, <2>14, <3>1, <4>1 DEF CallRecord
    <3>6. AnswerOf(c, whole)'
      BY <2>5, <3>1, <3>4, <3>5 DEF AnswerOf
    <3>7. CASE frames = <<whole>>
      BY <2>12, <2>14, <3>3, <3>6, <3>7
    <3>8. CASE frames = <<over, whole>> /\ conn[k].req.op = "get"
      BY <2>5, <2>6, <2>8, <2>14, <3>1, <3>3, <3>8 DEF WaitOf
    <3>. QED
      BY <3>1, <3>7, <3>8
  <2>. QED
    BY <1>2, <2>3, <2>11, <2>13, <2>14, RepLemma
<1>3. ASSUME NEW c \in Clients, ClientStep(c) PROVE WaitInv'
  <2>1. /\ UNCHANGED ran
        /\ \A d \in Clients \ {c} : call'[d] = call[d] /\ (HasConn(d) => conn'[call[d].conn] = conn[call[d].conn])
    BY <1>3, ClientLemma
  <2>2. \A n \in 1..calls : kind'[n] = kind[n]
    <3>1. UNCHANGED kind \/ (calls \in Nat /\ kind' = [kind EXCEPT ![calls + 1] = kind'[calls + 1]])
      BY <1>3, CallLemma, ConstantsAssumption DEF Begins, Connects, GoesOn, Advances, Returns, Typed, Ids
    <3>. QED
      BY <3>1, ConstantsAssumption DEF Typed, Ids
  <2>3. ASSUME NEW d \in Clients \ {c}, call'[d].at = "wait" PROVE WaitOf(d)'
    <3>1. /\ Going(d) /\ WaitOf(d) /\ call'[d] = call[d] /\ conn'[call[d].conn] = conn[call[d].conn]
          /\ kind'[call[d].id] = kind[call[d].id]
      BY <1>1, <2>1, <2>2, <2>3 DEF IdsInv
    <3>2. \A f \in Frame : AnswerOf(d, f) => AnswerOf(d, f)'
      BY <2>1, <3>1 DEF AnswerOf, Once
    <3>. QED
      BY <3>1, <3>2 DEF WaitOf, Pending
  <2>4. ASSUME call'[c].at = "wait" PROVE Send(c)
    <3>1. Going(c)'
      BY <2>4, ConnsKept, TypesKept DEF ConnsInv, ConnsOf, Going, Typed, CallRecord
    <3>. QED
      BY <1>3, <2>4, <3>1, CallLemma DEF Begins, Connects, GoesOn, Advances, Returns, Idle
  <2>5. ASSUME Send(c) PROVE WaitOf(c)'
    <3>1. HasConn(c) /\ Clean(call[c].conn) /\ call[c].at = "send"
      BY <2>5 DEF Send, HasConn, ConnsInv, ConnsOf
    <3>2. PICK k \in Conns : k = call[c].conn
      BY <3>1, OwnLemma
    <3>3. conn[k].req = NoRequest /\ conn[k].rep = <<>> /\ call'[c] = [call[c] EXCEPT !.at = "wait"]
      BY <1>0, <2>5, <3>1, <3>2 DEF Send, Clean, Typed
    <3>4. /\ call'[c].conn = k /\ call'[c].id = call[c].id /\ call'[c].op = call[c].op /\ call'[c].part = call[c].part
      BY <1>0, <3>2, <3>3 DEF CallRecord
    <3>5. /\ conn'[k].rep = <<>>
          /\ \/ conn'[k].req = NoRequest
             \/ conn'[k].req = [at |-> "sent", op |-> call[c].op, id |-> call[c].id, part |-> call[c].part]
      BY <2>5, <3>2, <3>3 DEF Send, Typed, ConnRecord
    <3>. QED
      BY <3>4, <3>5 DEF WaitOf, Pending, NoRequest
  <2>. QED
    BY <2>3, <2>4, <2>5 DEF WaitInv, WaitOf
<1>4. CASE UNCHANGED vars
  BY <1>4 DEF vars, daemon, history, counts, WaitInv, WaitOf, AnswerOf, Once, Pending
<1>. QED
  BY <1>2, <1>3, <1>4 DEF Next, DaemonStep, ClientStep

\* What a call returned stays so.
LEMMA LastKept == IndInv /\ [Next]_vars => LastInv'
<1>. SUFFICES ASSUME IndInv, [Next]_vars PROVE LastInv'
  OBVIOUS
<1>. USE DEF IndInv
<1>0. /\ Parts \subseteq Nat /\ Chunks \in Nat /\ Chunks \in Parts /\ 1 \in Parts /\ \A i \in Parts : i <= Chunks
      /\ \A k \in Conns : conn[k].req.id \in Ids /\ conn[k].req.part \in Parts
      /\ \A c \in Clients : call[c] \in CallRecord /\ call[c].id \in Ids /\ call[c].part \in Parts
      /\ \A c \in Clients : last[c].id \in Ids /\ last[c].parts \in Nat
      /\ ran \in [Ids -> [Parts -> Nat]]
  <2>1. Parts \subseteq Nat /\ Chunks \in Nat /\ Chunks \in Parts /\ 1 \in Parts /\ \A i \in Parts : i <= Chunks
    BY ConstantsAssumption DEF Parts
  <2>2. \A n \in 0..Chunks : n \in Nat
    BY <2>1
  <2>. QED
    BY <2>1, <2>2 DEF Typed, ConnRecord, Request, CallRecord, LastRecord
<1>1. \A c \in Clients : LastOf(c)
  BY DEF LastInv
<1>2. CASE DaemonStep
  <2>. SUFFICES ASSUME NEW c \in Clients PROVE LastOf(c)'
    BY DEF LastInv
  <2>1. UNCHANGED last
    BY <1>2, DaemonLemma
  <2>2. \A k \in Conns : Pending(k)' =>
             Pending(k) /\ conn'[k].req.id = conn[k].req.id /\ conn'[k].req.part = conn[k].req.part
    BY <1>2, RunLemma
  <2>3. CASE UNCHANGED ran
    BY <1>1, <2>1, <2>2, <2>3 DEF LastOf
  <2>4. ASSUME NEW k \in Conns, Pending(k),
               ran' = [ran EXCEPT ![conn[k].req.id][conn[k].req.part] = @ + 1]
        PROVE  LastOf(c)'
    <3>1. PICK n \in Ids, p \in Parts : n = conn[k].req.id /\ p = conn[k].req.part
      BY <1>0
    <3>2. PICK d : d = last[c] /\ d = last'[c]
      BY <2>1
    <3>3. d.id \in Ids /\ d.parts \in Nat
      BY <1>0, <3>2
    <3>4. /\ \A i \in Parts : ran[d.id][i] > 0 => ran'[d.id][i] > 0
          /\ \A i \in Parts : ran'[d.id][i] > 0 => ran[d.id][i] > 0 \/ (d.id = n /\ i = p)
      <4>1. CASE d.id # n
        BY <2>4, <3>1, <3>3, <4>1
      <4>2. CASE d.id = n
        <5>1. ran'[n][p] = ran[n][p] + 1 /\ ran[n][p] \in Nat /\ \A i \in Parts \ {p} : ran'[n][i] = ran[n][i]
          BY <1>0, <2>4, <3>1
        <5>. QED
          BY <4>2, <5>1
      <4>. QED
        BY <4>1, <4>2
    <3>5. d.op = "keys" /\ d.id = n => d.result = "lost" /\ p = d.parts + 1
      BY <1>1, <2>4, <3>1, <3>2 DEF LastOf
    <3>6. /\ c = Leader => d.result # "not_leader"
          /\ d.result = "ok" /\ d.op \in Ops =>
                /\ \A i \in Parts : (d.op = "keys" \/ i = 1) => ran'[d.id][i] > 0
                /\ d.op = "get" => d.answer \in d.seen
      BY <1>1, <3>2, <3>4 DEF LastOf
    <3>7. ASSUME d.op = "keys"
          PROVE  /\ \A i \in Parts : i <= d.parts => ran'[d.id][i] > 0
                 /\ \A i \in Parts : ran'[d.id][i] > 0 => i <= d.parts + (IF d.result \in {"lost", "failed"} THEN 1 ELSE 0)
                 /\ \A j \in Conns : Pending(j)' /\ conn'[j].req.id = d.id =>
                       d.result = "lost" /\ conn'[j].req.part = d.parts + 1
      <4>1. /\ \A i \in Parts : i <= d.parts => ran[d.id][i] > 0
            /\ \A i \in Parts : ran[d.id][i] > 0 => i <= d.parts + (IF d.result \in {"lost", "failed"} THEN 1 ELSE 0)
            /\ \A j \in Conns : Pending(j) /\ conn[j].req.id = d.id =>
                  d.result = "lost" /\ conn[j].req.part = d.parts + 1
        BY <1>1, <3>2, <3>7 DEF LastOf
      <4>2. ASSUME NEW i \in Parts, ran'[d.id][i] > 0 PROVE i <= d.parts + (IF d.result \in {"lost", "failed"} THEN 1 ELSE 0)
        <5>1. CASE ran[d.id][i] > 0
          BY <4>1, <5>1
        <5>2. CASE d.id = n /\ i = p
          BY <3>3, <3>5, <3>7, <5>2
        <5>. QED
          BY <3>4, <4>2, <5>1, <5>2
      <4>. QED
        BY <2>2, <3>4, <4>1, <4>2
    <3>. QED
      BY <3>2, <3>6, <3>7 DEF LastOf
  <2>. QED
    BY <1>2, <2>3, <2>4, RunLemma
<1>3. ASSUME NEW c \in Clients, ClientStep(c) PROVE LastInv'
  <2>1. /\ UNCHANGED ran /\ (\A d \in Clients \ {c} : last'[d] = last[d])
        /\ \A k \in Conns : Pending(k)' =>
                 \/ conn'[k].req = conn[k].req
                 \/ /\ Send(c) /\ k = call[c].conn
                    /\ conn'[k].req = [at |-> "sent", op |-> call[c].op, id |-> call[c].id, part |-> call[c].part]
    BY <1>3, ClientLemma
  <2>2. Send(c) => Going(c)
    BY DEF Send, ConnsInv, ConnsOf, Going, CallRecord, Typed
  <2>3. ASSUME NEW d \in Clients, last'[d] = last[d] PROVE LastOf(d)'
    <3>1. \A k \in Conns : last[d].op = "keys" /\ Pending(k)' /\ conn'[k].req.id = last[d].id =>
              Pending(k) /\ conn'[k].req = conn[k].req
      <4>1. last[d].op = "keys" /\ Send(c) => last[d].id # call[c].id
        BY <2>2 DEF IdsInv, Ops
      <4>. QED
        BY <2>1, <4>1 DEF Pending
    <3>. QED
      BY <1>1, <2>1, <2>3, <3>1 DEF LastOf
  <2>4. ASSUME Returns(c) PROVE LastOf(c)'
    <3>1. \A k \in Conns : Pending(k)' => Pending(k) /\ conn'[k].req = conn[k].req
      BY <2>1, <2>4 DEF Returns, Pending
    <3>a. PICK n \in Ids, p \in Parts : n = call[c].id /\ p = call[c].part
      BY <1>0
    <3>2. PICK d :
             n = call[c].id /\ p = call[c].part /\ d = last'[c] /\ d.op = call[c].op /\ d.id = n /\ d.seen = call[c].seen
             /\ d.parts = IF d.result = "ok" THEN Chunks ELSE p - 1
      BY <2>4, <3>a DEF Returns
    <3>3. d.op \in Ops => Going(c)
      BY <2>4, <3>2 DEF Returns, Going
    <3>4. \/ d.result = "unreachable" /\ call[c].at # "wait"
          \/ d.result = "lost" /\ call[c].at = "wait"
          \/ d.result = "broken" /\ d.op = "get"
          \/ \E f \in Frame : /\ Answered(c, f) /\ d.result = f.result /\ d.answer = f.answer
                              /\ f.result = "ok" /\ d.op = "keys" => p = Chunks
      BY <2>4, <3>2 DEF Returns
    <3>5. d.result = "not_leader" => c # Leader
      BY <3>4 DEF Answered, AnswerOf
    <3>6. d.result = "ok" => /\ ran[n][p] > 0 /\ ~Pending(call[c].conn)
                             /\ d.op = "get" => d.answer \in d.seen
                             /\ d.op = "keys" => p = Chunks
      BY <3>2, <3>4 DEF Answered, AnswerOf
    <3>7. p \in Nat /\ ran[n] \in [Parts -> Nat] /\ \A i \in Parts : i \in Nat /\ i <= Chunks
      BY <1>0
    <3>8. ASSUME d.op = "keys"
          PROVE  /\ \A i \in Parts : /\ i < p => ran[n][i] > 0
                                     /\ ran[n][i] > 0 => i <= p
                 /\ \A k \in Conns : Pending(k) /\ conn[k].req.id = n => call[c].at = "wait" /\ k = call[c].conn
                 /\ call[c].at # "wait" => ran[n][p] = 0
      <4>1. Going(c) /\ kind[n] = "keys"
        BY <3>2, <3>3, <3>8 DEF IdsInv, Ops
      <4>. QED
        BY <3>2, <4>1 DEF OnceInv, CallOnce, Once
    <3>9. ASSUME d.op # "keys", d.op \in Ops PROVE p = 1
      BY <3>2, <3>3, <3>9 DEF IdsInv
    <3>10. ASSUME d.result = "ok", d.op \in Ops
           PROVE  \A i \in Parts : (d.op = "keys" \/ i = 1) => ran[n][i] > 0
      <4>1. CASE d.op = "keys"
        <5>1. p = Chunks
          BY <3>6, <3>10, <4>1
        <5>2. \A i \in Parts : i < p \/ i = p
          BY <1>0, <5>1
        <5>. QED
          BY <3>6, <3>8, <3>10, <4>1, <5>2
      <4>2. CASE d.op # "keys"
        BY <3>6, <3>9, <3>10, <4>2
      <4>. QED
        BY <4>1, <4>2
    <3>11. ASSUME d.op = "keys"
           PROVE  /\ \A i \in Parts : i <= d.parts => ran[n][i] > 0
                  /\ \A i \in Parts : ran[n][i] > 0 => i <= d.parts + (IF d.result \in {"lost", "failed"} THEN 1 ELSE 0)
                  /\ \A k \in Conns : Pending(k)' /\ conn'[k].req.id = n =>
                        d.result = "lost" /\ conn'[k].req.part = d.parts + 1
      <4>1. CASE d.result = "ok"
        <5>1. d.parts = Chunks /\ \A i \in Parts : ran[n][i] > 0
          BY <3>2, <3>10, <3>11, <4>1 DEF Ops
        <5>2. d.parts + 0 = Chunks /\ \A i \in Parts : i <= d.parts + 0
          BY <3>7, <5>1, ConstantsAssumption
        <5>. QED
          BY <3>1, <3>6, <3>8, <3>11, <4>1, <5>1, <5>2
      <4>2. CASE d.result = "lost"
        <5>1. /\ \A i \in Parts : i <= d.parts => i < p
              /\ \A i \in Parts : i <= p => i <= d.parts + 1
              /\ p = d.parts + 1
          <6>1. d.parts = p - 1 /\ p \in Nat /\ \A i \in Parts : i \in Nat
            BY <3>2, <3>7, <4>2
          <6>. QED
            BY <6>1
        <5>2. \A k \in Conns : Pending(k) /\ conn[k].req.id = n => conn[k].req.part = p
          <6>1. call[c].at = "wait"
            BY <3>4, <4>2 DEF Answered, AnswerOf, Frame
          <6>. QED
            BY <3>2, <3>8, <3>11, <6>1 DEF WaitInv, WaitOf
        <5>. QED
          BY <3>1, <3>8, <3>11, <4>2, <5>1, <5>2
      <4>3. CASE d.result = "failed"
        <5>1. /\ \A i \in Parts : i <= d.parts => i < p
              /\ \A i \in Parts : i <= p => i <= d.parts + 1
          <6>1. d.parts = p - 1 /\ p \in Nat /\ \A i \in Parts : i \in Nat
            BY <3>2, <3>7, <4>3
          <6>. QED
            BY <6>1
        <5>2. \A k \in Conns : Pending(k) => conn[k].req.id # n
          BY <3>2, <3>4, <3>8, <3>11, <4>3 DEF Answered
        <5>. QED
          BY <3>1, <3>8, <3>11, <4>3, <5>1, <5>2
      <4>4. CASE d.result \notin {"ok", "lost", "failed"}
        <5>1. ran[n][p] = 0 /\ \A k \in Conns : Pending(k) => conn[k].req.id # n
          BY <3>2, <3>4, <3>8, <3>11, <4>4 DEF Answered, AnswerOf
        <5>2. /\ \A i \in Parts : i <= d.parts => i < p
              /\ \A i \in Parts : i <= p /\ i # p => i <= d.parts + 0
          <6>1. d.parts = p - 1 /\ p \in Nat /\ \A i \in Parts : i \in Nat
            BY <3>2, <3>7, <4>4
          <6>. QED
            BY <6>1
        <5>3. \A i \in Parts : ran[n][i] > 0 => i <= p /\ i # p
          BY <3>8, <3>11, <5>1
        <5>. QED
          BY <3>1, <3>8, <3>11, <4>4, <5>1, <5>2, <5>3
      <4>. QED
        BY <4>1, <4>2, <4>3, <4>4
    <3>. QED
      BY <2>1, <3>2, <3>5, <3>6, <3>10, <3>11 DEF LastOf
  <2>5. Returns(c) \/ last'[c] = last[c]
    BY <1>3, CallLemma DEF Begins, Connects, GoesOn, Advances
  <2>. QED
    BY <2>1, <2>3, <2>4, <2>5 DEF LastInv
<1>4. CASE UNCHANGED vars
  BY <1>1, <1>4 DEF vars, daemon, history, counts, LastInv, LastOf, Pending
<1>. QED
  BY <1>2, <1>3, <1>4 DEF Next, DaemonStep, ClientStep

\* A write that fails is the only one of its chunk: what was whole stays whole.
LEMMA WholeLemma ==
    ASSUME IndInv, DaemonStep
    PROVE  /\ \A n \in Ids, i \in Parts : Whole(n, i) => Whole(n, i)'
           /\ \A n \in Ids, i \in Parts : ran'[n][i] > 0 /\ ~(ran[n][i] > 0) =>
                 \E k \in Conns : Run(k) /\ Pending(k) /\ n = conn[k].req.id /\ i = conn[k].req.part
           /\ \A n \in Ids, i \in Parts : <<n, i>> \in torn' =>
                 \/ <<n, i>> \in torn
                 \/ \E k \in Conns : /\ Run(k) /\ Pending(k) /\ conn[k].req.op = "keys" /\ ran'[n][i] > 0
                                     /\ n = conn[k].req.id /\ i = conn[k].req.part
           /\ \A n \in Ids, i \in Parts : ran[n][i] > 0 => ran'[n][i] > 0
<1>. USE DEF IndInv
<1>0. /\ \A k \in Conns : conn[k].req.id \in Ids /\ conn[k].req.part \in Parts
      /\ ran \in [Ids -> [Parts -> Nat]] /\ Parts \subseteq Nat
  BY ConstantsAssumption DEF Typed, ConnRecord, Request, Parts
<1>1. CASE UNCHANGED <<ran, torn>>
  BY <1>1 DEF Whole
<1>2. ASSUME NEW k \in Conns, Run(k)
      PROVE  /\ \A n \in Ids, i \in Parts : Whole(n, i) => Whole(n, i)'
             /\ \A n \in Ids, i \in Parts : ran'[n][i] > 0 /\ ~(ran[n][i] > 0) =>
                   n = conn[k].req.id /\ i = conn[k].req.part
             /\ \A n \in Ids, i \in Parts : <<n, i>> \in torn' =>
                   \/ <<n, i>> \in torn
                   \/ conn[k].req.op = "keys" /\ ran'[n][i] > 0 /\ n = conn[k].req.id /\ i = conn[k].req.part
             /\ \A n \in Ids, i \in Parts : ran[n][i] > 0 => ran'[n][i] > 0
             /\ Pending(k)
  <2>1. PICK m \in Ids, p \in Parts : m = conn[k].req.id /\ p = conn[k].req.part
    BY <1>0
  <2>2. /\ ran' = [ran EXCEPT ![m][p] = @ + 1] /\ Pending(k)
        /\ torn' = torn \/ (torn' = torn \cup {<<m, p>>} /\ conn[k].req.op = "keys")
    <3>1. PICK frames \in Frames(conn[k].req) :
                 torn' = IF Head(frames).result = "failed" THEN torn \cup {<<m, p>>} ELSE torn
      BY <1>2, <2>1 DEF Run
    <3>2. Head(frames).result = "failed" => conn[k].req.op = "keys"
      BY DEF Frames
    <3>. QED
      BY <1>2, <2>1, <3>1, <3>2 DEF Run, Pending
  <2>3. /\ ran'[m][p] = ran[m][p] + 1 /\ ran[m][p] \in Nat
        /\ \A n \in Ids, i \in Parts : n # m \/ i # p => ran'[n][i] = ran[n][i]
    BY <1>0, <2>2
  <2>4. ran'[m][p] > 0 /\ \A n \in Ids, i \in Parts : ran[n][i] > 0 => ran'[n][i] > 0
    <3>1. ran'[m][p] > 0
      BY <2>3
    <3>. QED
      BY <2>3, <3>1
  <2>5. conn[k].req.op = "keys" => ~(ran[m][p] > 0)
    <3>1. conn[k].req.op = "keys" => Once(m) /\ (ran[m][p] > 0 <=> p < p)
      BY <2>1, <2>2 DEF OnceInv, RequestOnce, IdsInv, Once
    <3>2. p \in Nat
      BY <1>0
    <3>. QED
      BY <3>1, <3>2
  <2>6. ASSUME NEW n \in Ids, NEW i \in Parts, Whole(n, i) PROVE Whole(n, i)'
    <3>1. <<n, i>> # <<m, p>> \/ torn' = torn
      BY <2>2, <2>5, <2>6 DEF Whole
    <3>. QED
      BY <2>2, <2>4, <2>6, <3>1 DEF Whole
  <2>7. \A n \in Ids, i \in Parts : <<n, i>> \in torn' =>
            <<n, i>> \in torn \/ (conn[k].req.op = "keys" /\ n = m /\ i = p)
    BY <2>2
  <2>. QED
    BY <2>1, <2>2, <2>3, <2>4, <2>6, <2>7
<1>3. UNCHANGED <<ran, torn>> \/ \E k \in Conns : Run(k)
  BY DEF DaemonStep, DaemonDies, Start, Gate, HangUp, Cut, history
<1>. QED
  BY <1>1, <1>2, <1>3

\* Chunks go to the pane after whole ones.
LEMMA TornKept == IndInv /\ [Next]_vars => TornInv'
<1>. SUFFICES ASSUME IndInv, [Next]_vars PROVE TornInv'
  OBVIOUS
<1>. USE DEF IndInv
<1>0. /\ Parts \subseteq Nat /\ Chunks \in Parts /\ 1 \in Parts /\ \A i \in Parts : i <= Chunks
      /\ \A k \in Conns : conn[k].req.id \in Ids /\ conn[k].req.part \in Parts
      /\ \A c \in Clients : call[c] \in CallRecord /\ call[c].id \in Ids /\ call[c].part \in Parts
      /\ \A c \in Clients : last[c].id \in Ids /\ last[c].parts \in Nat
      /\ \A i \in Parts : i > 1 => i - 1 \in Parts /\ i - 1 < i
  <2>1. Parts \subseteq Nat /\ Chunks \in Parts /\ 1 \in Parts /\ \A i \in Parts : i <= Chunks
    BY ConstantsAssumption DEF Parts
  <2>2. \A n \in 0..Chunks : n \in Nat
    BY ConstantsAssumption
  <2>3. \A i \in Parts : i > 1 => i - 1 \in Parts /\ i - 1 < i
    BY ConstantsAssumption DEF Parts
  <2>. QED
    BY <2>1, <2>2, <2>3 DEF Typed, ConnRecord, Request, CallRecord, LastRecord
<1>1. /\ \A n \in Ids, i \in Parts : <<n, i>> \in torn => ran[n][i] > 0 /\ kind[n] = "keys"
      /\ \A n \in Ids, i \in Parts : kind[n] = "keys" /\ i > 1 /\ ran[n][i] > 0 => Whole(n, i - 1)
      /\ \A k \in Conns : Pending(k) /\ conn[k].req.op = "keys" =>
            \A i \in Parts : i < conn[k].req.part => Whole(conn[k].req.id, i)
      /\ \A c \in Clients : CallWhole(c) /\ LastWhole(c)
  BY DEF TornInv
<1>2. CASE DaemonStep
  <2>1. /\ UNCHANGED <<last, kind>> /\ \A c \in Clients : SameCall(c)
    BY <1>2, DaemonLemma
  <2>2. \A k \in Conns : Pending(k)' => /\ Pending(k) /\ conn'[k].req.id = conn[k].req.id
                                        /\ conn'[k].req.op = conn[k].req.op /\ conn'[k].req.part = conn[k].req.part
    BY <1>2, RunLemma
  <2>3. \A n \in Ids, i \in Parts : Whole(n, i) => Whole(n, i)'
    BY <1>2, WholeLemma
  <2>4. ASSUME NEW n \in Ids, NEW i \in Parts, <<n, i>> \in torn' PROVE ran'[n][i] > 0 /\ kind'[n] = "keys"
    <3>1. CASE <<n, i>> \in torn
      BY <1>1, <1>2, <2>1, <3>1, WholeLemma
    <3>2. ASSUME NEW k \in Conns, Pending(k), conn[k].req.op = "keys", ran'[n][i] > 0, n = conn[k].req.id
          PROVE  ran'[n][i] > 0 /\ kind'[n] = "keys"
      BY <2>1, <3>2 DEF IdsInv
    <3>. QED
      BY <1>2, <2>4, <3>1, <3>2, WholeLemma
  <2>5. ASSUME NEW n \in Ids, NEW i \in Parts, kind'[n] = "keys", i > 1, ran'[n][i] > 0 PROVE Whole(n, i - 1)'
    <3>1. CASE ran[n][i] > 0
      BY <1>0, <1>1, <2>1, <2>3, <2>5, <3>1
    <3>2. ASSUME NEW k \in Conns, Pending(k), n = conn[k].req.id, i = conn[k].req.part PROVE Whole(n, i - 1)'
      <4>1. conn[k].req.op = "keys"
        BY <2>1, <2>5, <3>2 DEF IdsInv
      <4>2. Whole(n, i - 1)
        BY <1>0, <1>1, <2>5, <3>2, <4>1
      <4>. QED
        BY <1>0, <2>3, <2>5, <4>2
    <3>. QED
      BY <1>2, <2>5, <3>1, <3>2, WholeLemma
  <2>6. ASSUME NEW k \in Conns, Pending(k)', conn'[k].req.op = "keys", NEW i \in Parts, i < conn'[k].req.part
        PROVE  Whole(conn[k].req.id, i)'
    <3>1. PICK n \in Ids : n = conn[k].req.id /\ n = conn'[k].req.id
      BY <1>0, <2>2, <2>6
    <3>2. Whole(n, i)
      BY <1>1, <2>2, <2>6, <3>1
    <3>3. Whole(n, i)'
      BY <2>3, <3>2
    <3>. QED
      BY <3>1, <3>3 DEF Whole
  <2>7. ASSUME NEW c \in Clients PROVE LastWhole(c)'
    <3>1. PICK d : d = last[c] /\ d = last'[c]
      BY <2>1
    <3>2. LastWhole(c) /\ d.id \in Ids
      BY <1>0, <1>1, <3>1
    <3>. QED
      BY <2>3, <3>1, <3>2 DEF LastWhole
  <2>8. ASSUME NEW c \in Clients PROVE CallWhole(c)'
    <3>1. PICK n \in Ids, p \in Parts : n = call[c].id /\ p = call[c].part
      BY <1>0
    <3>2. /\ call'[c].id = n /\ call'[c].part = p /\ call'[c].at = call[c].at /\ call'[c].op = call[c].op
          /\ call'[c].conn = call[c].conn
      BY <2>1, <3>1 DEF SameCall
    <3>3. Going(c)' => \A i \in Parts : i < p => Whole(n, i)'
      BY <1>1, <2>3, <3>1, <3>2 DEF CallWhole, Going
    <3>4. ASSUME call[c].at = "wait", NEW f \in Frame, conn'[call[c].conn].rep = <<f>>, f.result = "ok"
          PROVE  Whole(n, p)'
      <4>1. Going(c) /\ HasConn(c) /\ WaitOf(c) /\ call[c].op \in Ops
        BY <1>0, <3>4 DEF ConnsInv, ConnsOf, Going, HasConn, CallRecord, WaitInv
      <4>2. PICK k \in Conns : k = call[c].conn /\ conn[k].held
        BY <4>1, OwnLemma DEF ConnsInv, ConnsOf
      <4>3. CASE conn'[k].rep = conn[k].rep
        BY <1>1, <2>3, <3>1, <3>4, <4>2, <4>3 DEF CallWhole
      <4>4. ASSUME Pending(k) PROVE conn[k].rep = <<>> /\ conn[k].req.id = n /\ conn[k].req.part = p
        BY <3>1, <3>4, <4>1, <4>2, <4>4 DEF WaitOf
      <4>5. ASSUME NEW g \in Frame, Pending(k), Refusal(k, g), conn'[k].rep = conn[k].rep \o <<g>> PROVE FALSE
        <5>1. <<g>> \in Seq(Frame) /\ <<>> \o <<g>> = <<g>>
          OBVIOUS
        <5>2. <<g>> = <<f>>
          BY <3>4, <4>2, <4>4, <4>5, <5>1
        <5>3. g = f
          BY <5>2
        <5>. QED
          BY <3>4, <4>5, <5>3 DEF Refusal
      <4>6. ASSUME Pending(k), Run(k) PROVE Whole(n, p)'
        <5>1. PICK frames \in Frames(conn[k].req) :
                 /\ conn' = Reply(k, frames)
                 /\ torn' = IF Head(frames).result = "failed" THEN torn \cup {<<n, p>>} ELSE torn
          BY <4>4, <4>6 DEF Run
        <5>2. frames \in Seq(Frame) /\ Head(frames).result = "failed" => Len(frames) = 1
          BY FramesLemma DEF Frames
        <5>3. conn'[k].rep = frames
          <6>1. conn'[k].rep = <<>> \o (IF conn[k].whole THEN frames ELSE <<>>)
            <7>1. conn'[k] = [conn[k] EXCEPT !.req = NoRequest,
                                !.rep = conn[k].rep \o (IF conn[k].whole THEN frames ELSE <<>>)]
              <8>1. frames \in Seq(Frame)
                BY FramesLemma
              <8>. DEFINE new == [conn[k] EXCEPT !.req = NoRequest,
                                    !.rep = conn[k].rep \o (IF conn[k].whole THEN frames ELSE <<>>)]
              <8>2. Reply(k, frames)[k] = new
                BY <4>2, <8>1, ReplyLemma
              <8>. HIDE DEF new
              <8>3. conn'[k] = new
                BY <5>1, <8>2
              <8>. QED
                BY <8>3 DEF new
            <7>2. conn[k] \in ConnRecord
              BY DEF Typed
            <7>. QED
              BY <4>4, <4>6, <7>1, <7>2 DEF ConnRecord
          <6>2. conn[k].whole
            BY <3>4, <4>2, <6>1
          <6>. QED
            BY <5>2, <6>1, <6>2, FramesLemma
        <5>4. Head(frames) = f
          BY <3>4, <4>2, <5>3
        <5>5. torn' = torn
          BY <3>4, <5>1, <5>4
        <5>6. <<n, p>> \notin torn
          <6>1. ASSUME <<n, p>> \in torn PROVE FALSE
            <7>1. Once(n) /\ ran[n][p] > 0
              BY <1>1, <6>1 DEF Once
            <7>2. p < p
              BY <4>4, <4>6, <7>1 DEF OnceInv, RequestOnce
            <7>. QED
              BY <1>0, <7>2
          <6>. QED
            BY <6>1
        <5>7. ran'[n][p] > 0
          <6>1. ran'[n][p] = ran[n][p] + 1 /\ ran[n][p] \in Nat
            BY <4>4, <4>6 DEF Run, Typed
          <6>. QED
            BY <6>1
        <5>. QED
          BY <5>5, <5>6, <5>7 DEF Whole
      <4>. QED
        BY <1>2, <4>2, <4>3, <4>5, <4>6, RepLemma
    <3>. QED
      BY <3>2, <3>3, <3>4 DEF CallWhole, Whole
  <2>. QED
    BY <2>4, <2>5, <2>6, <2>7, <2>8 DEF TornInv
<1>3. ASSUME NEW c \in Clients, ClientStep(c) PROVE TornInv'
  <2>1. /\ UNCHANGED <<ran, torn>>
        /\ \A d \in Clients \ {c} : /\ call'[d] = call[d] /\ last'[d] = last[d]
                                    /\ HasConn(d) => conn'[call[d].conn] = conn[call[d].conn]
        /\ \A k \in Conns : Pending(k)' =>
                 \/ conn'[k].req = conn[k].req
                 \/ /\ Send(c) /\ k = call[c].conn
                    /\ conn'[k].req = [at |-> "sent", op |-> call[c].op, id |-> call[c].id, part |-> call[c].part]
    BY <1>3, ClientLemma
  <2>2. \A n \in Ids, i \in Parts : Whole(n, i) <=> Whole(n, i)'
    BY <2>1 DEF Whole
  <2>3. \A n \in Ids : kind'[n] = kind[n] \/ \A i \in Parts : ~(ran[n][i] > 0)
    <3>1. UNCHANGED kind \/ (calls \in Nat /\ calls + 1 \in Ids /\ kind' = [kind EXCEPT ![calls + 1] = kind'[calls + 1]])
      BY <1>3, CallLemma, ConstantsAssumption DEF Begins, Connects, GoesOn, Advances, Returns, Typed, Ids
    <3>2. ASSUME calls \in Nat, calls + 1 \in Ids PROVE \A i \in Parts : ~(ran[calls + 1][i] > 0)
      <4>1. \A i \in Parts : ran[calls + 1][i] = 0
        BY <3>2 DEF IdsInv
      <4>. QED
        BY <4>1
    <3>. QED
      BY <3>1, <3>2 DEF Typed
  <2>4. \A n \in Ids, i \in Parts : <<n, i>> \in torn' => ran'[n][i] > 0 /\ kind'[n] = "keys"
    BY <1>1, <2>1, <2>3
  <2>5. \A n \in Ids, i \in Parts : kind'[n] = "keys" /\ i > 1 /\ ran'[n][i] > 0 => Whole(n, i - 1)'
    BY <1>0, <1>1, <2>1, <2>2, <2>3
  <2>6. ASSUME NEW k \in Conns, Pending(k)', conn'[k].req.op = "keys", NEW i \in Parts, i < conn'[k].req.part
        PROVE  Whole(conn[k].req.id, i)'
    <3>1. CASE conn'[k].req = conn[k].req
      <4>1. Pending(k) /\ conn[k].req.op = "keys" /\ i < conn[k].req.part
        BY <2>6, <3>1 DEF Pending
      <4>2. Whole(conn[k].req.id, i)
        BY <1>1, <4>1
      <4>. QED
        BY <2>1, <3>1, <4>2 DEF Whole
    <3>2. CASE Send(c) /\ conn'[k].req = [at |-> "sent", op |-> call[c].op, id |-> call[c].id, part |-> call[c].part]
      <4>1. Going(c)
        BY <3>2 DEF Send, ConnsInv, ConnsOf, Going, CallRecord, Typed
      <4>2. conn'[k].req.id = call[c].id /\ conn'[k].req.part = call[c].part
        BY <3>2
      <4>3. Whole(call[c].id, i)
        BY <1>1, <2>6, <4>1, <4>2 DEF CallWhole
      <4>. QED
        BY <2>1, <4>2, <4>3 DEF Whole
    <3>. QED
      BY <2>1, <2>6, <3>1, <3>2
  <2>7. ASSUME NEW d \in Clients, last'[d] = last[d] PROVE LastWhole(d)'
    BY <1>1, <2>1, <2>7 DEF LastWhole, Whole
  <2>8. ASSUME NEW d \in Clients \ {c} PROVE CallWhole(d)' /\ LastWhole(d)'
    <3>1. call'[d] = call[d] /\ last'[d] = last[d] /\ (call[d].at = "wait" => conn'[call[d].conn] = conn[call[d].conn])
      BY <2>1 DEF HasConn
    <3>2. CallWhole(d)'
      BY <1>1, <2>1, <3>1 DEF CallWhole, Whole, Going
    <3>. QED
      BY <2>7, <3>1, <3>2
  <2>9. ASSUME call'[c].at = "wait" PROVE conn'[call'[c].conn].rep = <<>>
    <3>1. Going(c)'
      BY <2>9, ConnsKept, TypesKept DEF ConnsInv, ConnsOf, Going, Typed, CallRecord
    <3>2. Send(c)
      BY <1>3, <2>9, <3>1, CallLemma DEF Begins, Connects, GoesOn, Advances, Returns, Idle
    <3>3. HasConn(c) /\ Clean(call[c].conn) /\ call[c].at = "send"
      BY <3>2 DEF Send, HasConn, ConnsInv, ConnsOf
    <3>4. PICK k \in Conns : k = call[c].conn
      BY <3>3, OwnLemma
    <3>5. conn[k].rep = <<>> /\ call'[c] = [call[c] EXCEPT !.at = "wait"]
      BY <1>0, <3>2, <3>3, <3>4 DEF Send, Clean, Typed
    <3>6. call'[c].conn = k /\ conn'[k].rep = <<>>
      BY <1>0, <3>2, <3>4, <3>5 DEF Send, Typed, ConnRecord, CallRecord
    <3>. QED
      BY <3>6
  <2>10. ASSUME NEW n \in Ids, NEW p \in Parts, n = call'[c].id, p = call'[c].part,
                Going(c)' => \A i \in Parts : i < p => Whole(n, i)
         PROVE  CallWhole(c)'
    <3>1. \A f \in Frame : <<>> # <<f>>
      OBVIOUS
    <3>2. Going(c)' => \A i \in Parts : i < p => Whole(n, i)'
      BY <2>2, <2>10
    <3>. QED
      BY <2>9, <2>10, <3>1, <3>2 DEF CallWhole, Whole
  <2>a. PICK n \in Ids, p \in Parts : n = call[c].id /\ p = call[c].part
    BY <1>0
  <2>11. ASSUME NEW op \in Ops, Begins(c, op) PROVE CallWhole(c)' /\ last'[c] = last[c]
    <3>1. call'[c].id \in Ids /\ call'[c].part = 1 /\ last'[c] = last[c]
      BY <2>11 DEF Begins
    <3>2. \A i \in Parts : ~(i < 1)
      BY DEF Parts
    <3>. QED
      BY <1>0, <2>10, <3>1, <3>2
  <2>12. ASSUME Connects(c) PROVE CallWhole(c)' /\ LastWhole(c)'
    <3>1. ~Going(c)' /\ last'[c] = last[c] /\ call'[c].id \in Ids /\ call'[c].part \in Parts
      BY <2>12, TypesKept DEF Connects, Typed, CallRecord
    <3>. QED
      BY <2>7, <2>10, <3>1
  <2>13. ASSUME GoesOn(c) PROVE CallWhole(c)' /\ LastWhole(c)'
    <3>1. Going(c) /\ last'[c] = last[c] /\ call'[c].id = n /\ call'[c].part = p
      BY <2>13, <2>a DEF GoesOn
    <3>2. \A i \in Parts : i < p => Whole(n, i)
      BY <1>1, <2>a, <3>1 DEF CallWhole
    <3>3. CallWhole(c)'
      BY <2>10, <3>1, <3>2
    <3>. QED
      BY <2>7, <3>1, <3>3
  <2>14. ASSUME Advances(c) PROVE CallWhole(c)' /\ LastWhole(c)'
    <3>1. Going(c) /\ last'[c] = last[c] /\ call'[c].id = n /\ call'[c].part = p + 1 /\ p + 1 \in Parts
      BY <2>14, <2>a DEF Advances
    <3>2. Whole(n, p) /\ \A i \in Parts : i < p => Whole(n, i)
      BY <1>1, <2>14, <2>a, <3>1 DEF CallWhole, Advances, Answered
    <3>3. \A i \in Parts : i < p + 1 => i < p \/ i = p
      BY <1>0
    <3>4. \A i \in Parts : i < p + 1 => Whole(n, i)
      BY <3>2, <3>3
    <3>5. CallWhole(c)'
      BY <2>10, <3>1, <3>4
    <3>. QED
      BY <2>7, <3>1, <3>5
  <2>15. ASSUME Returns(c) PROVE CallWhole(c)' /\ LastWhole(c)'
    <3>1. ~Going(c)' /\ call'[c].id \in Ids /\ call'[c].part \in Parts
      BY <2>15, TypesKept DEF Returns, Going, Idle, Typed, CallRecord
    <3>2. CallWhole(c)'
      BY <2>10, <3>1
    <3>3. PICK d : /\ d = last'[c] /\ d.op = call[c].op /\ d.id = n
                   /\ d.parts = IF d.result = "ok" THEN Chunks ELSE p - 1
      BY <2>15, <2>a DEF Returns
    <3>4. d.op \in Ops => Going(c) /\ \A i \in Parts : i < p => Whole(n, i)
      BY <1>1, <2>15, <2>a, <3>3 DEF Returns, Going, CallWhole
    <3>5. d.result = "ok" => Whole(n, p) /\ (d.op = "keys" => p = Chunks)
      BY <1>1, <2>15, <2>a, <3>3 DEF Returns, Answered, CallWhole
    <3>6. d.op \in Ops /\ d.op # "keys" => p = 1
      BY <2>a, <3>3, <3>4 DEF IdsInv
    <3>7. ASSUME d.result = "ok", d.op \in Ops, NEW i \in Parts, d.op = "keys" \/ i = 1 PROVE Whole(n, i)
      <4>1. i < p \/ i = p
        <5>1. d.op = "keys" => i <= p
          BY <1>0, <3>5, <3>7
        <5>. QED
          BY <1>0, <3>6, <3>7, <5>1
      <4>. QED
        BY <3>4, <3>5, <3>7, <4>1
    <3>8. ASSUME d.op = "keys", NEW i \in Parts, i <= d.parts PROVE Whole(n, i)
      <4>1. CASE d.result = "ok"
        BY <3>7, <3>8, <4>1 DEF Ops
      <4>2. CASE d.result # "ok"
        <5>1. i < p
          <6>1. d.parts = p - 1 /\ p \in Nat /\ i \in Nat
            BY <1>0, <3>3, <4>2
          <6>. QED
            BY <3>8, <6>1
        <5>. QED
          BY <3>4, <3>8, <5>1 DEF Ops
      <4>. QED
        BY <4>1, <4>2
    <3>9. LastWhole(c)'
      BY <2>2, <3>3, <3>7, <3>8 DEF LastWhole
    <3>. QED
      BY <3>2, <3>9
  <2>16. CallWhole(c)' /\ LastWhole(c)'
    BY <1>3, <2>7, <2>11, <2>12, <2>13, <2>14, <2>15, CallLemma
  <2>. QED
    BY <2>4, <2>5, <2>6, <2>8, <2>16 DEF TornInv
<1>4. CASE UNCHANGED vars
  <2>1. UNCHANGED <<ran, torn, kind, conn, call, last>>
    BY <1>4 DEF vars, history
  <2>. QED
    BY <1>1, <2>1 DEF TornInv, CallWhole, LastWhole, Whole, Pending, Going
<1>. QED
  BY <1>2, <1>3, <1>4 DEF Next, DaemonStep, ClientStep

-----------------------------------------------------------------------------
\* Before anything has happened the invariant holds.
LEMMA InitInd == Init => IndInv
<1>. SUFFICES ASSUME Init PROVE IndInv
  OBVIOUS
<1>1. Typed
  <2>1. Unused \in ConnRecord /\ Idle \in CallRecord /\ 0 \in Ids
    BY TidyLemma, ConstantsAssumption DEF Ids
  <2>2. NoCall \in LastRecord
    BY <2>1, ConstantsAssumption DEF NoCall, LastRecord
  <2>3. [conn |-> None, view |-> "none"] \in LinkRecord
    BY DEF LinkRecord
  <2>. QED
    BY <2>1, <2>2, <2>3 DEF Init, Typed
<1>2. ConnsInv /\ ViewsInv
  BY DEF Init, ConnsInv, ConnsOf, ViewsInv, ViewsOf, HasConn, Idle, Unused, Ops
<1>3. IdsInv /\ OnceInv
  BY DEF Init, IdsInv, OnceInv, RequestOnce, CallOnce, Once, Pending, Going, Idle, Unused, NoRequest, NoCall, Ids, Ops
<1>4. WaitInv
  BY DEF Init, WaitInv, WaitOf, Idle
<1>5. \A c \in Clients : last[c] = NoCall
  BY DEF Init
<1>6. LastInv
  <2>0. NoCall.result = "none" /\ NoCall.op = "none"
    BY DEF NoCall
  <2>1. \A c \in Clients : last[c].result = "none" /\ last[c].op = "none"
    BY <1>5, <2>0
  <2>. QED
    BY <2>1 DEF LastInv, LastOf
<1>7. TornInv
  <2>1. /\ torn = {} /\ (\A n \in Ids, i \in Parts : ran[n][i] = 0)
        /\ \A k \in Conns : ~Pending(k)
        /\ \A c \in Clients : ~Going(c) /\ call[c].at # "wait" /\ last[c].op = "none" /\ last[c].result = "none"
    BY <1>5 DEF Init, Pending, Unused, NoRequest, Going, Idle, NoCall
  <2>. QED
    BY <2>1 DEF TornInv, CallWhole, LastWhole, Ops
<1>. QED
  BY <1>1, <1>2, <1>3, <1>4, <1>6, <1>7 DEF IndInv
-----------------------------------------------------------------------------
(* The theorems.                                                           *)

\* The invariant is inductive: it holds of every call, through every restart and every cut.
THEOREM Inductive == Spec => []IndInv
<1>1. IndInv /\ [Next]_vars => IndInv'
  BY TypesKept, ConnsKept, ViewsKept, IdsKept, OnceKept, WaitKept, LastKept, TornKept DEF IndInv
<1>. QED
  BY InitInd, <1>1, PTL DEF Spec

\* Variables have their types, and no link keeps a connection that is not its client's.
THEOREM TypeCorrect == Spec => []TypeOK
<1>1. IndInv => TypeOK
  BY DEF IndInv, Typed, ConnsInv, ConnsOf, TypeOK
<1>. QED
  BY Inductive, <1>1, PTL

\* A spawn, a chunk of keys and a brake are done at most once, however often daemons are
\* restarted, connections are cut and threads outlive their clients.
THEOREM NothingIsDoneTwice == Spec => []NeverTwice
<1>1. IndInv => NeverTwice
  <2>. SUFFICES ASSUME IndInv, NEW n \in Ids, NEW i \in Parts, kind[n] \notin {"get", "set"} PROVE ~(ran[n][i] > 1)
    BY DEF NeverTwice
  <2>1. ran[n][i] <= 1 /\ ran[n][i] \in Nat
    BY DEF IndInv, OnceInv, Once, Typed
  <2>. QED
    BY <2>1
<1>. QED
  BY Inductive, <1>1, PTL

\* A call that returned an answer was done, and it is the answer to that call.
THEOREM EveryAnswerIsOwn == Spec => []AnswersAreOwn
<1>1. IndInv => AnswersAreOwn
  BY DEF IndInv, LastInv, LastOf, TornInv, LastWhole, Whole, AnswersAreOwn
<1>. QED
  BY Inductive, <1>1, PTL

\* The pane gets an input from its beginning, no chunk after a torn one, and a client is
\* told how much of it was typed for certain.
THEOREM InputArrivesInOrder == Spec => []InputIsAPrefix
<1>1. IndInv => InputIsAPrefix
  BY DEF IndInv, LastInv, LastOf, OnceInv, TornInv, LastWhole, Whole, InputIsAPrefix
<1>. QED
  BY Inductive, <1>1, PTL

\* An identity and a view of the daemon go with the link, through every redial.
THEOREM TheLinkIsKnown == Spec => []LinkIsKnown
<1>1. IndInv => LinkIsKnown
  BY ConstantsAssumption DEF IndInv, LastInv, LastOf, ViewsInv, ViewsOf, LinkIsKnown, LeaderIsHeard, ViewIsOfTheLink
<1>. QED
  BY Inductive, <1>1, PTL
=============================================================================
