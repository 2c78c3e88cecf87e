---------------------------------- MODULE Rpc ----------------------------------
(***************************************************************************)
(* Calls of clients on the daemon (tear-client/src/lib.rs) and the loop    *)
(* that serves a connection (tear-daemon/src/lib.rs), while daemons are    *)
(* restarted, onto this build or an older one, and transports are cut.     *)
(*                                                                         *)
(* A client's lock is held over a whole call, so that it is one thread: it *)
(* takes the connection out of the link, or dials one, sends a request,    *)
(* waits for the reply and puts the connection back.  A connection whose   *)
(* exchange failed is never read again; a lost request is sent once more   *)
(* when doing it twice changes nothing.                                    *)
(*                                                                         *)
(* Every request is one of five kinds.  The token is sent and accepted in  *)
(* dialling; every client identifies itself when it connects; the one pane *)
(* is driven by an automation and takes the keys of one client only.       *)
(***************************************************************************)
EXTENDS Naturals, Sequences

CONSTANTS
    Clients,
    Leader,         \* the client that the pane's input policy names
    Conns,          \* bound: connections at a time, those of old threads included
    None,
    Chunks,         \* the requests that a long input is cut into
    MaxCalls,       \* bound: calls of all clients together
    MaxStarts,      \* bound: starts of a daemon
    MaxCuts         \* bound: connections that a transport loses

ASSUME ConstantsAssumption ==
    /\ Leader \in Clients
    /\ None \notin Clients \cup Conns
    /\ Chunks \in Nat \ {0} /\ MaxCalls \in Nat /\ MaxStarts \in Nat /\ MaxCuts \in Nat

VARIABLES
    build,          \* the daemon's build: "new", "old", or "down"
    value,          \* the state that an absolute write sets: the call that set it
    brake,          \* the pane's session is braked
    conn,           \* connections
    link,           \* a client's idle connection and its view of the daemon's build
    call,           \* a client's call
    kind, ran,      \* what a call asks, and how often each part was executed: history
    torn,           \* the chunks whose write failed, typed in part or not at all: history
    last,           \* how a client's last call returned
    calls, starts, cuts

daemon  == <<build, value, brake>>
history == <<kind, ran, torn>>
counts  == <<calls, starts, cuts>>
vars    == <<daemon, conn, link, call, history, last, counts>>

Ids    == 0..MaxCalls
Parts  == 1..Chunks
Ops    == {"get", "set", "spawn", "keys", "brake"}
Builds == {"new", "old"}

NoRequest == [at |-> "none", op |-> "none", id |-> 0, part |-> 1]
Unused    == [owner |-> None, whole |-> FALSE, held |-> FALSE, ident |-> None, req |-> NoRequest, rep |-> <<>>]
Idle      == [at |-> "idle", op |-> "none", id |-> 0, conn |-> None, view |-> "old", part |-> 1,
              again |-> FALSE, seen |-> {}]
NoCall    == [op |-> "none", id |-> 0, result |-> "none", parts |-> 0, answer |-> 0, seen |-> {}]

\* The requests that change nothing when done again: a read, a write of absolute state.
\* Mutant: a spawn is taken for one.
ReplaySpawns(op) == op \in {"get", "set", "spawn"}
Replay(op) == op \in {"get", "set"}

\* The calls that only a new daemon understands; the client asks its view of it first.
Required(op) == op \in {"spawn", "brake"}

Init ==
    /\ build = "down" /\ value = 0 /\ brake = FALSE
    /\ conn = [k \in Conns |-> Unused]
    /\ link = [c \in Clients |-> [conn |-> None, view |-> "none"]]
    /\ call = [c \in Clients |-> Idle]
    /\ kind = [n \in Ids |-> "none"] /\ ran = [n \in Ids |-> [i \in Parts |-> 0]] /\ torn = {}
    /\ last = [c \in Clients |-> NoCall]
    /\ calls = 0 /\ starts = 0 /\ cuts = 0
-----------------------------------------------------------------------------
(* A connection is gone when neither end needs it: the daemon's thread     *)
(* finishes the request it has, however long its client has left.          *)

Tidy(r)     == IF ~r.held /\ r.req.at = "none" THEN Unused ELSE r
Dropped(k)  == [conn EXCEPT ![k] = Tidy([@ EXCEPT !.held = FALSE, !.whole = FALSE])]
Dialled(c)  == [Unused EXCEPT !.owner = c, !.whole = TRUE, !.held = TRUE]
UnusedConns == {k \in Conns : conn[k] = Unused}

\* The chunks of an input that were acknowledged.  Mutant: those that were sent.
DeliveredAsSent(c, result) == call[c].part
Delivered(c, result) == IF result = "ok" THEN Chunks ELSE call[c].part - 1

\* A call returns; the link keeps k, if any.
Return(c, result, k, answer) ==
    /\ link' = [link EXCEPT ![c].conn = k]
    /\ call' = [call EXCEPT ![c] = Idle]
    /\ last' = [last EXCEPT ![c] =
         [op |-> call[c].op, id |-> call[c].id, result |-> result, answer |-> answer, seen |-> call[c].seen,
          parts |-> Delivered(c, result)]]
-----------------------------------------------------------------------------
(* The client's side of a call.                                            *)

Begin(c, op) ==
    /\ call[c].at = "idle" /\ link[c].view # "none" /\ calls < MaxCalls
    /\ Required(op) => link[c].view = "new"
    /\ calls' = calls + 1
    /\ call' = [call EXCEPT ![c] = [Idle EXCEPT !.op = op, !.id = calls', !.conn = link[c].conn, !.seen = {value},
                                               !.at = IF link[c].conn = None THEN "dial" ELSE "send"]]
    /\ link' = [link EXCEPT ![c].conn = None]
    /\ kind' = [kind EXCEPT ![calls'] = op]
    /\ UNCHANGED <<daemon, conn, ran, torn, last, starts, cuts>>

Connect(c) ==
    /\ call[c].at = "idle" /\ link[c].view = "none"
    /\ call' = [call EXCEPT ![c].at = "dial", ![c].op = "connect"]
    /\ UNCHANGED <<daemon, conn, link, history, last, counts>>

\* Open a connection and authenticate; after a lost probe it is used as it is.
Dial(c) ==
    /\ call[c].at \in {"dial", "redial"} /\ build # "down"
    /\ \E k \in UnusedConns :
         /\ conn' = [conn EXCEPT ![k] = Dialled(c)]
         /\ call' = [call EXCEPT ![c].conn = k, ![c].at = IF call[c].at = "dial" THEN "probe" ELSE "identify"]
    /\ UNCHANGED <<daemon, link, history, last, counts>>

CannotDial(c) ==
    /\ call[c].at \in {"dial", "redial"} /\ build = "down"
    /\ Return(c, "unreachable", None, 0)
    /\ UNCHANGED <<daemon, conn, history, counts>>

\* Hello: an older daemon refuses it or hangs up, and looks no different from a lost one.
ProbeAnswered(c) ==
    /\ call[c].at = "probe" /\ conn[call[c].conn].whole
    /\ call' = [call EXCEPT ![c].view = build, ![c].at = "identify"]
    /\ UNCHANGED <<daemon, conn, link, history, last, counts>>

ProbeLost(c) ==
    /\ call[c].at = "probe" /\ (build = "old" \/ ~conn[call[c].conn].whole)
    /\ conn' = Dropped(call[c].conn)
    /\ call' = [call EXCEPT ![c].view = "old", ![c].conn = None, ![c].at = "redial"]
    /\ UNCHANGED <<daemon, link, history, last, counts>>

\* The handshake ends with the client's identity, and its view replaces the link's.
\* Mutant: a connection that is dialled again is nobody's.
IdentifyOnce(c) ==
    /\ call[c].at = "identify" /\ conn[call[c].conn].whole
    /\ conn' = [conn EXCEPT ![call[c].conn].ident = IF call[c].op = "connect" THEN c ELSE None]
    /\ link' = [link EXCEPT ![c] = [view |-> call[c].view,
                                    conn |-> IF call[c].op = "connect" THEN call[c].conn ELSE None]]
    /\ call' = [call EXCEPT ![c] = IF @.op = "connect" THEN Idle ELSE [@ EXCEPT !.at = "send"]]
    /\ UNCHANGED <<daemon, history, last, counts>>
Identify(c) ==
    /\ call[c].at = "identify" /\ conn[call[c].conn].whole
    /\ conn' = [conn EXCEPT ![call[c].conn].ident = c]
    /\ link' = [link EXCEPT ![c] = [view |-> call[c].view,
                                    conn |-> IF call[c].op = "connect" THEN call[c].conn ELSE None]]
    /\ call' = [call EXCEPT ![c] = IF @.op = "connect" THEN Idle ELSE [@ EXCEPT !.at = "send"]]
    /\ UNCHANGED <<daemon, history, last, counts>>

CannotIdentify(c) ==
    /\ call[c].at = "identify" /\ ~conn[call[c].conn].whole
    /\ conn' = Dropped(call[c].conn)
    /\ Return(c, "unreachable", None, 0)
    /\ UNCHANGED <<daemon, history, counts>>

\* What is written to a connection that is lost goes nowhere.
Send(c) ==
    /\ call[c].at = "send"
    /\ conn' = [conn EXCEPT ![call[c].conn].req =
         IF conn[call[c].conn].whole
         THEN [at |-> "sent", op |-> call[c].op, id |-> call[c].id, part |-> call[c].part] ELSE @]
    /\ call' = [call EXCEPT ![c].at = "wait"]
    /\ UNCHANGED <<daemon, link, history, last, counts>>

\* The connection was lost: once more on a new one, or the call fails.
Lose(c) ==
    /\ call[c].at = "wait" /\ ~conn[call[c].conn].whole
    /\ conn' = Dropped(call[c].conn)
    /\ IF Replay(call[c].op) /\ ~call[c].again
       THEN /\ call' = [call EXCEPT ![c].again = TRUE, ![c].conn = None, ![c].at = "dial"]
            /\ UNCHANGED <<link, last>>
       ELSE Return(c, "lost", None, 0)
    /\ UNCHANGED <<daemon, history, counts>>

\* A frame over the cap: its bytes are still in the stream, which is dropped.
\* Mutant: the connection is put back before its reply is looked at.
KeepBroken(c) ==
    /\ call[c].at = "wait"
    /\ LET k == call[c].conn IN
       /\ conn[k].rep # <<>> /\ Head(conn[k].rep).result = "oversize"
       /\ conn' = [conn EXCEPT ![k].rep = Tail(@)]
       /\ Return(c, "broken", k, 0)
    /\ UNCHANGED <<daemon, history, counts>>
Break(c) ==
    /\ call[c].at = "wait"
    /\ LET k == call[c].conn IN
       /\ conn[k].rep # <<>> /\ Head(conn[k].rep).result = "oversize"
       /\ conn' = Dropped(k)
    /\ Return(c, "broken", None, 0)
    /\ UNCHANGED <<daemon, history, counts>>

\* A whole reply: the connection goes back, unless the input has more chunks.
Receive(c) ==
    /\ call[c].at = "wait"
    /\ LET k == call[c].conn  m == Head(conn[k].rep) IN
       /\ conn[k].rep # <<>> /\ m.result # "oversize"
       /\ conn' = [conn EXCEPT ![k].rep = Tail(@)]
       /\ IF m.result = "ok" /\ call[c].op = "keys" /\ call[c].part < Chunks
          THEN /\ call' = [call EXCEPT ![c].part = @ + 1, ![c].at = "send"]
               /\ UNCHANGED <<link, last>>
          ELSE Return(c, m.result, k, m.answer)
    /\ UNCHANGED <<daemon, history, counts>>
-----------------------------------------------------------------------------
(* The daemon's thread of a connection.                                    *)

\* Replies to a client that has gone are lost.
Reply(k, frames) ==
    [conn EXCEPT ![k] = Tidy([@ EXCEPT !.req = NoRequest,
                                       !.rep = conn[k].rep \o (IF conn[k].whole THEN frames ELSE <<>>)])]

\* The pane's admission is asked for under the registry's lock, which is not held while the
\* keys are written.  What an older daemon cannot decode it refuses, or hangs up on.
Gate(k) ==
    /\ conn[k].req.at = "sent"
    /\ LET op == conn[k].req.op
           refuse(why) == conn' = Reply(k, <<[id |-> conn[k].req.id, result |-> why, answer |-> 0]>>)
           admit       == conn' = [conn EXCEPT ![k].req.at = "run"]
       IN CASE op = "keys" /\ brake -> refuse("braked")
            [] op = "keys" /\ ~brake /\ conn[k].ident # Leader -> refuse("not_leader")
            [] op = "brake" /\ build = "old" -> refuse("unknown")
            [] OTHER -> admit
    /\ UNCHANGED <<daemon, link, call, history, last, counts>>

HangUp(k) ==
    /\ conn[k].req.at = "sent" /\ conn[k].req.op = "brake" /\ build = "old"
    /\ conn' = [conn EXCEPT ![k] = Tidy([@ EXCEPT !.req = NoRequest, !.whole = FALSE])]
    /\ UNCHANGED <<daemon, link, call, history, last, counts>>

\* The request is done and answered, or the keys could not be written: nothing of the chunk,
\* or a beginning of it, is then in the pane.  An older daemon sends an answer over the cap,
\* whose bytes would read as a frame; that it drops a spawn's arguments is left out.
Frames(req) ==
    LET whole == [id |-> req.id, result |-> "ok", answer |-> IF req.op = "get" THEN value ELSE 0] IN
    {<<whole>>} \cup (IF req.op = "get" /\ build = "old"
                      THEN {<<[whole EXCEPT !.result = "oversize"], whole>>} ELSE {})
                \cup (IF req.op = "keys" THEN {<<[whole EXCEPT !.result = "failed"]>>} ELSE {})

Run(k) ==
    LET req == conn[k].req IN
    /\ req.at = "run"
    /\ value' = IF req.op = "set" THEN req.id ELSE value
    /\ brake' = (brake \/ req.op = "brake")
    /\ ran' = [ran EXCEPT ![req.id][req.part] = @ + 1]
    /\ \E frames \in Frames(req) :
         /\ conn' = Reply(k, frames)
         /\ torn' = IF Head(frames).result = "failed" THEN torn \cup {<<req.id, req.part>>} ELSE torn
    /\ call' = [c \in Clients |-> IF call[c].op = "get" THEN [call[c] EXCEPT !.seen = @ \cup {value'}] ELSE call[c]]
    /\ UNCHANGED <<build, link, kind, last, counts>>
-----------------------------------------------------------------------------
(* Daemons and transports.                                                 *)

DaemonDies ==
    /\ build # "down" /\ build' = "down"
    /\ conn' = [k \in Conns |-> Tidy([conn[k] EXCEPT !.req = NoRequest, !.whole = FALSE])]
    /\ UNCHANGED <<value, brake, link, call, history, last, counts>>

\* The next one restores what its predecessor had persisted, or has nothing.
Start ==
    /\ build = "down" /\ starts < MaxStarts
    /\ starts' = starts + 1
    /\ build' \in Builds /\ value' \in {0, value}
    /\ brake' \in {FALSE, brake /\ build' = "new"}
    /\ call' = [c \in Clients |-> IF call[c].op = "get" THEN [call[c] EXCEPT !.seen = @ \cup {value'}] ELSE call[c]]
    /\ UNCHANGED <<conn, link, history, last, calls, cuts>>

\* A tunnel breaks: what is on its way to the daemon is lost, or arrives.
Cut(k) ==
    /\ conn[k].whole /\ cuts < MaxCuts
    /\ cuts' = cuts + 1
    /\ \E kept \in BOOLEAN :
         conn' = [conn EXCEPT ![k].whole = FALSE,
                              ![k].req = IF kept \/ @.at # "sent" THEN @ ELSE NoRequest]
    /\ UNCHANGED <<daemon, link, call, history, last, calls, starts>>

Next ==
    \/ DaemonDies \/ Start
    \/ \E c \in Clients :
         \/ \E op \in Ops : Begin(c, op)
         \/ Connect(c) \/ Dial(c) \/ CannotDial(c)
         \/ ProbeAnswered(c) \/ ProbeLost(c) \/ Identify(c) \/ CannotIdentify(c)
         \/ Send(c) \/ Lose(c) \/ Break(c) \/ Receive(c)
    \/ \E k \in Conns : Gate(k) \/ HangUp(k) \/ Run(k) \/ Cut(k)

Spec == Init /\ [][Next]_vars
-----------------------------------------------------------------------------
TypeOK ==
    /\ build \in Builds \cup {"down"} /\ value \in Ids /\ brake \in BOOLEAN
    /\ \A k \in Conns : conn[k].owner = None => conn[k] = Unused
    /\ \A c \in Clients : link[c].conn # None => conn[link[c].conn].owner = c /\ conn[link[c].conn].held
    /\ kind \in [Ids -> Ops \cup {"none"}]

\* A call that may not be replayed is done at most once, each chunk of an input too, through
\* every restart, lost connection and thread that outlives its client.
NeverTwice == \A n \in Ids, i \in Parts : ran[n][i] > 1 => kind[n] \in {"get", "set"}

\* A call that returned what the daemon answered was done, all of it, and a read returned
\* what was so while it was under way: no call gets another's reply, or a stale one.
AnswersAreOwn == \A c \in Clients : LET d == last[c] IN
    d.result = "ok" /\ d.op \in Ops =>
        /\ \A i \in Parts : (d.op = "keys" \/ i = 1) => ran[d.id][i] > 0 /\ <<d.id, i>> \notin torn
        /\ d.op = "get" => d.answer \in d.seen

\* The pane gets a long input from its beginning, no chunk after one that is missing or
\* torn, and a failed one is reported as what was acknowledged: all of that was typed, and
\* nothing but the chunk after it, if that was lost or its write failed, may have been, in
\* whole or in part.  A chunk that admission refused was not.
InputIsAPrefix ==
    /\ \A n \in Ids, i \in Parts : kind[n] = "keys" /\ i > 1 =>
         /\ ran[n][i] <= ran[n][i - 1]
         /\ ran[n][i] > 0 => <<n, i - 1>> \notin torn
    /\ \A c \in Clients : LET d == last[c]  typed(i) == ran[d.id][i] > 0 IN
        d.op = "keys" =>
            /\ \A i \in Parts : i <= d.parts => typed(i) /\ <<d.id, i>> \notin torn
            /\ \A i \in Parts : typed(i) => i <= d.parts + (IF d.result \in {"lost", "failed"} THEN 1 ELSE 0)

\* The client that the pane listens to is never taken for another: its identity follows it
\* onto every connection, also one dialled for a daemon that hung up on the probe.
LeaderIsHeard == last[Leader].result # "not_leader"

\* What a client holds a daemon to be capable of is not more than it is, as long as the
\* connection on which it was told so lives: a spawn's arguments are asked of one that
\* reads them (require_spawn_args; a call that dials again has asked too early).
ViewIsOfTheLink ==
    \A c \in Clients : LET k == link[c].conn IN
        k # None /\ link[c].view = "new" /\ conn[k].whole => build = "new"

\* What the handshake settled goes with the link, through every redial.
LinkIsKnown == LeaderIsHeard /\ ViewIsOfTheLink
=============================================================================
